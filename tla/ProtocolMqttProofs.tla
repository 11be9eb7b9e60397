-------------------------- MODULE ProtocolMqttProofs --------------------------
(***************************************************************************)
(* Theorems about ProtocolMqtt, for every set of publishers and parameters *)
(* and every bound on the delay.                                           *)
(***************************************************************************)
EXTENDS ProtocolMqtt, TLAPS

USE DEF history

-----------------------------------------------------------------------------
(* Types                                                                   *)

LEMMA BackOffGrows ==
  ASSUME delay \in MinDelay .. MaxDelay
  PROVE  BackOff \in MinDelay .. MaxDelay /\ BackOff >= delay
  BY MqttAssumption DEF BackOff

\* What Announce may leave.
LEMMA AnnounceTypes ==
  ASSUME announced \in BOOLEAN, NEW up \in BOOLEAN, Announce(up)
  PROVE  announced' \in BOOLEAN
  BY DEF Announce

\* What MQTT_EVT_DISCONNECT leaves.
LEMMA ClosedTypes ==
  ASSUME announced \in BOOLEAN, Closed
  PROVE  state' = "DISCONNECTED" /\ announced' \in BOOLEAN /\ ends' = 1
  BY AnnounceTypes DEF Closed

\* What mqtt_evt_handler may leave.
LEMMA HandlerTypes ==
  ASSUME StateOK, pending \in BOOLEAN,
         Quiet \/ Accepted \/ Refused \/ Lost \/ Subscribed
  PROVE  /\ state' \in {"DISCONNECTED", "CONNECTING", "CONNECTED", "SUBSCRIBED"}
         /\ delay' \in MinDelay .. MaxDelay
         /\ announced' \in BOOLEAN /\ pending' \in BOOLEAN /\ ends' \in 0 .. 2
<1>0. /\ announced \in BOOLEAN /\ MinDelay \in MinDelay .. MaxDelay
      /\ \A up \in BOOLEAN : Announce(up) => announced' \in BOOLEAN
      /\ Closed => state' = "DISCONNECTED" /\ announced' \in BOOLEAN /\ ends' = 1
  BY AnnounceTypes, ClosedTypes, MqttAssumption DEF StateOK
<1>1. CASE Quiet
  BY <1>1 DEF Quiet, StateOK
<1>2. CASE Accepted
  <2>1. state' \in {"CONNECTED", "DISCONNECTED"} /\ delay' = MinDelay
    BY <1>2 DEF Accepted
  <2>2. announced' \in BOOLEAN
    BY <1>0, <1>2, Zenon DEF Accepted
  <2>3. pending' \in BOOLEAN
    BY <1>2, Zenon DEF Accepted
  <2>5. ends' \in {ends, 1}
    BY <1>2 DEF Accepted
  <2>4. QED
    BY <1>0, <2>1, <2>2, <2>3, <2>5 DEF StateOK
<1>3. CASE Refused
  <2>1. CASE Closed
    BY <1>0, <1>3, <2>1 DEF Refused, StateOK
  <2>2. CASE UNCHANGED <<state, announced, ends>>
    BY <1>0, <1>3, <2>2 DEF Refused, StateOK
  <2> QED BY <1>3, <2>1, <2>2 DEF Refused
<1>4. CASE Lost
  BY <1>0, <1>4 DEF Lost, StateOK
<1>5. CASE Subscribed
  BY <1>5 DEF Subscribed, StateOK
<1>6. QED
  BY <1>1, <1>2, <1>3, <1>4, <1>5

LEMMA WorkerTypes ==
  ASSUME TypeOK, Worker \/ PayloadRead
  PROVE  TypeOK'
<1> USE DEF TypeOK, StateOK, ThreadOK, WorkerStep
<1>1. CASE Top
  <2>1. pending' \in BOOLEAN
    BY <1>1, Zenon DEF Top
  <2>2. w' \in {"exit", "dropPending", "net"}
    BY <1>1 DEF Top
  <2>3. UNCHANGED <<status, netUp, cfg, mutex, connection, pub, setter, life, seen>>
    BY <1>1 DEF Top
  <2>4. QED
    BY <2>1, <2>2, <2>3 DEF connection
<1>2. CASE CheckNet
  BY <1>2 DEF CheckNet, connection
<1>3. CASE Dispatch
  <2>1. due' \in BOOLEAN
    BY <1>3, Zenon DEF Dispatch
  <2>2. w' \in {"setup", "top", "input"}
    BY <1>3 DEF Dispatch
  <2>3. UNCHANGED <<status, state, netUp, pending, delay, cfg, conn, mutex, pub,
                    setter, life, seen, announced, ends>>
    BY <1>3 DEF Dispatch
  <2>4. QED
    BY <2>1, <2>2, <2>3
<1>4. CASE Snapshot
  BY <1>4 DEF Snapshot
<1>5. CASE Prepare
  BY <1>5 DEF Prepare, connection
<1>6. CASE Connect
  BY <1>6 DEF Connect
<1>7. CASE DropPending \/ DropNet \/ DropError \/ Exit
  <2>1. state' \in {state, "DISCONNECTED"} /\ ends' \in {ends, 1, 2}
    BY <1>7 DEF DropPending, DropNet, DropError, Exit, Disconnect, connection
  <2>5. announced' \in BOOLEAN
    BY <1>7, AnnounceTypes DEF DropPending, DropNet, DropError, Exit, Disconnect, connection
  <2>2. UNCHANGED <<status, netUp, pending, cfg, mutex, pub, setter, life, seen,
                    delay, due, conn>>
    BY <1>7 DEF DropPending, DropNet, DropError, Exit, Disconnect, connection
  <2>3. w' \in {"net", "top", "off"}
    BY <1>7 DEF DropPending, DropNet, DropError, Exit, Disconnect
  <2>4. QED
    BY <2>1, <2>2, <2>3, <2>5
<1>8. CASE ConnectFails
  <2>1. delay' \in MinDelay .. MaxDelay
    BY <1>8, BackOffGrows DEF ConnectFails
  <2>2. w' = "top" /\ UNCHANGED <<status, state, netUp, pending, due, cfg, conn, mutex,
                                  pub, setter, life, seen, announced, ends>>
    BY <1>8 DEF ConnectFails
  <2>3. QED
    BY <2>1, <2>2
<1>9. CASE Input \/ Live \/ PayloadRead
  <2>1. Quiet \/ Accepted \/ Refused \/ Lost \/ Subscribed
    BY <1>9 DEF Input, Live, PayloadRead
  <2>2. /\ state' \in {"DISCONNECTED", "CONNECTING", "CONNECTED", "SUBSCRIBED"}
        /\ delay' \in MinDelay .. MaxDelay
        /\ announced' \in BOOLEAN /\ pending' \in BOOLEAN /\ ends' \in 0 .. 2
    BY <2>1, HandlerTypes
  <2>3. /\ w' \in {"live", "top", "dropError"} /\ mutex' \in {mutex, "free"}
        /\ UNCHANGED <<status, netUp, due, cfg, conn, pub, setter, life, seen>>
    BY <1>9 DEF Input, Live, PayloadRead
  <2>4. QED
    BY <2>2, <2>3
<1>11. CASE PayloadBegins
  BY <1>11 DEF PayloadBegins, connection
<1>10. QED
  BY <1>1, <1>2, <1>3, <1>4, <1>5, <1>6, <1>7, <1>8, <1>9, <1>11 DEF Worker

\* The threads beside the worker leave the connection alone, but for the start
\* of a worker and a write that fails.
LEMMA OtherTypes ==
  ASSUME TypeOK,
         \/ DelayElapses \/ Configure \/ Lifecycle
         \/ \E p \in Publishers : Publish(p)
         \/ \E up \in BOOLEAN : NetEvent(up)
  PROVE  TypeOK'
<1> USE DEF TypeOK, StateOK, ThreadOK
<1>1. CASE DelayElapses
  BY <1>1 DEF DelayElapses, threads
<1>2. CASE Configure
  <2>1. CASE RequestReconnect
    BY <2>1 DEF RequestReconnect, connection
  <2>2. ASSUME NEW f \in Fields, SetField(f) PROVE TypeOK'
    <3>1. cfg' \in [Fields -> Nat]
      BY <2>2 DEF SetField
    <3>2. QED
      BY <2>2, <3>1 DEF SetField, connection
  <2>3. QED
    BY <1>2, <2>1, <2>2 DEF Configure
<1>3. CASE Lifecycle
  <2>1. CASE Start \/ StartSetNet \/ \E up \in BOOLEAN : StartReadNet(up)
    BY <2>1 DEF Start, StartReadNet, StartSetNet, connection
  <2>2. CASE StartSpawn
    BY <2>2 DEF StartSpawn
  <2>3. CASE Stop \/ StopJoin
    BY <2>3 DEF Stop, StopJoin, connection
  <2>5. CASE StopFlag
    BY <2>5 DEF StopFlag, connection
  <2>4. CASE Shutdown
    BY <2>4 DEF Shutdown, connection, threads
  <2>6. QED
    BY <1>3, <2>1, <2>2, <2>3, <2>4, <2>5 DEF Lifecycle
<1>4. ASSUME NEW p \in Publishers, Publish(p) PROVE TypeOK'
  <2>1. pub' \in [Publishers -> {"idle", "lock", "sending"}]
    BY <1>4 DEF Publish, PubStep, PubCheck, PubLock, PubTimeout, PubDone, PubLost
  <2>2. mutex' \in Publishers \cup {"free", "worker"}
    BY <1>4 DEF Publish, PubCheck, PubLock, PubTimeout, PubDone, PubLost
  <2>3. UNCHANGED <<status, netUp, pending, delay, due, cfg, conn, w, setter, life, seen>>
    BY <1>4 DEF Publish, PubCheck, PubLock, PubTimeout, PubDone, PubLost, Lost, connection
  <2>5. /\ state' \in {state, "DISCONNECTED"}
        /\ announced' \in BOOLEAN /\ ends' \in {ends, 1}
    BY <1>4, ClosedTypes
       DEF Publish, PubCheck, PubLock, PubTimeout, PubDone, PubLost, Lost, connection
  <2>4. QED
    BY <2>1, <2>2, <2>3, <2>5
<1>5. ASSUME NEW up \in BOOLEAN, NetEvent(up) PROVE TypeOK'
  BY <1>5 DEF NetEvent, connection, threads
<1>6. QED
  BY <1>1, <1>2, <1>3, <1>4, <1>5

\* Every variable keeps its type; in particular the delay between two attempts
\* never leaves RECONNECT_MIN_MS .. RECONNECT_MAX_MS.
THEOREM TypeCorrect == Spec => []TypeOK
<1>1. Init => TypeOK
  <2> SUFFICES ASSUME Init PROVE TypeOK
    OBVIOUS
  <2>1. StateOK
    <3>1. /\ delay \in MinDelay .. MaxDelay
          /\ cfg \in [Fields -> Nat] /\ conn \in [Fields -> Nat]
      BY MqttAssumption DEF Init
    <3>2. state = "DISCONNECTED" /\ due \in BOOLEAN /\ announced \in BOOLEAN /\ seen \in BOOLEAN
      BY Zenon DEF Init
    <3>4. ends = 1
      BY DEF Init
    <3>3. QED
      BY <3>1, <3>2, <3>4 DEF StateOK
  <2>2. ThreadOK
    BY DEF Init, ThreadOK
  <2>3. QED
    BY <2>1, <2>2 DEF TypeOK
<1>2. TypeOK /\ [Next]_vars => TypeOK'
  <2> SUFFICES ASSUME TypeOK, [Next]_vars PROVE TypeOK'
    OBVIOUS
  <2>1. CASE UNCHANGED vars
    BY <2>1 DEF vars, TypeOK, StateOK, ThreadOK
  <2>2. QED
    BY <2>1, WorkerTypes, OtherTypes DEF Next
<1>3. QED
  BY <1>1, <1>2, PTL DEF Spec

-----------------------------------------------------------------------------
(* The delay                                                               *)

\* Only the mqtt_input that brings the CONNACK makes the delay between two attempts
\* shorter.
THEOREM DelayOnlyResetByConnack == Spec => DelayResetByConnack
<1> DEFINE Shrinks == delay' < delay => state = "CONNECTING" /\ w = "input"
<1>1. TypeOK /\ [Next]_vars => [Shrinks]_vars
  <2> SUFFICES ASSUME TypeOK, Next PROVE Shrinks
    OBVIOUS
  <2>0. delay \in MinDelay .. MaxDelay /\ ~(delay < delay)
    BY MqttAssumption DEF TypeOK, StateOK
  <2>1. CASE ConnectFails
    <3>1. delay' = BackOff /\ BackOff >= delay /\ BackOff \in MinDelay .. MaxDelay
      BY <2>0, <2>1, BackOffGrows DEF ConnectFails
    <3>2. QED
      BY <2>0, <3>1, MqttAssumption
  <2>2. CASE Input \/ Live \/ PayloadRead
    BY <2>0, <2>2 DEF Input, Live, PayloadRead, Quiet, Accepted, Refused, Lost, Subscribed,
       WorkerStep
  <2>3. CASE Worker /\ ~ConnectFails /\ ~Input /\ ~Live
    BY <2>0, <2>3 DEF Worker, Top, DropPending, DropNet, DropError, Exit, Disconnect,
       CheckNet, Dispatch, Snapshot, Prepare, Connect, PayloadBegins, connection
  <2>4. CASE DelayElapses \/ Configure \/ Lifecycle
    BY <2>0, <2>4 DEF DelayElapses, Configure, SetField, RequestReconnect, Lifecycle,
       Start, StartReadNet, StartSetNet, StartSpawn, Stop, StopFlag, StopJoin, Shutdown,
       connection
  <2>5. CASE (\E p \in Publishers : Publish(p)) \/ (\E up \in BOOLEAN : NetEvent(up))
    BY <2>0, <2>5 DEF Publish, PubCheck, PubLock, PubTimeout, PubDone, PubLost, Lost,
       NetEvent, connection
  <2>6. QED
    BY <2>1, <2>2, <2>3, <2>4, <2>5 DEF Next
<1>2. QED
  BY <1>1, TypeCorrect, PTL DEF Spec, DelayResetByConnack

-----------------------------------------------------------------------------
(* Changed parameters                                                      *)

\* No connection goes on with parameters that were changed since: the request
\* to drop it is pending, about to be made, or being carried out.
THEOREM NoStaleConnection == Spec => []StaleConnectionDropped
<1> USE DEF StaleConnectionDropped, Attempting
<1>1. Init => StaleConnectionDropped
  BY DEF Init
<1>2. StaleConnectionDropped /\ [Next]_vars => StaleConnectionDropped'
  <2> SUFFICES ASSUME StaleConnectionDropped, [Next]_vars
               PROVE  StaleConnectionDropped'
    OBVIOUS
  <2>1. CASE Top \/ CheckNet \/ Dispatch \/ Snapshot \/ Prepare \/ ConnectFails \/ Connect
    BY <2>1 DEF Top, CheckNet, Dispatch, Snapshot, Prepare, ConnectFails, Connect,
                WorkerStep, connection
  <2>2. CASE DropPending \/ DropNet \/ DropError \/ Exit
    BY <2>2 DEF DropPending, DropNet, DropError, Exit, Disconnect, WorkerStep, connection
  <2>3. CASE Input \/ Live \/ PayloadBegins \/ PayloadRead
    BY <2>3 DEF Input, Live, PayloadBegins, PayloadRead, Quiet, Accepted, Refused, Lost,
                Closed, Subscribed, WorkerStep, connection
  <2>4. CASE Configure
    BY <2>4 DEF Configure, SetField, RequestReconnect, connection
  <2>5. CASE Lifecycle
    BY <2>5 DEF Lifecycle, Start, StartReadNet, StartSetNet, StartSpawn, Stop, StopFlag,
                StopJoin, Shutdown, connection, threads
  <2>6. CASE \/ DelayElapses \/ (\E p \in Publishers : Publish(p))
             \/ (\E up \in BOOLEAN : NetEvent(up)) \/ UNCHANGED vars
    BY <2>6 DEF DelayElapses, Publish, PubCheck, PubLock, PubTimeout, PubDone, PubLost,
                Lost, Closed, NetEvent, connection, threads, vars
  <2>7. QED
    BY <2>1, <2>2, <2>3, <2>4, <2>5, <2>6 DEF Next, Worker
<1>3. QED
  BY <1>1, <1>2, PTL DEF Spec

-----------------------------------------------------------------------------
(* Stop, and what is announced                                             *)

\* The worker exists only between the end of start and the join of stop, and it
\* leaves, or begins an attempt, with no session open.
WorkerLife ==
  /\ life = "idle" /\ status # "RUNNING" => w = "off"
  /\ life \in {"readNet", "setNet", "spawn"} => w = "off" /\ status = "RUNNING"
  /\ life \in {"flag", "join"} => status = "STOPPED"
  /\ w \in {"off", "setup", "prepare", "connect"} => state = "DISCONNECTED"

LEMMA WorkerLifeStep ==
  ASSUME TypeOK, WorkerLife, [Next]_vars
  PROVE  WorkerLife'
<1> USE DEF WorkerLife
<1>0. CASE Dispatch \/ Snapshot \/ Connect
  BY <1>0 DEF Dispatch, Snapshot, Connect, WorkerStep
<1>1. CASE Top \/ CheckNet \/ Prepare \/ ConnectFails
  BY <1>1 DEF Top, CheckNet, Prepare, ConnectFails, WorkerStep, connection
<1>2. CASE DropPending \/ DropNet \/ DropError \/ Exit
  BY <1>2 DEF DropPending, DropNet, DropError, Exit, Disconnect, WorkerStep, connection
<1>3. CASE Input \/ Live \/ PayloadBegins \/ PayloadRead
  BY <1>3 DEF Input, Live, PayloadBegins, PayloadRead, WorkerStep
<1>4. CASE Configure
  BY <1>4 DEF Configure, SetField, RequestReconnect, connection
<1>5. CASE Lifecycle
  BY <1>5 DEF Lifecycle, Start, StartReadNet, StartSetNet, StartSpawn, Stop, StopFlag,
              StopJoin, Shutdown, connection, threads
<1>6. CASE \/ DelayElapses \/ (\E p \in Publishers : Publish(p))
           \/ (\E up \in BOOLEAN : NetEvent(up)) \/ UNCHANGED vars
  BY <1>6 DEF DelayElapses, Publish, PubCheck, PubLock, PubTimeout, PubDone, PubLost,
              Lost, Closed, NetEvent, connection, threads, vars
<1>7. QED
  BY <1>0, <1>1, <1>2, <1>3, <1>4, <1>5, <1>6 DEF Next, Worker

LEMMA WorkerLifeAlways == Spec => []WorkerLife
<1>1. Init => WorkerLife
  BY DEF Init, WorkerLife
<1>2. QED
  BY <1>1, WorkerLifeStep, TypeCorrect, PTL DEF Spec

\* What MQTT_EVT_DISCONNECT announces.
LEMMA ClosedTruly ==
  ASSUME Closed
  PROVE  state' = "DISCONNECTED" /\ ends' = 1 /\ (~BusRefuses => announced' = FALSE)
  BY DEF Closed, Announce

\* On every path a session takes, on the worker's thread or on a publisher's, its
\* end is announced once or twice; and when the bus takes every event, the last link
\* event on it tells whether a session is open.
THEOREM LinkAnnouncedTruly == Spec => []AnnouncedTruly
<1> USE DEF AnnouncedTruly, Online
<1>1. Init => AnnouncedTruly
  BY DEF Init
<1>2. TypeOK /\ WorkerLife /\ AnnouncedTruly /\ [Next]_vars => AnnouncedTruly'
  <2> SUFFICES ASSUME TypeOK, WorkerLife, AnnouncedTruly, [Next]_vars
               PROVE  AnnouncedTruly'
    OBVIOUS
  <2>1. CASE Top \/ CheckNet \/ Dispatch \/ Snapshot \/ Prepare \/ ConnectFails \/ PayloadBegins
    BY <2>1 DEF Top, CheckNet, Dispatch, Snapshot, Prepare, ConnectFails, PayloadBegins,
                connection
  <2>2. CASE Connect
    BY <2>2 DEF Connect, WorkerStep, WorkerLife
  <2>3. CASE DropPending \/ DropNet \/ DropError \/ Exit
    BY <2>3 DEF DropPending, DropNet, DropError, Exit, Disconnect, Announce, connection
  <2>4. CASE Input \/ Live \/ PayloadRead
    <3>1. CASE Quiet \/ Subscribed
      BY <3>1 DEF Quiet, Subscribed
    <3>2. CASE Accepted
      BY <3>2 DEF Accepted, Announce
    <3>3. CASE Lost
      BY <3>3, ClosedTruly DEF Lost
    <3>5. CASE Refused
      <4>1. CASE Closed
        BY <4>1, ClosedTruly
      <4>2. CASE UNCHANGED <<state, announced, ends>>
        BY <4>2
      <4> QED BY <3>5, <4>1, <4>2 DEF Refused
    <3>4. QED
      BY <2>4, <3>1, <3>2, <3>3, <3>5 DEF Input, Live, PayloadRead
  <2>5. CASE StartSpawn
    BY <2>5 DEF StartSpawn, WorkerLife
  <2>6. CASE Configure \/ (Lifecycle /\ ~StartSpawn)
    BY <2>6 DEF Configure, SetField, RequestReconnect, Lifecycle, Start, StartReadNet,
                StartSetNet, Stop, StopFlag, StopJoin, Shutdown, connection
  <2>7. CASE \/ DelayElapses \/ (\E p \in Publishers : Publish(p) /\ ~PubLost(p))
             \/ (\E up \in BOOLEAN : NetEvent(up)) \/ UNCHANGED vars
    BY <2>7 DEF DelayElapses, Publish, PubCheck, PubLock, PubTimeout, PubDone, NetEvent,
                connection, vars
  <2>9. CASE \E p \in Publishers : PubLost(p)
    BY <2>9, ClosedTruly DEF PubLost, Lost
  <2>8. QED
    BY <2>1, <2>2, <2>3, <2>4, <2>5, <2>6, <2>7, <2>9 DEF Next, Worker
<1>3. QED
  BY <1>1, <1>2, TypeCorrect, WorkerLifeAlways, PTL DEF Spec

\* protocol_mqtt_stop leaves no worker, no session and no announced session.
THEOREM StopsClean == Spec => []StoppedClean
<1>1. WorkerLife /\ AnnouncedTruly => StoppedClean
  BY DEF WorkerLife, AnnouncedTruly, StoppedClean, Online
<1>2. QED
  BY <1>1, WorkerLifeAlways, LinkAnnouncedTruly, PTL

-----------------------------------------------------------------------------
(* What the module is to the others                                        *)

\* The worker and the session as MqttSession sees them.
SessionView ==
  /\ w \in {"off", "top", "exit"} => SessionWorkerAt = w
  /\ w = "dropPending" => SessionWorkerAt = "drop"
  /\ w \in {"prepare", "connect"} => SessionWorkerAt = "attempt"
  /\ w \in {"net", "fsm", "setup", "input", "payload", "live", "dropNet", "dropError"}
       => SessionWorkerAt = "act"
  /\ state = "DISCONNECTED" <=> SessionOf = "down"
  /\ state = "CONNECTING" <=> SessionOf = "trying"
  /\ state \in {"CONNECTED", "SUBSCRIBED"} <=> SessionOf = "up"

LEMMA SessionViewTrue == TypeOK => SessionView
BY DEF TypeOK, StateOK, ThreadOK, SessionWorkerAt, SessionOf, Online, SessionView

\* Every step of the worker is one of MqttSession's worker, or hidden from it.
LEMMA WorkerImplements ==
  ASSUME TypeOK, SessionView, SessionView', WorkerLife, Worker \/ PayloadRead
  PROVE  Session!SessionWorker \/ UNCHANGED Session!sessionVars
<1> USE DEF WorkerStep, SessionView
<1>1. CASE Top
  <2>0. w = "top" /\ UNCHANGED <<cfg, conn, SessionOf>>
    BY <1>1 DEF Top, connection, SessionOf, Online
  <2>1. CASE status # "RUNNING"
    <3>1. w' = "exit" /\ UNCHANGED pending
      BY <1>1, <2>1, Zenon DEF Top
    <3>2. Session!Leave
      BY <2>0, <3>1 DEF Session!Leave
    <3> QED BY <3>2 DEF Session!SessionWorker
  <2>2. CASE status = "RUNNING"
    <3>1. pending' = FALSE
      <4>1. ~pending /\ pending' = pending => pending' = FALSE
        BY DEF TypeOK, ThreadOK
      <4> QED BY <1>1, <2>2, <4>1, Zenon DEF Top
    <3>2. w' = IF pending THEN "dropPending" ELSE "net"
      BY <1>1, <2>2, Zenon DEF Top
    <3>3. Session!Top
      BY <2>0, <3>1, <3>2 DEF Session!Top
    <3> QED BY <3>3 DEF Session!SessionWorker
  <2> QED BY <2>1, <2>2
<1>2. CASE DropPending
  <2>1. Session!Drop
    BY <1>2 DEF DropPending, Disconnect, connection, Session!Drop
  <2> QED BY <2>1 DEF Session!SessionWorker
<1>3. CASE DropNet \/ DropError
  <2>1. CASE state = "DISCONNECTED"
    <3>1. Session!Rest
      BY <1>3, <2>1 DEF DropNet, DropError, Disconnect, connection, Session!Rest
    <3> QED BY <3>1 DEF Session!SessionWorker
  <2>2. CASE state # "DISCONNECTED"
    <3>1. Session!Serve
      BY <1>3, <2>2 DEF DropNet, DropError, Disconnect, connection, Session!Serve
    <3> QED BY <3>1 DEF Session!SessionWorker
  <2> QED BY <2>1, <2>2
<1>4. CASE Exit
  <2>1. Session!Exit
    BY <1>4 DEF Exit, Disconnect, connection, Session!Exit
  <2> QED BY <2>1 DEF Session!SessionWorker
<1>5. CASE CheckNet \/ Dispatch
  <2>0. w \in {"net", "fsm"} /\ UNCHANGED <<cfg, conn, pending, state, SessionOf>>
    BY <1>5 DEF CheckNet, Dispatch, connection, SessionOf, Online
  <2>1. CASE w' = "top"
    <3>1. Session!Rest
      BY <2>0, <2>1 DEF Session!Rest
    <3> QED BY <3>1 DEF Session!SessionWorker
  <2>2. CASE w' # "top"
    BY <1>5, <2>0, <2>2 DEF CheckNet, Dispatch, Session!sessionVars
  <2> QED BY <2>1, <2>2
<1>6. CASE Snapshot
  <2>1. Session!Snapshot
    BY <1>6 DEF Snapshot, WorkerLife, Session!Snapshot
  <2> QED BY <2>1 DEF Session!SessionWorker
<1>7. CASE Prepare
  BY <1>7 DEF Prepare, connection, SessionOf, Online, Session!sessionVars
<1>8. CASE ConnectFails \/ Connect
  <2>1. Session!Attempt
    BY <1>8 DEF ConnectFails, Connect, WorkerLife, Session!Attempt
  <2> QED BY <2>1 DEF Session!SessionWorker
<1>9. CASE Input \/ Live \/ PayloadRead
  <2>0. /\ w \in {"input", "payload", "live"} /\ w' \in {"live", "top", "dropError"}
        /\ UNCHANGED <<cfg, conn>>
        /\ Quiet \/ Accepted \/ Refused \/ Lost \/ Subscribed
    BY <1>9 DEF Input, Live, PayloadRead
  <2>1. CASE state = "DISCONNECTED"
    <3>1. UNCHANGED <<state, pending, SessionOf>>
      BY <2>0, <2>1 DEF Quiet, Accepted, Refused, Lost, Subscribed, SessionOf, Online
    <3>2. CASE w' = "top"
      <4>1. Session!Rest
        BY <2>0, <3>1, <3>2 DEF Session!Rest
      <4> QED BY <4>1 DEF Session!SessionWorker
    <3>3. CASE w' # "top"
      BY <2>0, <3>1, <3>3 DEF Session!sessionVars
    <3> QED BY <3>2, <3>3
  <2>2. CASE state # "DISCONNECTED"
    <3>1. pending' \in {pending, TRUE}
      BY <2>0, Zenon DEF Quiet, Accepted, Refused, Lost, Subscribed
    <3>2. state' \in {state, "CONNECTED", "SUBSCRIBED", "DISCONNECTED"}
      BY <2>0 DEF Quiet, Accepted, Refused, Lost, Closed, Subscribed
    <3>3. SessionOf' \in {SessionOf, "up", "down"}
      BY <3>2 DEF SessionOf, Online
    <3>4. Session!Serve
      BY <2>0, <2>2, <3>1, <3>3 DEF Session!Serve
    <3> QED BY <3>4 DEF Session!SessionWorker
  <2> QED BY <2>1, <2>2
<1>10. CASE PayloadBegins
  BY <1>10 DEF PayloadBegins, connection, SessionOf, Online, Session!sessionVars
<1> QED
  BY <1>1, <1>2, <1>3, <1>4, <1>5, <1>6, <1>7, <1>8, <1>9, <1>10 DEF Worker

\* The other threads set a value, ask for a reconnection, start the worker or lose
\* the session in a write.
LEMMA OthersImplement ==
  ASSUME TypeOK, TypeOK', SessionView, SessionView', WorkerLife,
         \/ DelayElapses \/ Configure \/ Lifecycle
         \/ \E p \in Publishers : Publish(p)
         \/ \E up \in BOOLEAN : NetEvent(up)
  PROVE  Session!SessionNext \/ UNCHANGED Session!sessionVars
<1> USE DEF SessionView, Session!SessionNext
<1>1. ASSUME NEW f \in Fields, SetField(f) PROVE Session!Change(f, cfg'[f])
  <2>1. cfg' = [cfg EXCEPT ![f] = cfg'[f]] /\ cfg'[f] \in Nat
    BY <1>1 DEF SetField, TypeOK, StateOK
  <2>2. UNCHANGED <<conn, pending, w, state>>
    BY <1>1 DEF SetField, connection
  <2> QED BY <2>1, <2>2 DEF Session!Change, SessionWorkerAt, SessionOf, Online
<1>2. CASE RequestReconnect \/ StopFlag
  <2>1. Session!AskToDrop
    BY <1>2 DEF RequestReconnect, StopFlag, connection, SessionWorkerAt, SessionOf, Online,
       Session!AskToDrop
  <2> QED BY <2>1
<1>3. CASE StartSpawn
  <2>1. Session!Spawn
    BY <1>3 DEF StartSpawn, WorkerLife, Session!Spawn
  <2> QED BY <2>1 DEF Session!SessionWorker
<1>4. CASE \/ Start \/ StartSetNet \/ Stop \/ StopJoin \/ Shutdown
           \/ \E up \in BOOLEAN : StartReadNet(up)
  <2>1. UNCHANGED <<cfg, conn, pending, w, state>>
    BY <1>4 DEF Start, StartSetNet, Stop, StopJoin, Shutdown, StartReadNet, connection, threads
  <2> QED BY <2>1 DEF SessionWorkerAt, SessionOf, Online, Session!sessionVars
<1>6. CASE \E p \in Publishers : PubLost(p)
  <2>1. Online /\ state' = "DISCONNECTED" /\ UNCHANGED <<cfg, conn, pending, w>>
    BY <1>6 DEF PubLost, Lost, Closed
  <2>2. Session!End
    BY <2>1 DEF Online, SessionWorkerAt, Session!End
  <2> QED BY <2>2
<1>5. CASE \/ DelayElapses \/ (\E p \in Publishers : Publish(p) /\ ~PubLost(p))
           \/ \E up \in BOOLEAN : NetEvent(up)
  <2>1. UNCHANGED <<cfg, conn, pending, w, state>>
    BY <1>5 DEF DelayElapses, Publish, PubCheck, PubLock, PubTimeout, PubDone, NetEvent,
       connection, threads
  <2> QED BY <2>1 DEF SessionWorkerAt, SessionOf, Online, Session!sessionVars
<1> QED
  BY <1>1, <1>2, <1>3, <1>4, <1>5, <1>6 DEF Configure, Lifecycle

\* The module implements MqttSession, whatever the network, the broker and the
\* threads that publish do: what is proved of a gateway composed with MqttSession
\* holds of one composed with the module.
THEOREM ImplementsMqttSession == Spec => ImplementsSession
<1>1. Init => Session!SessionBegin
  <2> SUFFICES ASSUME Init PROVE Session!SessionBegin
    OBVIOUS
  <2>1. SessionWorkerAt = "off" /\ SessionOf = "down"
    BY DEF Init, SessionWorkerAt, SessionOf, Online
  <2>2. cfg \in [Fields -> Nat] /\ conn = cfg
    BY DEF Init
  <2>3. pending = FALSE
    BY DEF Init
  <2> QED BY <2>1, <2>2, <2>3 DEF Session!SessionBegin
<1>2. /\ TypeOK /\ TypeOK' /\ SessionView /\ SessionView' /\ WorkerLife /\ [Next]_vars
      => [Session!SessionNext]_(Session!sessionVars)
  <2> SUFFICES ASSUME TypeOK, TypeOK', SessionView, SessionView', WorkerLife, [Next]_vars
               PROVE  Session!SessionNext \/ UNCHANGED Session!sessionVars
    OBVIOUS
  <2>1. CASE Worker \/ PayloadRead
    BY <2>1, WorkerImplements DEF Session!SessionNext
  <2>2. CASE UNCHANGED vars
    BY <2>2 DEF vars, SessionWorkerAt, SessionOf, Online, Session!sessionVars
  <2> QED BY <2>1, <2>2, OthersImplement DEF Next
<1>3. Spec => []SessionView
  BY TypeCorrect, SessionViewTrue, PTL
<1> QED
  BY <1>1, <1>2, <1>3, TypeCorrect, WorkerLifeAlways, PTL
     DEF Spec, ImplementsSession, Session!SessionSpec
=============================================================================
