------------------------------- MODULE Uplink -------------------------------
(***************************************************************************)
(* What the MQTT module believes of the network: network_manager.c polls   *)
(* the interface and publishes the edges NET_UP and NET_DOWN, and          *)
(* protocol_mqtt.c keeps the last one in net_up, which its own start sets  *)
(* from the interface.  Both modules may be stopped and started alone.     *)
(* The MQTT worker that acts on net_up is in ProtocolMqtt.                 *)
(***************************************************************************)
EXTENDS Naturals, Sequences

CONSTANTS
  BusSize,     \* bound: HIGH events the bus (external) holds
  BusRefuses   \* whether it may refuse one all the same

ASSUME UplinkAssumption ==
  /\ BusSize \in Nat \ {0}
  /\ BusRefuses \in BOOLEAN

VARIABLES
  iface,      \* network_is_up(): the default interface is up (external)
  status,     \* of network_manager
  known,      \* net_up of network_manager: what it saw at its last poll
  nm,         \* its worker thread
  joining,    \* its stop waits for the thread
  bus,        \* events waiting: TRUE for NET_UP, FALSE for NET_DOWN
  mqtt,       \* status of protocol_mqtt
  netUp,      \* net_up of protocol_mqtt
  start,      \* protocol_mqtt_start: "idle", or "set" after it read the interface
  read,       \* what it read
  astray      \* history: the last word on net_up was not the manager's

manager == <<status, known, nm, joining>>
client  == <<mqtt, netUp, start, read>>
vars    == <<iface, manager, bus, client, astray>>

Init ==
  /\ iface \in BOOLEAN
  /\ status = "INITIALIZED" /\ known = FALSE /\ nm = "off" /\ joining = FALSE
  /\ bus = <<>>
  /\ mqtt = "INITIALIZED" /\ netUp = FALSE /\ start = "idle" /\ read = FALSE
  /\ astray = FALSE

Startable == {"INITIALIZED", "STOPPED"}

InterfaceChanges ==
  /\ iface' = ~iface
  /\ UNCHANGED <<manager, bus, client, astray>>

\* What net_up will be once the events on the bus have been handled.
Coming == IF bus = <<>> THEN netUp ELSE bus[Len(bus)]

-----------------------------------------------------------------------------
(* network_manager                                                         *)

\* init after a shutdown: net_up is forgotten, and so is a NET_UP told before.
ManagerInit ==
  /\ status = "UNINITIALIZED"
  /\ status' = "INITIALIZED" /\ known' = FALSE
  /\ astray' = Coming
  /\ UNCHANGED <<iface, nm, joining, bus, client>>

\* start forgets it too.
ManagerStart ==
  /\ status \in Startable /\ ~joining
  /\ status' = "RUNNING" /\ known' = FALSE /\ nm' = "top"
  /\ astray' = Coming
  /\ UNCHANGED <<iface, joining, bus, client>>

\* Mutant: net_was_up is read after net_up was written.
PollTooLate ==
  /\ nm = "top" /\ status = "RUNNING"
  /\ known' = iface
  /\ nm' = "sleep"
  /\ UNCHANGED <<iface, status, joining, bus, client, astray>>

Poll ==
  /\ nm = "top" /\ status = "RUNNING"
  /\ known' = iface
  /\ nm' = IF iface # known THEN "publish" ELSE "sleep"
  /\ UNCHANGED <<iface, status, joining, bus, client, astray>>

\* The result of event_publish_copy is ignored.
PublishEdge ==
  /\ nm = "publish" /\ nm' = "sleep"
  /\ \/ /\ Len(bus) < BusSize
        /\ bus' = Append(bus, known) /\ astray' = FALSE
     \/ /\ Len(bus) = BusSize \/ BusRefuses
        /\ astray' = TRUE /\ UNCHANGED bus
  /\ UNCHANGED <<iface, status, known, joining, client>>

Wake ==
  /\ nm = "sleep" /\ nm' = "top"
  /\ UNCHANGED <<iface, status, known, joining, bus, client, astray>>

Exit ==
  /\ nm = "top" /\ status # "RUNNING" /\ nm' = "off"
  /\ UNCHANGED <<iface, status, known, joining, bus, client, astray>>

ManagerStop ==
  /\ status = "RUNNING"
  /\ status' = "STOPPED" /\ joining' = TRUE
  /\ UNCHANGED <<iface, known, nm, bus, client, astray>>

ManagerJoined ==
  /\ joining /\ nm = "off" /\ joining' = FALSE
  /\ UNCHANGED <<iface, status, known, nm, bus, client, astray>>

\* The rest of shutdown, after the stop it begins with.
ManagerShutdown ==
  /\ status \in Startable /\ ~joining
  /\ status' = "UNINITIALIZED"
  /\ UNCHANGED <<iface, known, nm, joining, bus, client, astray>>

-----------------------------------------------------------------------------
(* protocol_mqtt                                                           *)

\* protocol_mqtt_on_event, on the dispatcher, whatever the status
OnEvent ==
  /\ bus # <<>>
  /\ netUp' = Head(bus) /\ bus' = Tail(bus)
  /\ UNCHANGED <<iface, manager, mqtt, start, read, astray>>

\* init after a shutdown clears net_up: no word of the manager's, until start.
ClientInit ==
  /\ mqtt = "UNINITIALIZED"
  /\ mqtt' = "INITIALIZED" /\ netUp' = FALSE
  /\ astray' = IF bus = <<>> /\ nm # "publish" THEN known ELSE astray
  /\ UNCHANGED <<iface, manager, bus, start, read>>

\* The interface is read, and net_up set with what was read: two steps, and an
\* event may be handled between them.
StartReads ==
  /\ mqtt \in Startable /\ start = "idle"
  /\ mqtt' = "RUNNING" /\ start' = "set" /\ read' = iface
  /\ UNCHANGED <<iface, manager, bus, netUp, astray>>

\* The manager has nothing more to say, and knew otherwise.
Overruled == bus = <<>> /\ nm # "publish" /\ read # known

\* Mutant: net_up is cleared, as it was before network_is_up() was used.
StartClears ==
  /\ start = "set" /\ start' = "idle"
  /\ netUp' = FALSE /\ read' = FALSE
  /\ astray' = IF bus = <<>> /\ nm # "publish" THEN Overruled ELSE astray
  /\ UNCHANGED <<iface, manager, bus, mqtt>>

StartSets ==
  /\ start = "set" /\ start' = "idle"
  /\ netUp' = read /\ read' = FALSE
  /\ astray' = IF bus = <<>> /\ nm # "publish" THEN Overruled ELSE astray
  /\ UNCHANGED <<iface, manager, bus, mqtt>>

\* The join of the MQTT worker is in ProtocolMqtt.
ClientStop ==
  /\ mqtt = "RUNNING" /\ start = "idle"
  /\ mqtt' = "STOPPED"
  /\ UNCHANGED <<iface, manager, bus, netUp, start, read, astray>>

ClientShutdown ==
  /\ mqtt \in Startable
  /\ mqtt' = "UNINITIALIZED"
  /\ UNCHANGED <<iface, manager, bus, netUp, start, read, astray>>

-----------------------------------------------------------------------------
ManagerThread == Poll \/ PublishEdge \/ Wake \/ Exit

Next ==
  \/ InterfaceChanges
  \/ ManagerInit \/ ManagerStart \/ ManagerThread
  \/ ManagerStop \/ ManagerJoined \/ ManagerShutdown
  \/ ClientInit \/ StartReads \/ StartSets \/ ClientStop \/ ClientShutdown
  \/ OnEvent

Spec == Init /\ [][Next]_vars

\* The threads run and calls return; nothing is asked of the interface or of
\* whoever stops and starts the modules.
FairSpec ==
  /\ Spec
  /\ WF_vars(ManagerThread) /\ WF_vars(ManagerJoined)
  /\ WF_vars(OnEvent) /\ WF_vars(StartSets)

-----------------------------------------------------------------------------
(* Properties                                                              *)

\* Every variable has its type.
TypeOK ==
  /\ {iface, known, joining, netUp, read, astray} \subseteq BOOLEAN
  /\ {status, mqtt} \subseteq Startable \cup {"UNINITIALIZED", "RUNNING"}
  /\ nm \in {"off", "top", "publish", "sleep"} /\ start \in {"idle", "set"}
  /\ bus \in Seq(BOOLEAN) /\ Len(bus) <= BusSize

\* net_up follows what the manager last saw, across stops, starts and new inits
\* of either module, except after a refused event, after a start or init of the
\* manager that forgot a NET_UP, and after a start or init of the MQTT module
\* that set net_up against what the manager had told.
Follows == nm # "publish" /\ start = "idle" /\ ~astray => Coming = known

BothRun == status = "RUNNING" /\ mqtt = "RUNNING" /\ start = "idle"

\* An interface that stays up is believed to be up, if both modules stay
\* running, or the last word was one of those exceptions.
Believed == <>[](iface /\ BothRun) => <>[](netUp \/ astray)

\* An interface that stays up is believed to be up: a start of the MQTT module
\* alone does not leave net_up at 0 for ever.  (protocol_mqtt.c:181-185)
NeverStuck == <>[](iface /\ BothRun) => <>[]netUp

=============================================================================
