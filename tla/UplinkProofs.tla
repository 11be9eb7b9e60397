---------------------------- MODULE UplinkProofs ----------------------------
(* Theorems about Uplink, for every size of the bus, whether or not it      *)
(* refuses events.                                                         *)
EXTENDS Uplink, SequenceTheorems, TLAPS

-----------------------------------------------------------------------------
(* Sequences                                                               *)

\* The last element of a sequence that has been added to is the one added.
LEMMA Appended ==
  ASSUME NEW S, NEW q \in Seq(S), NEW e \in S
  PROVE  /\ Append(q, e) \in Seq(S) /\ Len(Append(q, e)) = Len(q) + 1
         /\ Append(q, e) # <<>> /\ Append(q, e)[Len(Append(q, e))] = e
OBVIOUS

\* Taking the head leaves the last element, unless it was the head.
LEMMA Rest ==
  ASSUME NEW S, NEW q \in Seq(S), q # <<>>
  PROVE  /\ Head(q) \in S /\ q[Len(q)] \in S
         /\ Tail(q) \in Seq(S) /\ Len(Tail(q)) = Len(q) - 1
         /\ Tail(q) # <<>> => Tail(q)[Len(Tail(q))] = q[Len(q)]
         /\ Tail(q) = <<>> => Head(q) = q[Len(q)]
<1>1. Len(q) \in Nat \ {0} /\ Head(q) = q[1]
  BY EmptySeq
<1>2. /\ Head(q) \in S /\ Tail(q) \in Seq(S) /\ Len(Tail(q)) = Len(q) - 1
      /\ \A i \in 1 .. Len(Tail(q)) : Tail(q)[i] = q[i + 1]
  BY HeadTailProperties
<1>3. Tail(q) # <<>> => Len(Tail(q)) \in Nat \ {0}
  BY <1>2, EmptySeq
<1>4. Tail(q) = <<>> => Len(q) = 1
  BY <1>1, <1>2, EmptySeq
<1>5. q[Len(q)] \in S
  BY <1>1, ElementOfSeq
<1>6. Tail(q) # <<>> => Tail(q)[Len(Tail(q))] = q[Len(q)]
  BY <1>1, <1>2, <1>3
<1> QED BY <1>1, <1>2, <1>4, <1>5, <1>6

-----------------------------------------------------------------------------
(* Types                                                                   *)

\* What net_up will be is TRUE or FALSE.
LEMMA ComingBoolean ==
  ASSUME TypeOK
  PROVE  Coming \in BOOLEAN /\ (bus # <<>> => Head(bus) \in BOOLEAN)
<1>1. bus # <<>> => Head(bus) \in BOOLEAN /\ bus[Len(bus)] \in BOOLEAN
  BY Rest DEF TypeOK
<1> QED BY <1>1, Zenon DEF Coming, TypeOK

\* A step leaves the bus alone, serves its first event, or adds the edge the
\* manager publishes while there is room.
LEMMA BusSteps ==
  ASSUME TypeOK, [Next]_vars
  PROVE  \/ UNCHANGED bus
         \/ OnEvent /\ bus # <<>> /\ bus' = Tail(bus)
         \/ PublishEdge /\ Len(bus) < BusSize /\ bus' = Append(bus, known)
BY DEF Next, vars, manager, client, InterfaceChanges, ManagerInit, ManagerStart,
       ManagerThread, Poll, PublishEdge, Wake, Exit, ManagerStop, ManagerJoined,
       ManagerShutdown, OnEvent, ClientInit, StartReads, StartSets, ClientStop,
       ClientShutdown

\* Every variable keeps its type, and the bus its size.
THEOREM TypeCorrect == Spec => []TypeOK
<1> USE UplinkAssumption
<1> DEFINE Bits  == {iface, known, joining, netUp, read, astray} \subseteq BOOLEAN
           Marks == /\ {status, mqtt} \subseteq Startable \cup {"UNINITIALIZED", "RUNNING"}
                    /\ nm \in {"off", "top", "publish", "sleep"} /\ start \in {"idle", "set"}
           Bus   == bus \in Seq(BOOLEAN) /\ Len(bus) <= BusSize
<1>1. Init => TypeOK
  <2> SUFFICES ASSUME Init PROVE TypeOK
    OBVIOUS
  <2>1. Bits
    BY Zenon DEF Init
  <2>2. Marks
    BY DEF Init, Startable
  <2>3. Bus
    BY EmptySeq DEF Init
  <2> QED BY <2>1, <2>2, <2>3, Zenon DEF TypeOK
<1>2. TypeOK /\ [Next]_vars => TypeOK'
  <2> SUFFICES ASSUME TypeOK, [Next]_vars PROVE TypeOK'
    OBVIOUS
  <2>1. Marks'
    BY DEF TypeOK, Startable, Next, vars, manager, client, InterfaceChanges, ManagerInit,
         ManagerStart, ManagerThread, Poll, PublishEdge, Wake, Exit, ManagerStop,
         ManagerJoined, ManagerShutdown, OnEvent, ClientInit, StartReads, StartSets,
         ClientStop, ClientShutdown
  <2>2. Bus'
    <3>1. CASE UNCHANGED bus
      BY <3>1 DEF TypeOK
    <3>2. CASE bus # <<>> /\ bus' = Tail(bus)
      BY <3>2, Rest DEF TypeOK
    <3>3. CASE Len(bus) < BusSize /\ bus' = Append(bus, known)
      <4>1. known \in BOOLEAN
        BY DEF TypeOK
      <4> QED BY <3>3, <4>1, Appended DEF TypeOK
    <3> QED BY <3>1, <3>2, <3>3, BusSteps
  <2>3. Bits'
    <3>1. Overruled \in BOOLEAN
      BY DEF Overruled
    <3> QED
      BY <3>1, ComingBoolean, Zenon DEF TypeOK, Next, vars, manager, client, InterfaceChanges,
         ManagerInit, ManagerStart, ManagerThread, Poll, PublishEdge, Wake, Exit,
         ManagerStop, ManagerJoined, ManagerShutdown, OnEvent, ClientInit, StartReads,
         StartSets, ClientStop, ClientShutdown
  <2> QED BY <2>1, <2>2, <2>3, Zenon DEF TypeOK
<1> QED BY <1>1, <1>2, PTL DEF Spec

-----------------------------------------------------------------------------
(* What the MQTT module believes                                           *)

\* Serving an event changes nothing in what net_up will be.
LEMMA ComingServed ==
  ASSUME TypeOK, OnEvent
  PROVE  Coming' = Coming /\ bus # <<>>
<1>1. bus # <<>> /\ bus \in Seq(BOOLEAN) /\ netUp' = Head(bus) /\ bus' = Tail(bus)
  BY DEF OnEvent, TypeOK
<1> QED BY <1>1, Rest DEF Coming

\* The invariant that is inductive: while a start of the MQTT module is about to
\* set net_up, an event on the bus still has the last word.
Tells == nm # "publish" /\ ~astray /\ (start = "idle" \/ bus # <<>>) => Coming = known

\* net_up follows the network manager through any order of polls, refused events,
\* stops and starts of either module, but for the exceptions Follows names.
THEOREM AlwaysFollows == Spec => []Follows
<1>1. Init => Tells
  BY DEF Init, Tells, Coming
<1>2. TypeOK /\ Tells /\ [Next]_vars => Tells'
  <2> SUFFICES ASSUME TypeOK, Tells, [Next]_vars PROVE Tells'
    OBVIOUS
  <2>1. CASE ManagerInit \/ ManagerStart
    <3>1. Coming' = Coming /\ known' = FALSE /\ astray' = Coming
      BY <2>1 DEF ManagerInit, ManagerStart, Coming, client
    <3> QED BY <3>1, ComingBoolean, Zenon DEF Tells
  <2>2. CASE Poll
    <3>1. Coming' = Coming /\ UNCHANGED <<astray, start, bus>>
      BY <2>2 DEF Poll, Coming, client
    <3>2. nm # "publish" /\ known' = iface /\ (nm' # "publish" => iface = known)
      BY <2>2 DEF Poll
    <3> QED BY <3>1, <3>2, Zenon DEF Tells
  <2>3. CASE PublishEdge
    <3>1. CASE astray' = TRUE
      BY <3>1 DEF Tells
    <3>2. CASE bus' = Append(bus, known) /\ astray' = FALSE
      <4>1. known \in BOOLEAN /\ bus \in Seq(BOOLEAN) /\ known' = known
        BY <2>3, Zenon DEF TypeOK, PublishEdge
      <4>2. bus' # <<>> /\ bus'[Len(bus')] = known
        BY <3>2, <4>1, Appended
      <4> QED BY <4>1, <4>2, Zenon DEF Tells, Coming
    <3> QED BY <2>3, <3>1, <3>2, Zenon DEF PublishEdge
  <2>4. CASE OnEvent
    <3>1. Coming' = Coming /\ bus # <<>> /\ UNCHANGED <<known, nm, start, astray>>
      BY <2>4, ComingServed DEF OnEvent, manager
    <3> QED BY <3>1, Zenon DEF Tells
  <2>5. CASE StartReads
    <3>1. Coming' = Coming /\ UNCHANGED <<known, nm, bus, astray>> /\ start = "idle"
      BY <2>5 DEF StartReads, Coming, manager
    <3> QED BY <3>1, Zenon DEF Tells
  <2>6. CASE StartSets
    <3>1. UNCHANGED <<known, nm, bus>> /\ netUp' = read
      BY <2>6 DEF StartSets, manager
    <3>2. CASE bus = <<>> /\ nm # "publish"
      <4>1. Coming' = read
        BY <3>1, <3>2, Zenon DEF Coming
      <4>2. astray' = (read # known)
        BY <2>6, <3>2 DEF StartSets, Overruled
      <4> QED BY <3>1, <4>1, <4>2, Zenon DEF Tells
    <3>3. CASE bus # <<>> /\ nm # "publish"
      <4>1. Coming' = Coming /\ astray' = astray
        BY <2>6, <3>1, <3>3 DEF StartSets, Coming
      <4> QED BY <3>1, <3>3, <4>1, Zenon DEF Tells
    <3>4. CASE nm = "publish"
      BY <3>1, <3>4 DEF Tells
    <3> QED BY <3>2, <3>3, <3>4
  <2>7. CASE \/ InterfaceChanges \/ Wake \/ Exit \/ ManagerStop \/ ManagerJoined
             \/ ManagerShutdown \/ ClientStop \/ ClientShutdown \/ UNCHANGED vars
    <3>1. UNCHANGED <<known, bus, start, netUp, astray>>
          /\ (nm' = nm \/ (nm' # "publish" /\ nm # "publish"))
      BY <2>7 DEF InterfaceChanges, Wake, Exit, ManagerStop, ManagerJoined, ManagerShutdown,
           ClientStop, ClientShutdown, vars, manager, client
    <3> QED BY <3>1, Zenon DEF Tells, Coming
  <2>8. CASE ClientInit
    <3>1. UNCHANGED <<known, nm, bus, start>> /\ netUp' = FALSE
      BY <2>8 DEF ClientInit, manager
    <3>2. CASE bus = <<>> /\ nm # "publish"
      <4>1. Coming' = FALSE /\ astray' = known /\ known \in BOOLEAN
        BY <2>8, <3>1, <3>2, Zenon DEF ClientInit, Coming, TypeOK
      <4> QED BY <3>1, <4>1, Zenon DEF Tells
    <3>3. CASE bus # <<>> /\ nm # "publish"
      <4>1. Coming' = Coming /\ astray' = astray
        BY <2>8, <3>1, <3>3 DEF ClientInit, Coming
      <4> QED BY <3>1, <3>3, <4>1, Zenon DEF Tells
    <3>4. CASE nm = "publish"
      BY <3>1, <3>4 DEF Tells
    <3> QED BY <3>2, <3>3, <3>4
  <2> QED
    BY <2>1, <2>2, <2>3, <2>4, <2>5, <2>6, <2>7, <2>8, Zenon DEF Next, ManagerThread
<1>3. Tells => Follows
  BY DEF Tells, Follows
<1> QED BY <1>1, <1>2, <1>3, TypeCorrect, PTL DEF Spec
=============================================================================
