---------------------------- MODULE ProtocolCan ----------------------------
(***************************************************************************)
(* The CAN source (src/gateway/protocol_can.c).  Its receiving thread      *)
(* installs a filter that makes the driver put frames into a queue on the  *)
(* stack of that thread, so the filter must be gone before the thread is.  *)
(* The driver (external) puts frames in from its interrupt while the       *)
(* controller is started, and drops what does not fit.                     *)
(*                                                                         *)
(* init, start, stop and shutdown are called by the module manager, one at *)
(* a time.  Frames are numbered in the order they are on the bus.          *)
(***************************************************************************)
EXTENDS Naturals, Sequences

CONSTANTS
  RxSize,    \* CAN_RX_RING_SIZE
  MaxFrames  \* bound: frames on the bus that match the filter

ASSUME CanAssumption == RxSize \in Nat \ {0} /\ MaxFrames \in Nat

VARIABLES
  canStatus,   \* status
  controller,  \* the CAN controller is started
  filter,      \* filter_id >= 0: the driver fills the thread's queue
  rxq,         \* can_msgq, on the stack of the thread
  rx,          \* the receiving thread
  frame,       \* the frame in its hands
  canLife,     \* the manager's thread inside start, stop or shutdown
  canClosing,  \* stop was called by shutdown
  frames,      \* frames that have been on the bus
  canOut,      \* history: the last frame published
  since        \* history: frames that were on the bus when start began

canLine   == <<controller, filter, rxq, frames>>
canThread == <<rx, frame, canOut>>
canCall   == <<canStatus, canLife, canClosing, since>>
canVars   == <<canLine, canThread, canCall>>

CanBegin ==
  /\ canStatus = "UNINITIALIZED"
  /\ controller = FALSE /\ filter = FALSE /\ rxq = <<>> /\ frames = 0
  /\ rx = "off" /\ frame = 0 /\ canOut = 0
  /\ canLife = "idle" /\ canClosing = FALSE /\ since = 0

-----------------------------------------------------------------------------
(* init, start, stop and shutdown                                          *)

CanInit ==
  /\ canLife = "idle" /\ canStatus = "UNINITIALIZED"
  /\ canStatus' = "INITIALIZED" /\ filter' = FALSE
  /\ UNCHANGED <<controller, rxq, frames, canThread, canLife, canClosing, since>>

CanStartable == canLife = "idle" /\ canStatus \in {"INITIALIZED", "STOPPED"}

\* No device, a mode the controller does not take, as it never does while it is
\* started, or a controller that does not start: nothing but init gets out of ERROR.
CanStartFails ==
  /\ CanStartable
  /\ canStatus' = "ERROR"
  /\ UNCHANGED <<canLine, canThread, canLife, canClosing, since>>

CanStart ==
  /\ CanStartable /\ ~controller
  /\ controller' = TRUE /\ filter' = FALSE
  /\ canStatus' = "RUNNING" /\ canLife' = "spawn" /\ since' = frames
  /\ UNCHANGED <<rxq, frames, canThread, canClosing>>

CanSpawn ==
  /\ canLife = "spawn" /\ canLife' = "idle"
  /\ rx' = "add"
  /\ UNCHANGED <<canStatus, canLine, frame, canOut, canClosing, since>>

CanStop ==
  /\ canLife = "idle" /\ canStatus = "RUNNING"
  /\ canStatus' = "STOPPED" /\ canLife' = "join"
  /\ canClosing' \in BOOLEAN
  /\ UNCHANGED <<canLine, canThread, since>>

\* The end of stop: can_stop may fail, and its result is not looked at.
CanStopped ==
  /\ controller' \in {controller, FALSE}
  /\ canStatus' = IF canClosing THEN "UNINITIALIZED" ELSE canStatus
  /\ canLife' = "idle" /\ canClosing' = FALSE
  /\ UNCHANGED <<filter, rxq, frames, canThread, since>>

CanJoinSkipped == canLife = "join" /\ CanStopped   \* Mutant: stop does not wait.

CanJoin == canLife = "join" /\ rx = "off" /\ CanStopped

CanShutdown ==
  /\ canLife = "idle" /\ canStatus \in {"INITIALIZED", "STOPPED", "ERROR"}
  /\ canStatus' = "UNINITIALIZED"
  /\ UNCHANGED <<canLine, canThread, canLife, canClosing, since>>

-----------------------------------------------------------------------------
(* The bus and its driver (external)                                       *)

FrameArrives ==
  /\ controller /\ frames < MaxFrames
  /\ frames' = frames + 1
  /\ rxq' = IF filter /\ Len(rxq) < RxSize THEN Append(rxq, frames') ELSE rxq
  /\ UNCHANGED <<controller, filter, canThread, canCall>>

-----------------------------------------------------------------------------
(* can_rx_thread                                                           *)

RxStep(from, to) == rx = from /\ rx' = to

\* Mutant: the queue is not on the stack of the thread, and keeps its frames.
RxAddKeeps ==
  /\ RxStep("add", "top")
  /\ filter' = TRUE
  /\ UNCHANGED <<controller, rxq, frames, frame, canOut, canCall>>

RxAdd ==
  /\ RxStep("add", "top")
  /\ filter' = TRUE /\ rxq' = <<>>
  /\ UNCHANGED <<controller, frames, frame, canOut, canCall>>

\* The driver has no filter left: the thread ends, and the status stays RUNNING.
RxAddFails ==
  /\ RxStep("add", "off")
  /\ UNCHANGED <<canLine, frame, canOut, canCall>>

\* Mutant: the thread ends without taking its filter back.
RxTopLeaves ==
  /\ RxStep("top", IF canStatus = "RUNNING" THEN "get" ELSE "off")
  /\ UNCHANGED <<canLine, frame, canOut, canCall>>

RxTop ==
  /\ RxStep("top", IF canStatus = "RUNNING" THEN "get" ELSE "remove")
  /\ UNCHANGED <<canLine, frame, canOut, canCall>>

RxGet ==
  /\ RxStep("get", "publish")
  /\ rxq # <<>> /\ frame' = Head(rxq) /\ rxq' = Tail(rxq)
  /\ UNCHANGED <<controller, filter, frames, canOut, canCall>>

\* k_msgq_get waits 100 ms at most.
RxTimeout ==
  /\ RxStep("get", "top") /\ rxq = <<>>
  /\ UNCHANGED <<canLine, frame, canOut, canCall>>

\* gateway_sensor_publish and gateway_can_raw_publish, whose results are not
\* looked at: a channel that is missing or full costs the frame.
RxPublish ==
  /\ RxStep("publish", "top")
  /\ canOut' \in {canOut, frame}
  /\ UNCHANGED <<canLine, frame, canCall>>

RxRemove ==
  /\ RxStep("remove", "off")
  /\ filter' = FALSE
  /\ UNCHANGED <<controller, rxq, frames, frame, canOut, canCall>>

RxThread ==
  RxAdd \/ RxAddFails \/ RxTop \/ RxGet \/ RxTimeout \/ RxPublish \/ RxRemove

CanLifecycle ==
  \/ CanInit \/ CanStart \/ CanStartFails \/ CanSpawn \/ CanStop \/ CanJoin
  \/ CanShutdown

CanNext == RxThread \/ CanLifecycle \/ FrameArrives

CanSpec == CanBegin /\ [][CanNext]_canVars

-----------------------------------------------------------------------------
(* Properties                                                              *)

\* Every variable has its type.
CanTypeOK ==
  /\ canStatus \in {"UNINITIALIZED", "INITIALIZED", "RUNNING", "STOPPED", "ERROR"}
  /\ controller \in BOOLEAN
  /\ filter \in BOOLEAN
  /\ rxq \in Seq(Nat)
  /\ rx \in {"off", "add", "top", "get", "publish", "remove"}
  /\ canLife \in {"idle", "spawn", "join"}
  /\ canClosing \in BOOLEAN
  /\ {frame, frames, canOut, since} \subseteq Nat

\* While the driver has the filter, the thread on whose stack it puts frames is
\* there to take it back; and when no call is under way outside RUNNING, there is
\* no thread at all, so that a start never makes a second one.
FilterHasThread ==
  /\ filter => rx \notin {"off", "add"}
  /\ canLife = "idle" /\ canStatus # "RUNNING" => rx = "off"
  /\ canLife = "spawn" => rx = "off"

\* Frames are published once and in order, and after a restart none of the run
\* before it, however many the queue still held.
FreshFrames == [][canOut' # canOut => canOut' > canOut /\ canOut' > since]_canVars

=============================================================================
