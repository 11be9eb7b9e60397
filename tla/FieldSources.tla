---------------------------- MODULE FieldSources ----------------------------
(***************************************************************************)
(* The two sources that have a thread and no line to share: CAN frames and *)
(* simulated samples.  The module manager (external) makes its lifecycle   *)
(* calls one at a time, so a stop that waits for the thread of one source  *)
(* keeps back every call to the other, whose thread goes on meanwhile.     *)
(***************************************************************************)
EXTENDS ProtocolCan, DataSimulator

vars == <<canVars, simVars>>

Init == CanBegin /\ SimBegin

Manage ==
  \/ simLife = "idle" /\ CanLifecycle /\ UNCHANGED simVars
  \/ canLife = "idle" /\ SimLifecycle /\ UNCHANGED canVars

Next ==
  \/ Manage
  \/ (RxThread \/ FrameArrives) /\ UNCHANGED simVars
  \/ (SimThread \/ Tick \/ \E i \in Intervals : SetInterval(i)) /\ UNCHANGED canVars

Spec == Init /\ [][Next]_vars

-----------------------------------------------------------------------------
(* Properties                                                              *)

\* Every variable has its type.
TypeOK == CanTypeOK /\ SimTypeOK

=============================================================================
