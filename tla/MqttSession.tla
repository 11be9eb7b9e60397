---------------------------- MODULE MqttSession ----------------------------
(***************************************************************************)
(* What protocol_mqtt.c is to the modules around it: an identity, set      *)
(* value by value, and a worker that connects with a copy of it, keeps the *)
(* session and drops it when asked.  ProtocolMqtt implements this module;  *)
(* CloudProvider is composed with it.  The network, the delay between two  *)
(* attempts, the mutex and the publishers do not show here: they decide    *)
(* when the worker acts, not what it may do.                               *)
(***************************************************************************)
CONSTANTS
  Fields,  \* the values of an identity: client id, auth, TLS, broker
  Values   \* what each may be

VARIABLES
  cfg,      \* the identity set
  conn,     \* the identity the last attempt copied
  pending,  \* pending_disconnect
  w,        \* the worker
  session   \* "down", "trying" until the broker has accepted, or "up"

sessionVars == <<cfg, conn, pending, w, session>>

SessionBegin ==
  /\ cfg \in [Fields -> Values] /\ conn = cfg
  /\ pending = FALSE /\ w = "off" /\ session = "down"

-----------------------------------------------------------------------------
(* The worker                                                              *)

Spawn ==
  /\ w = "off" /\ w' = "top"
  /\ pending' = FALSE /\ session' = "down"
  /\ UNCHANGED <<cfg, conn>>

\* The loop begins: a request is taken, or there is none.
Top ==
  /\ w = "top" /\ w' = IF pending THEN "drop" ELSE "act"
  /\ pending' = FALSE
  /\ UNCHANGED <<cfg, conn, session>>

Drop ==
  /\ w = "drop" /\ w' = "act"
  /\ session' = "down"
  /\ UNCHANGED <<cfg, conn, pending>>

\* Nothing to do in this round: no network, or not time for an attempt.
Rest ==
  /\ w = "act" /\ w' = "top"
  /\ UNCHANGED <<cfg, conn, pending, session>>

\* An attempt copies the identity in one piece ...
Snapshot ==
  /\ w = "act" /\ session = "down" /\ w' = "attempt"
  /\ conn' = cfg
  /\ UNCHANGED <<cfg, pending, session>>

\* ... and connects with the copy, or fails.
Attempt ==
  /\ w = "attempt" /\ w' = "top"
  /\ session' \in {"down", "trying"}
  /\ UNCHANGED <<cfg, conn, pending>>

\* An answer of the broker, the end of the session, or neither; the callbacks
\* ask for a reconnection themselves.
Serve ==
  /\ w = "act" /\ session # "down" /\ w' \in {"act", "top"}
  /\ session' \in {session, "up", "down"}
  /\ pending' \in {pending, TRUE}
  /\ UNCHANGED <<cfg, conn>>

\* The module was stopped.
Leave ==
  /\ w = "top" /\ w' = "exit"
  /\ UNCHANGED <<cfg, conn, pending, session>>

Exit ==
  /\ w = "exit" /\ w' = "off"
  /\ session' = "down"
  /\ UNCHANGED <<cfg, conn, pending>>

SessionWorker ==
  \/ Spawn \/ Top \/ Drop \/ Rest \/ Snapshot \/ Attempt \/ Serve \/ Leave \/ Exit

-----------------------------------------------------------------------------
(* What other threads do                                                   *)

\* A setter has written one value.
Change(f, v) ==
  /\ f \in Fields /\ v \in Values
  /\ cfg' = [cfg EXCEPT ![f] = v]
  /\ UNCHANGED <<conn, pending, w, session>>

\* A setter, or stop, asks the worker to drop the session.
AskToDrop ==
  /\ pending' = TRUE
  /\ UNCHANGED <<cfg, conn, w, session>>

\* A publisher's write failed: the session ends on its thread, wherever the worker
\* is, and without asking it to drop anything.
End ==
  /\ session = "up" /\ session' = "down"
  /\ UNCHANGED <<cfg, conn, pending, w>>

SessionNext == SessionWorker \/ AskToDrop \/ End \/ \E f \in Fields : Change(f, cfg'[f])

SessionSpec == SessionBegin /\ [][SessionNext]_sessionVars

=============================================================================
