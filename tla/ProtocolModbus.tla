--------------------------- MODULE ProtocolModbus ---------------------------
(***************************************************************************)
(* The Modbus RTU master (src/gateway/protocol_modbus.c).  The poll thread *)
(* and shell commands read registers over one serial line; the receive     *)
(* interrupt fills rx_buf.  bus_mutex spans a transaction: clear, send,    *)
(* receive, check.                                                         *)
(*                                                                         *)
(* The slaves are the environment: an answer may be missing, damaged, in   *)
(* two pieces or late.  A frame is known by what it answers and by which   *)
(* of its bytes have arrived; addresses and register values are left out.  *)
(***************************************************************************)
EXTENDS Naturals, Sequences, FiniteSets

CONSTANTS
  Slaves,     \* slave ids
  Counts,     \* numbers of registers a read may ask for
  PollCount,  \* g_modbus.poll_reg_count
  RxBufSize,  \* MODBUS_RX_BUF_SIZE, in bytes
  Cuts,       \* bytes after which a slave may pause for an inter-frame gap
  Punctual,   \* whether an answer ends within GATEWAY_MODBUS_RX_TIMEOUT_MS, and
              \* before the next request
  MaxLine     \* bound: answers on the line

ASSUME ModbusAssumption ==
  /\ Slaves # {} /\ Counts \subseteq 1 .. 16 /\ PollCount \in Counts
  /\ RxBufSize \in Nat \ {0} /\ MaxLine \in Nat \ {0}
  /\ Cuts \subseteq Nat \ {0}
  /\ Punctual \in BOOLEAN

VARIABLES
  status,   \* module status
  slaveId,  \* g_modbus.slave_id
  irq,      \* whether the receive interrupt is enabled
  rxBuf,    \* rx_buf[0 .. rx_len-1], as the pieces of frames it holds
  rxLen,    \* rx_len
  line,     \* answers that have not arrived in full
  mutex,    \* the caller holding bus_mutex, or "free"
  pc,       \* where the poll thread and the shell are
  ask,      \* the read each of them asks for
  got,      \* what protocol_modbus_read_holding_regs returned to each, until used
  life      \* the thread inside stop

calls      == <<pc, ask, got>>
buffer     == <<rxBuf, rxLen>>
modbusVars == <<status, slaveId, irq, buffer, line, mutex, calls, life>>

Callers == {"worker", "shell"}

Request == [slave : Slaves, count : Counts]

FrameLen(count) == 5 + 2 * count

\* An answer is to a caller's current request or to a "past" one.  `good' is
\* false for an exception response and for one that fails its CRC.
Answer == [to : Callers \cup {"past"}, slave : Slaves, count : Counts,
           good : BOOLEAN, from : Nat]
Piece  == [to : Callers \cup {"past"}, slave : Slaves, count : Counts,
           good : BOOLEAN, from : Nat, upto : Nat]

\* What a read returns: `src' tells whose answer the values are from, and is
\* "unset" when out_values was not written.
Failed  == [ret |-> "error", src |-> "unset"]
Result  == [ret : {"ok", "error"}, src : Callers \cup {"past", "unset"}]

ModbusBegin ==
  /\ status = "INITIALIZED" /\ slaveId \in Slaves
  /\ irq = FALSE /\ rxBuf = <<>> /\ rxLen = 0 /\ line = {}
  /\ mutex = "free"
  /\ pc = [c \in Callers |-> IF c = "worker" THEN "off" ELSE "idle"]
  /\ ask = [c \in Callers |-> [slave |-> slaveId, count |-> PollCount]]
  /\ got = [c \in Callers |-> Failed]
  /\ life = "idle"

-----------------------------------------------------------------------------
(* The line and modbus_uart_irq_cb                                         *)

PieceOf(a, upto) ==
  [to |-> a.to, slave |-> a.slave, count |-> a.count, good |-> a.good,
   from |-> a.from, upto |-> upto]

Bytes(p) == p.upto - p.from + 1

\* Mutant: the interrupt writes past the end of rx_buf.
StoreUnchecked(p) == rxBuf' = Append(rxBuf, p) /\ rxLen' = rxLen + Bytes(p)

\* A byte that finds rx_buf full is dropped.
Store(p) ==
  LET room == RxBufSize - rxLen
      kept == IF Bytes(p) < room THEN Bytes(p) ELSE room
  IN /\ rxLen' = rxLen + kept
     /\ rxBuf' = IF kept = 0 THEN rxBuf ELSE Append(rxBuf, [p EXCEPT !.upto = p.from + kept - 1])

\* The rest of an answer arrives, or its bytes up to a pause.
Arrive(a) ==
  /\ irq /\ a \in line
  /\ \/ /\ Store(PieceOf(a, FrameLen(a.count)))
        /\ line' = line \ {a}
     \/ \E cut \in Cuts :
          /\ a.from <= cut /\ cut < FrameLen(a.count)
          /\ Store(PieceOf(a, cut))
          /\ line' = (line \ {a}) \cup {[a EXCEPT !.from = cut + 1]}
  /\ UNCHANGED <<status, slaveId, irq, mutex, calls, life>>

\* The slave gives up, or nobody listens.
Vanish(a) ==
  /\ a \in line
  /\ line' = line \ {a}
  /\ UNCHANGED <<status, slaveId, irq, buffer, mutex, calls, life>>

-----------------------------------------------------------------------------
(* protocol_modbus_read_holding_regs                                       *)

Go(c, from, to) == pc[c] = from /\ pc' = [pc EXCEPT ![c] = to]

\* What is on its way to c once c asks again is too late.
Past(c, s) == {[a EXCEPT !.to = IF a.to = c THEN "past" ELSE a.to] : a \in s}

\* The status is checked, then the mutex waited for.
Enter(c) ==
  /\ \/ status = "RUNNING" /\ Go(c, "enter", "lock") /\ UNCHANGED got
     \/ status # "RUNNING" /\ Go(c, "enter", "done") /\ got' = [got EXCEPT ![c] = Failed]
  /\ UNCHANGED <<status, slaveId, irq, buffer, line, mutex, ask, life>>

\* Mutant: rx_buf is not cleared before a request.
LockKeepsRx(c) ==
  /\ Go(c, "lock", "send")
  /\ mutex = "free" /\ mutex' = c
  /\ Punctual => line = {}
  /\ line' = Past(c, line)
  /\ rxBuf' = [i \in DOMAIN rxBuf |-> [rxBuf[i] EXCEPT !.to = IF @ = c THEN "past" ELSE @]]
  /\ UNCHANGED <<status, slaveId, irq, rxLen, ask, got, life>>

\* The mutex is taken and rx_buf cleared with interrupts locked.
Lock(c) ==
  /\ Go(c, "lock", "send")
  /\ mutex = "free" /\ mutex' = c
  /\ Punctual => line = {}
  /\ line' = Past(c, line)
  /\ rxBuf' = <<>> /\ rxLen' = 0
  /\ UNCHANGED <<status, slaveId, irq, ask, got, life>>

\* modbus_send_frame: the slave asked answers, or not.
Send(c) ==
  /\ Go(c, "send", "wait")
  /\ \/ UNCHANGED line
     \/ /\ Cardinality(line) < MaxLine
        /\ \E good \in BOOLEAN :
             line' = line \cup {[to |-> c, slave |-> ask[c].slave, count |-> ask[c].count,
                                 good |-> good, from |-> 1]}
  /\ UNCHANGED <<status, slaveId, irq, buffer, mutex, ask, got, life>>

\* rx_buf begins with a whole frame: n pieces of one answer, without a hole.
BeginsWithFrame(n) ==
  /\ rxBuf[1].from = 1 /\ rxBuf[n].upto = FrameLen(rxBuf[1].count)
  /\ \A i \in 2 .. n :
       rxBuf[i] = [rxBuf[1] EXCEPT !.from = rxBuf[i - 1].upto + 1, !.upto = rxBuf[i].upto]

\* Fewer than 5 bytes return the 0 of modbus_receive_response, with nothing read.
Check(r) ==
  IF rxLen < 5 THEN [ret |-> "ok", src |-> "unset"]
  ELSE IF \E n \in 1 .. Len(rxBuf) : BeginsWithFrame(n) /\ rxBuf[1].good
            /\ rxBuf[1].slave = r.slave /\ rxBuf[1].count = r.count
  THEN [ret |-> "ok", src |-> rxBuf[1].to]
  ELSE Failed

\* Mutant: a return after a failed check leaves bus_mutex locked.
ReceiveKeepsMutex(c) ==
  /\ Go(c, "wait", "done")
  /\ rxLen > 0
  /\ got' = [got EXCEPT ![c] = Check(ask[c])]
  /\ rxBuf' = <<>> /\ rxLen' = 0 /\ mutex' = IF Check(ask[c]) = Failed THEN mutex ELSE "free"
  /\ UNCHANGED <<status, slaveId, irq, line, ask, life>>

\* modbus_receive_response found the line quiet: the frame is taken and checked.
Receive(c) ==
  /\ Go(c, "wait", "done")
  /\ rxLen > 0
  /\ got' = [got EXCEPT ![c] = Check(ask[c])]
  /\ rxBuf' = <<>> /\ rxLen' = 0 /\ mutex' = "free"
  /\ UNCHANGED <<status, slaveId, irq, line, ask, life>>

\* Mutant: the time-out leaves bus_mutex locked.
TimeOutKeepsMutex(c) ==
  /\ Go(c, "wait", "done")
  /\ Punctual => \A a \in line : a.to # c
  /\ got' = [got EXCEPT ![c] = Failed]
  /\ UNCHANGED <<status, slaveId, irq, buffer, line, mutex, ask, life>>

\* The time-out, with or without bytes in rx_buf.
TimeOut(c) ==
  /\ Go(c, "wait", "done")
  /\ Punctual => \A a \in line : a.to # c
  /\ got' = [got EXCEPT ![c] = Failed]
  /\ mutex' = "free"
  /\ UNCHANGED <<status, slaveId, irq, buffer, line, ask, life>>

-----------------------------------------------------------------------------
(* modbus_worker_thread, and the commands of the shell                     *)

\* slave_id is read for the request.
Poll ==
  /\ \/ /\ status = "RUNNING" /\ Go("worker", "top", "enter")
        /\ ask' = [ask EXCEPT !["worker"] = [slave |-> slaveId, count |-> PollCount]]
     \/ status # "RUNNING" /\ Go("worker", "top", "off") /\ UNCHANGED ask
  /\ UNCHANGED <<status, slaveId, irq, buffer, line, mutex, got, life>>

Polled ==
  /\ \/ got["worker"].ret = "ok" /\ Go("worker", "done", "publish")
     \/ got["worker"].ret # "ok" /\ Go("worker", "done", "top")
  /\ UNCHANGED <<status, slaveId, irq, buffer, line, mutex, ask, got, life>>

\* One sample for each register, then the raw block; slave_id is read again.
PublishSamples ==
  /\ Go("worker", "publish", "top")
  /\ got' = [got EXCEPT !["worker"] = Failed]
  /\ UNCHANGED <<status, slaveId, irq, buffer, line, mutex, ask, life>>

ShellRead(r) ==
  /\ Go("shell", "idle", "enter")
  /\ ask' = [ask EXCEPT !["shell"] = r]
  /\ UNCHANGED <<status, slaveId, irq, buffer, line, mutex, got, life>>

ShellDone ==
  /\ Go("shell", "done", "idle")
  /\ got' = [got EXCEPT !["shell"] = Failed]
  /\ UNCHANGED <<status, slaveId, irq, buffer, line, mutex, ask, life>>

SetSlaveId(s) ==
  /\ slaveId' = s
  /\ UNCHANGED <<status, irq, buffer, line, mutex, calls, life>>

-----------------------------------------------------------------------------
(* protocol_modbus_start, stop and shutdown                                *)

StartFails ==
  /\ life = "idle" /\ status \in {"INITIALIZED", "STOPPED"}
  /\ status' = "ERROR"
  /\ UNCHANGED <<slaveId, irq, buffer, line, mutex, calls, life>>

Start ==
  /\ life = "idle" /\ status \in {"INITIALIZED", "STOPPED"}
  /\ status' = "RUNNING" /\ irq' = TRUE
  /\ pc' = [pc EXCEPT !["worker"] = "top"]
  /\ UNCHANGED <<slaveId, buffer, line, mutex, ask, got, life>>

Stop ==
  /\ life = "idle" /\ status = "RUNNING"
  /\ status' = "STOPPED" /\ life' = "join"
  /\ UNCHANGED <<slaveId, irq, buffer, line, mutex, calls>>

StopJoin ==
  /\ life = "join" /\ pc["worker"] = "off"
  /\ life' = "idle" /\ irq' = FALSE
  /\ UNCHANGED <<status, slaveId, buffer, line, mutex, calls>>

Shutdown ==
  /\ life = "idle" /\ status \in {"INITIALIZED", "STOPPED", "ERROR"}
  /\ status' = "UNINITIALIZED"
  /\ UNCHANGED <<slaveId, irq, buffer, line, mutex, calls, life>>

-----------------------------------------------------------------------------
Environment == \E a \in line : Arrive(a) \/ Vanish(a)
Read(c)     == Enter(c) \/ Lock(c) \/ Send(c) \/ Receive(c) \/ TimeOut(c)
Worker      == Poll \/ Polled \/ PublishSamples
Commands    == ShellDone \/ (\E r \in Request : ShellRead(r)) \/ \E s \in Slaves : SetSlaveId(s)
Lifecycle   == StartFails \/ Start \/ Stop \/ StopJoin \/ Shutdown

ModbusNext ==
  \/ Environment \/ Worker \/ Commands \/ Lifecycle
  \/ \E c \in Callers : Read(c)

ModbusSpec == ModbusBegin /\ [][ModbusNext]_modbusVars

\* The waiters of bus_mutex get it in turn, every wait ends at its time-out, and
\* what is on the line arrives or does not.
ModbusFairSpec ==
  /\ ModbusSpec
  /\ WF_modbusVars(Environment) /\ WF_modbusVars(Worker)
  /\ WF_modbusVars(ShellDone) /\ WF_modbusVars(StopJoin)
  /\ \A c \in Callers :
       /\ SF_modbusVars(Lock(c)) /\ SF_modbusVars(Receive(c) \/ TimeOut(c))
       /\ WF_modbusVars(Enter(c)) /\ WF_modbusVars(Send(c))

-----------------------------------------------------------------------------
(* Properties                                                              *)

\* Every variable has its type, and rx_buf holds no more than RxBufSize bytes.
ModbusTypeOK ==
  /\ status \in {"UNINITIALIZED", "INITIALIZED", "RUNNING", "STOPPED", "ERROR"}
  /\ slaveId \in Slaves /\ irq \in BOOLEAN /\ life \in {"idle", "join"}
  /\ rxBuf \in Seq(Piece) /\ rxLen \in 0 .. RxBufSize
  /\ line \subseteq Answer
  /\ mutex \in Callers \cup {"free"}
  /\ pc \in [Callers -> {"off", "idle", "top", "enter", "lock", "send", "wait", "done",
                         "publish"}]
  /\ ask \in [Callers -> Request]
  /\ got \in [Callers -> Result]

\* Two readers never mix: the values a read returns are the answer to that very
\* request, as long as slaves that answer do so in time.  Neither what an earlier
\* read left behind nor the other reader's answer is taken for it.  A response of
\* under 5 bytes gives no values at all, although it returns 0.
OwnAnswer ==
  \A c \in Callers :
    Punctual /\ pc[c] \in {"done", "publish"} /\ got[c].ret = "ok"
      => got[c].src \in {c, "unset"}

\* The thread and its stack are used once: stop returns, and start begins again,
\* only when the last one has left.
StoppedClean == life = "idle" /\ status # "RUNNING" => pc["worker"] = "off"

\* stop returns, whatever the line does.
StopReturns == life = "join" ~> life = "idle"

\* A read that waits for the bus gets its turn and returns.
ReadReturns == \A c \in Callers : pc[c] = "lock" ~> pc[c] = "done"

=============================================================================
