--------------------------- MODULE DataSimulator ---------------------------
(***************************************************************************)
(* The simulated source (src/gateway/data_simulator.c): a thread that      *)
(* looks at the clock every few milliseconds and publishes one sample of   *)
(* each sensor when the sampling interval has passed, while the shell may  *)
(* change the interval or inject a sample at any moment.                   *)
(*                                                                         *)
(* The clock is k_uptime_get_32, W ticks around; all that is read of it is *)
(* the difference of two readings.  One tick is the sleep of the thread    *)
(* (10 ms).                                                                *)
(***************************************************************************)
EXTENDS Integers

CONSTANTS
  W,          \* ticks after which the clock wraps (2^32 ms)
  Intervals,  \* the values of sample_interval_ms, the default among them
  MaxGap      \* bound: ticks from one look at the clock to the next

\* `sim interval` takes 60000 ms at most, far below the wrap.
ASSUME SimAssumption ==
  /\ W \in Nat \ {0} /\ MaxGap \in Nat \ {0}
  /\ Intervals \subseteq Nat \ {0} /\ Intervals # {}
  /\ \A i \in Intervals : i + 2 * MaxGap < W

VARIABLES
  simStatus,   \* status
  interval,    \* sample_interval_ms
  sim,         \* the thread
  clock,       \* k_uptime_get_32()
  now,         \* the reading of the thread
  last,        \* last_sample_time
  gap,         \* ticks since the thread looked at the clock
  simLife,     \* the manager's thread inside start, stop or shutdown
  simClosing,  \* stop was called by shutdown
  age          \* history: ticks from last_sample_time to now, as they really passed

simThread == <<sim, now, last, gap, age>>
simCall   == <<simStatus, simLife, simClosing>>
simVars   == <<simThread, simCall, interval, clock>>

\* The wrap is as near as it may be when the system boots.
SimBegin ==
  /\ simStatus = "UNINITIALIZED" /\ simLife = "idle" /\ simClosing = FALSE
  /\ interval \in Intervals
  /\ sim = "off" /\ clock \in 0 .. W - 1 /\ now = 0 /\ last = 0 /\ gap = 0 /\ age = 0

-----------------------------------------------------------------------------
(* init, start, stop and shutdown; the shell's interval                    *)

\* The default is one of Intervals.
SimInit ==
  /\ simLife = "idle" /\ simStatus = "UNINITIALIZED"
  /\ simStatus' = "INITIALIZED" /\ interval' \in Intervals
  /\ UNCHANGED <<simThread, simLife, simClosing, clock>>

SimStart ==
  /\ simLife = "idle" /\ simStatus \in {"INITIALIZED", "STOPPED"}
  /\ simStatus' = "RUNNING" /\ simLife' = "spawn"
  /\ UNCHANGED <<simThread, simClosing, interval, clock>>

SimSpawn ==
  /\ simLife = "spawn" /\ simLife' = "idle"
  /\ sim' = "first" /\ gap' = 0
  /\ UNCHANGED <<now, last, age, simStatus, simClosing, interval, clock>>

SimStop ==
  /\ simLife = "idle" /\ simStatus = "RUNNING"
  /\ simStatus' = "STOPPED" /\ simLife' = "join"
  /\ simClosing' \in BOOLEAN
  /\ UNCHANGED <<simThread, interval, clock>>

SimStopped ==
  /\ simStatus' = IF simClosing THEN "UNINITIALIZED" ELSE simStatus
  /\ simLife' = "idle" /\ simClosing' = FALSE
  /\ UNCHANGED <<simThread, interval, clock>>

SimJoin == simLife = "join" /\ sim = "off" /\ SimStopped

SimShutdown ==
  /\ simLife = "idle" /\ simStatus \in {"INITIALIZED", "STOPPED"}
  /\ simStatus' = "UNINITIALIZED"
  /\ UNCHANGED <<simThread, simLife, simClosing, interval, clock>>

SetInterval(i) ==
  /\ interval' = i
  /\ UNCHANGED <<simThread, simCall, clock>>

-----------------------------------------------------------------------------
(* data_sim_thread_func                                                    *)

\* Time passes; the thread is not kept from the clock for more than MaxGap.
Tick ==
  /\ sim # "off" => gap < MaxGap
  /\ clock' = (clock + 1) % W
  /\ gap' = IF sim = "off" THEN 0 ELSE gap + 1
  /\ UNCHANGED <<sim, now, last, age, simCall, interval>>

\* The thread starts to count when it first runs.
First ==
  /\ sim = "first" /\ sim' = "top"
  /\ last' = clock /\ now' = clock /\ gap' = 0 /\ age' = 0
  /\ UNCHANGED <<simCall, interval, clock>>

Look ==
  /\ sim = "top" /\ simStatus = "RUNNING"
  /\ sim' = "compare" /\ now' = clock
  /\ age' = age + gap /\ gap' = 0
  /\ UNCHANGED <<last, simCall, interval, clock>>

Leave ==
  /\ sim = "top" /\ simStatus # "RUNNING"
  /\ sim' = "off" /\ gap' = 0
  /\ UNCHANGED <<now, last, age, simCall, interval, clock>>

DueByDeadline == now >= last + interval   \* Mutant: two times are compared.

\* elapsed is a uint32_t: a wrap between the two readings cancels out.
Due == (now - last) % W >= interval

Compare ==
  /\ sim = "compare" /\ sim' = IF Due THEN "publish" ELSE "top"
  /\ UNCHANGED <<now, last, gap, age, simCall, interval, clock>>

\* One sample of each sensor, then last_sample_time becomes the reading the
\* round began with: the time the bus takes counts for the next round.
Round ==
  /\ sim = "publish" /\ sim' = "top"
  /\ last' = now /\ age' = 0
  /\ UNCHANGED <<now, gap, simCall, interval, clock>>

SimThread == First \/ Look \/ Leave \/ Compare \/ Round

SimLifecycle ==
  SimInit \/ SimStart \/ SimSpawn \/ SimStop \/ SimJoin \/ SimShutdown

SimNext ==
  SimThread \/ SimLifecycle \/ Tick \/ \E i \in Intervals : SetInterval(i)

SimSpec == SimBegin /\ [][SimNext]_simVars

-----------------------------------------------------------------------------
(* Properties                                                              *)

\* Every variable has its type.
SimTypeOK ==
  /\ simStatus \in {"UNINITIALIZED", "INITIALIZED", "RUNNING", "STOPPED"}
  /\ interval \in Intervals
  /\ sim \in {"off", "first", "top", "compare", "publish"}
  /\ {clock, now, last} \subseteq 0 .. W - 1
  /\ gap \in 0 .. MaxGap /\ age \in Nat
  /\ simLife \in {"idle", "spawn", "join"}
  /\ simClosing \in BOOLEAN

\* A round is published exactly when a look at the clock finds that the interval
\* set by then has really passed, wherever the clock wraps and however often the
\* interval changes: the wrapped difference is the time that passed.
RoundsOnTime ==
  [][sim = "compare" /\ sim' # sim => (sim' = "publish" <=> age >= interval)]_simVars

=============================================================================
