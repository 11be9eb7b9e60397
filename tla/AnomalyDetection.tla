-------------------------- MODULE AnomalyDetection --------------------------
(***************************************************************************)
(* The adaptive anomaly detector (src/gateway/anomaly_detection.c): for    *)
(* each sensor type a sliding window with running sums, a verdict on each  *)
(* sample against the window before it, rate-limited alerts, and a rule    *)
(* over two sensor types.                                                  *)
(*                                                                         *)
(* Samples, sums and squares are floats, written as integers in units of   *)
(* their finest place; Float is the rounding of the build, whatever it is. *)
(* The code takes the deviation of a window from the difference of two     *)
(* rounded numbers that are almost equal, and compares a quotient of such  *)
(* numbers with the thresholds.  Nothing is claimed of what comes out: the *)
(* score of a sample may be any number, or Flat.                           *)
(***************************************************************************)
EXTENDS Integers, FiniteSetsExt

CONSTANTS
  Types,          \* sensor types
  Current,        \* SENSOR_TYPE_CURRENT
  Temperature,    \* SENSOR_TYPE_TEMPERATURE
  W,              \* ANOMALY_WINDOW_SIZE
  Samples,        \* values the producers may send
  Limit,          \* ANOMALY_VALUE_ABS_LIMIT
  AbsMax,         \* g_ad.abs_max_value, by type
  DefaultSigma,   \* CONFIG_GATEWAY_ANOMALY_*_SIGMA
  Sigmas,         \* thresholds somebody may set
  Interval,       \* alert_interval_ms
  ClockMod,       \* 2^32: where k_uptime_get_32 wraps
  Scores,         \* quotients |value - mean| / stddev that may come out
  Float(_),       \* a number rounded to a float
  Fused,          \* whether the compiler fuses a product with the addition after it
  MaxTime,        \* bound: time since the boot
  MaxSamples      \* bound: samples taken

Thresholds == [warning : Int, critical : Int, emergency : Int]

ASSUME AnomalyAssumption ==
  /\ {Current, Temperature} \subseteq Types /\ Current # Temperature
  /\ W \in Nat /\ W >= 2
  /\ Samples \subseteq Int /\ Limit \in Nat
  /\ AbsMax \in [Types -> Nat]
  /\ DefaultSigma \in Thresholds /\ Sigmas \subseteq Thresholds
  /\ Interval \in Nat /\ ClockMod \in Nat /\ Interval < ClockMod
  /\ Scores \subseteq Nat /\ Fused \in BOOLEAN
  /\ MaxTime \in Nat /\ MaxSamples \in Nat

VARIABLES
  status,     \* module status
  listening,  \* whether the data bus consumer is registered
  late,       \* whether a callback is past its status check
  stopping,   \* whether stop is between the consumer and the status
  win,        \* g_ad.windows
  sigma,      \* g_ad.*_sigma
  lastLevel,  \* g_ad.last_level
  lastAlert,  \* g_ad.last_alert_ms
  lastMulti,  \* g_ad.last_multi_dim_alert_ms
  time,       \* milliseconds since the boot
  taken,      \* samples taken, for the bound
  event,      \* the alert this step published, if any
  drift,      \* history: how far rounding has moved the sums of a window since its reset
  alertedAt   \* history: when a type last alerted since its window was reset

detector  == <<win, sigma, lastLevel, lastAlert, lastMulti>>
lifecycle == <<status, listening, stopping>>
history   == <<drift, alertedAt>>
vars == <<lifecycle, late, detector, time, taken, event, history>>

None      == 0
Warning   == 1
Critical  == 2
Emergency == 3
Levels    == None .. Emergency

NoEvent == [level |-> None]
Never   == -1
Flat    == -1  \* the score when stddev is below ANOMALY_STDDEV_MIN_VALID

Abs(x) == IF x < 0 THEN -x ELSE x

Uptime == time % ClockMod

\* The empty window of memset.
EmptyWindow == [vals |-> [i \in 0 .. W - 1 |-> 0], head |-> 0, count |-> 0,
                sum |-> 0, sumSq |-> 0]
NoDrift == [sum |-> 0, sumSq |-> 0]

Init ==
  /\ status = "INITIALIZED" /\ listening = FALSE /\ late = FALSE /\ stopping = FALSE
  /\ win = [t \in Types |-> EmptyWindow]
  /\ sigma = [t \in Types |-> DefaultSigma]
  /\ lastLevel = [t \in Types |-> None]
  /\ lastAlert = [t \in Types |-> 0] /\ lastMulti = 0
  /\ time = 0 /\ taken = 0
  /\ event = NoEvent /\ alertedAt = [t \in Types |-> Never]
  /\ drift = [t \in Types |-> NoDrift]

-----------------------------------------------------------------------------
(* The window                                                              *)

Full(w) == w.count >= W

\* The value that the next one takes the place of.
Old(w) == w.vals[w.head]

\* A square, as it goes into a sum.
Square(x) == IF Fused THEN x * x ELSE Float(x * x)

\* A running sum without the oldest value of a full window.
Less(w, total, old) == IF Full(w) THEN Float(total - old) ELSE total

\* Mutant: the sums keep the value that is overwritten.
UpdateWindowAddsOnly(w, v) ==
  [vals  |-> [w.vals EXCEPT ![w.head] = v],
   head  |-> (w.head + 1) % W,
   count |-> IF Full(w) THEN w.count ELSE w.count + 1,
   sum   |-> Float(w.sum + v),
   sumSq |-> Float(w.sumSq + Square(v))]

\* The new value takes the place of the oldest one of a full window.
UpdateWindow(w, v) ==
  [vals  |-> [w.vals EXCEPT ![w.head] = v],
   head  |-> (w.head + 1) % W,
   count |-> IF Full(w) THEN w.count ELSE w.count + 1,
   sum   |-> Float(Less(w, w.sum, Old(w)) + v),
   sumSq |-> Float(Less(w, w.sumSq, Square(Old(w))) + Square(v))]

\* What rounding adds to a number, and what it adds to a sum in one update.
Err(x) == Abs(Float(x) - x)
Moved(w, total, old, new) ==
  (IF Full(w) THEN Err(total - old) ELSE 0) + Err(Less(w, total, old) + new)

\* The history of the errors, for an update of the window w of type t.
Drifts(t, w, v) ==
  drift' = [drift EXCEPT ![t] =
    [sum   |-> @.sum + Moved(w, w.sum, Old(w), v),
     sumSq |-> @.sumSq + Moved(w, w.sumSq, Square(Old(w)), Square(v))]]

\* anomaly_detect, for the score that comes out of the floats.
Detect(t, w, v, score) ==
  IF ~Full(w) \/ score = Flat THEN None
  ELSE IF Abs(v) > AbsMax[t] \/ score >= sigma[t].emergency THEN Emergency
  ELSE IF score >= sigma[t].critical THEN Critical
  ELSE IF score >= sigma[t].warning THEN Warning
  ELSE None

-----------------------------------------------------------------------------
(* Alerts                                                                  *)

\* The age of a time stamp, in the arithmetic of uint32_t.
Age(stamp) == (Uptime - stamp) % ClockMod

\* Mutant: the end of the interval is computed, and wraps.
MayAlertDeadline(t) == Uptime >= (lastAlert[t] + Interval) % ClockMod

MayAlert(t) == Age(lastAlert[t]) >= Interval

\* anomaly_publish_event: the event carries the score and the window it comes from.
Publish(t, level, v, score, baseline) ==
  IF level # None /\ MayAlert(t)
    THEN /\ event' = [level |-> level, type |-> t, value |-> v, score |-> score,
                      baseline |-> baseline]
         /\ lastAlert' = [lastAlert EXCEPT ![t] = Uptime]
         /\ alertedAt' = [alertedAt EXCEPT ![t] = time]
    ELSE event' = NoEvent /\ UNCHANGED <<lastAlert, alertedAt>>

\* anomaly_check_multi_dim, for the level just stored.
CheckMultiDim(t) ==
  IF /\ t \in {Current, Temperature}
     /\ lastLevel'[Current] >= Critical /\ lastLevel'[Temperature] >= Critical
     /\ Age(lastMulti) >= Interval
    THEN lastMulti' = Uptime
    ELSE UNCHANGED lastMulti

-----------------------------------------------------------------------------
(* Sensor callback                                                         *)

\* anomaly_sensor_data_cb finds the module running and goes on to the lock.
Callback ==
  /\ listening /\ status = "RUNNING" /\ ~late /\ taken < MaxSamples
  /\ late' = TRUE /\ event' = NoEvent
  /\ UNCHANGED <<lifecycle, detector, time, taken, history>>

\* anomaly_on_sensor_data for a value it refuses.
Drop(v) ==
  /\ late /\ Abs(v) >= Limit
  /\ late' = FALSE /\ taken' = taken + 1 /\ event' = NoEvent
  /\ UNCHANGED <<lifecycle, detector, time, history>>

\* Mutant: the baseline of the event is read after the window was updated.
TakeLateBaseline(t, v, score) ==
  LET level == Detect(t, win[t], v, score)
  IN /\ late /\ Abs(v) < Limit
     /\ late' = FALSE /\ taken' = taken + 1
     /\ lastLevel' = [lastLevel EXCEPT ![t] = level]
     /\ win' = [win EXCEPT ![t] = UpdateWindow(win[t], v)]
     /\ Drifts(t, win[t], v)
     /\ Publish(t, level, v, score, UpdateWindow(win[t], v))
     /\ CheckMultiDim(t)
     /\ UNCHANGED <<lifecycle, sigma, time>>

\* anomaly_on_sensor_data, which holds the lock from end to end.
Take(t, v, score) ==
  LET level == Detect(t, win[t], v, score)
  IN /\ late /\ Abs(v) < Limit
     /\ late' = FALSE /\ taken' = taken + 1
     /\ lastLevel' = [lastLevel EXCEPT ![t] = level]
     /\ win' = [win EXCEPT ![t] = UpdateWindow(win[t], v)]
     /\ Drifts(t, win[t], v)
     /\ Publish(t, level, v, score, win[t])
     /\ CheckMultiDim(t)
     /\ UNCHANGED <<lifecycle, sigma, time>>

-----------------------------------------------------------------------------
(* Commands, lifecycle and time                                            *)

\* ANOMALY_CMD_SET_THRESHOLD and anomaly_detection_set_threshold.
SetThreshold(t, s) ==
  /\ sigma' = [sigma EXCEPT ![t] = s] /\ event' = NoEvent
  /\ UNCHANGED <<lifecycle, late, win, lastLevel, lastAlert, lastMulti, time, taken, history>>

\* Mutant: a reset forgets the window but not the verdict.
ResetKeepsLevel(t) ==
  /\ win' = [win EXCEPT ![t] = EmptyWindow] /\ drift' = [drift EXCEPT ![t] = NoDrift]
  /\ lastAlert' = [lastAlert EXCEPT ![t] = 0]
  /\ alertedAt' = [alertedAt EXCEPT ![t] = Never]
  /\ event' = NoEvent
  /\ UNCHANGED <<lifecycle, late, sigma, lastLevel, lastMulti, time, taken>>

\* ANOMALY_CMD_RESET_WINDOW
ResetWindow(t) ==
  /\ win' = [win EXCEPT ![t] = EmptyWindow] /\ drift' = [drift EXCEPT ![t] = NoDrift]
  /\ lastLevel' = [lastLevel EXCEPT ![t] = None]
  /\ lastAlert' = [lastAlert EXCEPT ![t] = 0]
  /\ alertedAt' = [alertedAt EXCEPT ![t] = Never]
  /\ event' = NoEvent
  /\ UNCHANGED <<lifecycle, late, sigma, lastMulti, time, taken>>

\* The consumer is registered first; if the data bus refuses, nothing changes.
Start ==
  /\ ~stopping /\ status \in {"INITIALIZED", "STOPPED"}
  /\ listening' = TRUE /\ status' = "RUNNING" /\ event' = NoEvent
  /\ UNCHANGED <<stopping, late, detector, time, taken, history>>

Stop ==
  /\ ~stopping /\ status = "RUNNING"
  /\ listening' = FALSE /\ stopping' = TRUE /\ event' = NoEvent
  /\ UNCHANGED <<status, late, detector, time, taken, history>>

StopDone ==
  /\ stopping
  /\ stopping' = FALSE /\ status' = "STOPPED" /\ event' = NoEvent
  /\ UNCHANGED <<listening, late, detector, time, taken, history>>

\* anomaly_detection_shutdown after its call of stop.
Shutdown ==
  /\ ~stopping /\ status \in {"INITIALIZED", "STOPPED"}
  /\ status' = "UNINITIALIZED" /\ event' = NoEvent
  /\ UNCHANGED <<listening, stopping, late, detector, time, taken, history>>

Tick ==
  /\ time < MaxTime
  /\ time' = time + 1 /\ event' = NoEvent
  /\ UNCHANGED <<lifecycle, late, detector, taken, history>>

Sensor ==
  Callback \/ \E v \in Samples :
    Drop(v) \/ \E t \in Types, score \in Scores \cup {Flat} : Take(t, v, score)
Control == \E t \in Types : ResetWindow(t) \/ \E s \in Sigmas : SetThreshold(t, s)
Next    == Sensor \/ Control \/ Start \/ Stop \/ StopDone \/ Shutdown \/ Tick

Spec == Init /\ [][Next]_vars

-----------------------------------------------------------------------------
(* Properties                                                              *)

\* Every variable has its type: a window never counts more than W values, and
\* time stamps are within the clock.
TypeOK ==
  /\ status \in {"INITIALIZED", "RUNNING", "STOPPED", "UNINITIALIZED"}
  /\ {listening, late, stopping} \subseteq BOOLEAN
  /\ win \in [Types -> [vals : [0 .. W - 1 -> Int], head : 0 .. W - 1,
                        count : 0 .. W, sum : Int, sumSq : Int]]
  /\ drift \in [Types -> [sum : Nat, sumSq : Nat]]
  /\ sigma \in [Types -> Thresholds]
  /\ lastLevel \in [Types -> Levels]
  /\ lastAlert \in [Types -> 0 .. ClockMod - 1] /\ lastMulti \in 0 .. ClockMod - 1
  /\ time \in 0 .. MaxTime /\ taken \in 0 .. MaxSamples
  /\ event.level \in Levels
  /\ alertedAt \in [Types -> {Never} \cup 0 .. MaxTime]

Live(w) == 0 .. w.count - 1

Total(w)   == SumFunctionOnSet(w.vals, Live(w))
TotalSq(w) == SumFunctionOnSet([i \in Live(w) |-> Square(w.vals[i])], Live(w))

\* However often its places were overwritten, the running sums of a window are those of
\* the values in it now, but for the rounding of the additions since it was reset: each
\* value that leaves takes out exactly what it put in (anomaly_update_window).
SumsOfWindow ==
  \A t \in Types : /\ Abs(win[t].sum - Total(win[t])) <= drift[t].sum
                  /\ Abs(win[t].sumSq - TotalSq(win[t])) <= drift[t].sumSq

\* The levels whose condition a sample meets.
Reached(t, v, score) ==
  {l \in {Warning} : score >= sigma[t].warning} \cup
  {l \in {Critical} : score >= sigma[t].critical} \cup
  {l \in {Emergency} : score >= sigma[t].emergency \/ Abs(v) > AbsMax[t]}

\* An alert has the highest level its score reaches, in whatever order somebody has set
\* the thresholds, and the baseline it carries is the full window before the sample
\* itself went in (anomaly_detect, anomaly_publish_event and its comment).
AlertExplained ==
  event.level # None =>
    /\ event.level = Max({None} \cup Reached(event.type, event.value, event.score))
    /\ Full(event.baseline) /\ event.score # Flat
    /\ win[event.type] = UpdateWindow(event.baseline, event.value)

\* Two alerts of one type are at least alert_interval_ms apart in real time, also when
\* the 32-bit uptime wraps in between, unless the window was reset.
AlertsSpaced ==
  [][\A t \in Types :
       alertedAt[t] # Never /\ alertedAt'[t] \notin {alertedAt[t], Never}
         => alertedAt'[t] - alertedAt[t] >= Interval]_vars

\* The rule over two sensors rests on verdicts of the present windows: a level outlives
\* neither the window it was judged by nor a reset, at whatever point of the other
\* sensor's samples it comes (anomaly_detection_control, RESET_WINDOW).
LevelHasBaseline == \A t \in Types : lastLevel[t] # None => Full(win[t])
=============================================================================
