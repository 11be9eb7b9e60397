------------------------- MODULE FieldSourcesProofs -------------------------
(***************************************************************************)
(* Theorems about the three sources of field samples: CAN and the          *)
(* simulator (FieldSources), for every size of the CAN queue, every clock  *)
(* width and every set of sampling intervals; and the Modbus line          *)
(* (ProtocolModbus), for every set of slaves and of reads, every size of   *)
(* rx_buf and every number of answers on the line.                         *)
(***************************************************************************)
EXTENDS FieldSources, ProtocolModbus, SequenceTheorems, TLAPS

-----------------------------------------------------------------------------
(* The steps that one source sees                                          *)

\* Every step is one of the CAN source, or leaves all of it alone.
LEMMA CanSteps ==
  ASSUME [Next]_vars
  PROVE  CanNext \/ UNCHANGED canVars
BY DEF Next, vars, Manage, CanNext

\* Every step is one of the simulator, or leaves all of it alone.
LEMMA SimSteps ==
  ASSUME [Next]_vars
  PROVE  SimNext \/ UNCHANGED simVars
BY DEF Next, vars, Manage, SimNext

-----------------------------------------------------------------------------
(* The CAN thread and its filter                                           *)

\* A thread is made only in a call of start, which sets RUNNING first.
Spawning == canLife = "spawn" => canStatus = "RUNNING"

LEMMA FilterInductive ==
  ASSUME FilterHasThread, Spawning, CanNext \/ UNCHANGED canVars
  PROVE  FilterHasThread' /\ Spawning'
<1> USE DEF FilterHasThread, Spawning
<1>1. CASE CanLifecycle
  <2>1. CASE CanInit \/ CanStart \/ CanStartFails \/ CanShutdown
    <3>1. canLife = "idle" /\ canStatus # "RUNNING" /\ UNCHANGED rx
          /\ (filter' = filter \/ filter' = FALSE)
          /\ canLife' \in {"idle", "spawn"} /\ (canLife' = "spawn" => canStatus' = "RUNNING")
      BY <2>1 DEF CanInit, CanStart, CanStartFails, CanShutdown, CanStartable, canLine, canThread
    <3> QED BY <3>1
  <2>2. CASE CanSpawn
    BY <2>2 DEF CanSpawn, canLine
  <2>3. CASE CanStop
    BY <2>3 DEF CanStop, canLine, canThread
  <2>4. CASE CanJoin
    BY <2>4 DEF CanJoin, CanStopped, canThread
  <2> QED BY <1>1, <2>1, <2>2, <2>3, <2>4 DEF CanLifecycle
<1>2. CASE RxThread
  BY <1>2 DEF RxThread, RxStep, RxAdd, RxAddFails, RxTop, RxGet, RxTimeout, RxPublish,
     RxRemove, canLine, canCall
<1>3. CASE FrameArrives
  BY <1>3 DEF FrameArrives, canThread, canCall
<1>4. CASE UNCHANGED canVars
  BY <1>4 DEF canVars, canLine, canThread, canCall
<1> QED BY <1>1, <1>2, <1>3, <1>4 DEF CanNext

\* The driver never fills the stack of a thread that is gone, and no start makes
\* a second receiving thread, for any queue and any number of frames.
THEOREM FilterAlwaysHasThread == Spec => []FilterHasThread
<1>1. Init => FilterHasThread /\ Spawning
  BY DEF Init, CanBegin, FilterHasThread, Spawning
<1>2. FilterHasThread /\ Spawning /\ [Next]_vars => (FilterHasThread /\ Spawning)'
  BY FilterInductive, CanSteps
<1> QED BY <1>1, <1>2, PTL DEF Spec

-----------------------------------------------------------------------------
(* The order of frames                                                     *)

Serving == {"top", "get", "publish", "remove"}

\* What the thread has to publish is in the order of the bus, after what it has
\* published, and of the run it belongs to.
Ordered ==
  rx \in Serving =>
    /\ rx = "publish" => frame > canOut /\ frame > since /\ frame <= frames
    /\ \A i \in 1 .. Len(rxq) :
         /\ rxq[i] > canOut /\ rxq[i] > since /\ rxq[i] <= frames
         /\ rx = "publish" => rxq[i] > frame
         /\ \A j \in 1 .. Len(rxq) : i < j => rxq[i] < rxq[j]

Counted ==
  /\ rxq \in Seq(Nat)
  /\ frame \in Nat /\ frames \in Nat /\ canOut \in Nat /\ since \in Nat
  /\ canOut <= frames /\ since <= frames

OrderInv == FilterHasThread /\ Spawning /\ Counted /\ Ordered

\* A frame put into the queue is the latest there is.
LEMMA Queued ==
  ASSUME NEW q \in Seq(Nat), NEW n \in Nat
  PROVE  /\ Append(q, n) \in Seq(Nat) /\ Len(Append(q, n)) = Len(q) + 1
         /\ \A i \in 1 .. Len(q) : Append(q, n)[i] = q[i]
         /\ Append(q, n)[Len(q) + 1] = n
OBVIOUS

LEMMA OrderInductive ==
  ASSUME OrderInv, CanNext \/ UNCHANGED canVars
  PROVE  OrderInv' /\ (canOut' # canOut => canOut' > canOut /\ canOut' > since)
<1> USE DEF OrderInv
<1>0. FilterHasThread' /\ Spawning'
  BY FilterInductive
<1>1. CASE RxAdd
  <2>1. rxq' = <<>> /\ rx' = "top" /\ UNCHANGED <<frame, frames, canOut, since>>
    BY <1>1 DEF RxAdd, RxStep, canCall
  <2> QED BY <1>0, <2>1, EmptySeq DEF Counted, Ordered
<1>2. CASE RxGet
  <2>1. /\ rx = "get" /\ rx' = "publish" /\ rxq # <<>>
        /\ frame' = Head(rxq) /\ rxq' = Tail(rxq)
        /\ UNCHANGED <<frames, canOut, since>>
    BY <1>2 DEF RxGet, RxStep, canCall
  <2>2. /\ Len(rxq) \in Nat \ {0} /\ Head(rxq) = rxq[1]
        /\ Tail(rxq) \in Seq(Nat) /\ Len(Tail(rxq)) = Len(rxq) - 1
        /\ \A i \in 1 .. Len(Tail(rxq)) : Tail(rxq)[i] = rxq[i + 1]
        /\ Head(rxq) \in Nat
    BY <2>1, EmptySeq, HeadTailProperties DEF Counted
  <2>3. Counted'
    BY <2>1, <2>2 DEF Counted
  <2>4. \A i \in 1 .. Len(rxq) : rxq[i] \in Nat
    BY ElementOfSeq DEF Counted
  <2>5. Ordered'
    BY <2>1, <2>2, <2>4 DEF Ordered, Counted, Serving
  <2> QED BY <1>0, <2>1, <2>3, <2>5
<1>3. CASE RxPublish
  <2>1. /\ rx = "publish" /\ rx' = "top" /\ canOut' \in {canOut, frame}
        /\ UNCHANGED <<rxq, frame, frames, since>>
    BY <1>3 DEF RxPublish, RxStep, canLine, canCall
  <2>2. \A i \in 1 .. Len(rxq) : rxq[i] \in Nat
    BY ElementOfSeq DEF Counted
  <2> QED BY <1>0, <2>1, <2>2 DEF Counted, Ordered, Serving
<1>4. CASE FrameArrives
  <2>1. frames' = frames + 1 /\ UNCHANGED <<rx, frame, canOut, since>>
        /\ (rxq' = rxq \/ rxq' = Append(rxq, frames + 1))
    BY <1>4 DEF FrameArrives, canThread, canCall
  <2>2. \A i \in 1 .. Len(rxq) : rxq[i] \in Nat
    BY ElementOfSeq DEF Counted
  <2>3. CASE rxq' = rxq
    BY <1>0, <2>1, <2>2, <2>3 DEF Counted, Ordered
  <2>4. CASE rxq' = Append(rxq, frames + 1)
    <3>1. /\ rxq' \in Seq(Nat) /\ Len(rxq') = Len(rxq) + 1 /\ Len(rxq) \in Nat
          /\ \A i \in 1 .. Len(rxq) : rxq'[i] = rxq[i]
          /\ rxq'[Len(rxq) + 1] = frames + 1
      BY <2>4, Queued, LenProperties DEF Counted
    <3>2. Counted'
      BY <2>1, <3>1 DEF Counted
    <3>3. ASSUME rx \in Serving, NEW i \in 1 .. Len(rxq')
          PROVE  /\ rxq'[i] > canOut /\ rxq'[i] > since /\ rxq'[i] <= frames + 1
                 /\ rx = "publish" => rxq'[i] > frame
                 /\ \A j \in 1 .. Len(rxq') : i < j => rxq'[i] < rxq'[j]
      <4>1. CASE i = Len(rxq) + 1
        BY <3>1, <3>3, <4>1 DEF Counted, Ordered
      <4>2. CASE i \in 1 .. Len(rxq)
        <5>1. /\ rxq'[i] = rxq[i] /\ rxq[i] > canOut /\ rxq[i] > since /\ rxq[i] <= frames
              /\ rx = "publish" => rxq[i] > frame
              /\ \A j \in 1 .. Len(rxq) : i < j => rxq[i] < rxq[j]
          BY <3>1, <3>3, <4>2 DEF Ordered
        <5>2. ASSUME NEW j \in 1 .. Len(rxq'), i < j PROVE rxq'[i] < rxq'[j]
          <6>1. CASE j = Len(rxq) + 1
            BY <2>2, <3>1, <4>2, <5>1, <6>1 DEF Counted
          <6>2. CASE j \in 1 .. Len(rxq)
            BY <3>1, <5>1, <5>2, <6>2
          <6> QED BY <3>1, <6>1, <6>2
        <5> QED BY <2>2, <4>2, <5>1, <5>2 DEF Counted
      <4> QED BY <3>1, <3>3, <4>1, <4>2
    <3>4. rx = "publish" => frame > canOut /\ frame > since /\ frame <= frames + 1
      BY DEF Counted, Ordered, Serving
    <3>5. Ordered'
      BY <2>1, <3>3, <3>4 DEF Ordered
    <3> QED BY <1>0, <2>1, <3>2, <3>5
  <2> QED BY <2>1, <2>3, <2>4
<1>5. CASE RxTop \/ RxTimeout \/ RxRemove \/ RxAddFails
  <2>1. /\ rx' \in Serving \ {"publish"} => rx \in Serving
        /\ rx' # "publish"
        /\ UNCHANGED <<rxq, frame, frames, canOut, since>>
    BY <1>5 DEF RxTop, RxTimeout, RxRemove, RxAddFails, RxStep, Serving, canLine, canCall
  <2> QED BY <1>0, <2>1 DEF Counted, Ordered
<1>6. CASE CanSpawn \/ CanStart
  <2>1. /\ rx' \notin Serving
        /\ UNCHANGED <<rxq, frame, frames, canOut>>
        /\ since' \in {since, frames}
    BY <1>6 DEF CanSpawn, CanStart, CanStartable, FilterHasThread, Serving, canLine,
       canThread
  <2> QED BY <1>0, <2>1 DEF Counted, Ordered
<1>7. CASE CanInit \/ CanStartFails \/ CanStop \/ CanJoin \/ CanShutdown
           \/ UNCHANGED canVars
  <2>1. UNCHANGED <<rx, rxq, frame, frames, canOut, since>>
    BY <1>7 DEF CanInit, CanStartFails, CanStop, CanJoin, CanStopped, CanShutdown,
       canVars, canLine, canThread, canCall
  <2> QED BY <1>0, <2>1 DEF Counted, Ordered
<1> QED
  BY <1>1, <1>2, <1>3, <1>4, <1>5, <1>6, <1>7 DEF CanNext, RxThread, CanLifecycle

\* Frames come out once, in order, and none of a run that was stopped, for any
\* size of the queue and any number of frames.
THEOREM FramesAlwaysFresh == Spec => FreshFrames
<1>1. Init => OrderInv
  BY EmptySeq DEF Init, CanBegin, OrderInv, FilterHasThread, Spawning, Counted, Ordered,
     Serving
<1>2. OrderInv /\ [Next]_vars => OrderInv'
  BY OrderInductive, CanSteps
<1>3. OrderInv /\ [Next]_vars
        => [canOut' # canOut => canOut' > canOut /\ canOut' > since]_canVars
  BY OrderInductive, CanSteps
<1> QED BY <1>1, <1>2, <1>3, PTL DEF Spec, FreshFrames
-----------------------------------------------------------------------------
(* The simulator's clock                                                   *)

\* The sum of two readings of the clock that are less than W apart.
Plus(a, b) == IF a + b < W THEN a + b ELSE a + b - W

\* What the assumption says of the numbers.
LEMMA Bounds ==
  /\ W \in Nat \ {0} /\ MaxGap \in Nat \ {0} /\ Intervals \subseteq Nat \ {0}
  /\ \A i \in Intervals : i + 2 * MaxGap < W
  /\ MaxGap + 1 < W
<1>1. PICK i \in Intervals : i + 2 * MaxGap < W
  BY SimAssumption
<1>2. i >= 1 /\ i \in Nat /\ MaxGap \in Nat \ {0} /\ W \in Nat
  BY SimAssumption
<1>3. MaxGap + 1 < W
  BY <1>1, <1>2
<1> QED BY <1>3, SimAssumption

\* The clock's arithmetic is that of Plus, and takes the time back out of it.
LEMMA ClockArithmetic ==
  ASSUME NEW a \in 0 .. W - 1, NEW b \in 0 .. W - 1
  PROVE  /\ (a + 1) % W = Plus(a, 1)
         /\ (Plus(a, b) - a) % W = b
<1>1. W \in Nat \ {0} /\ W > 1
  BY Bounds
<1>2. ASSUME NEW x \in Int, 0 <= x, x < W PROVE x % W = x
  BY <1>1, <1>2
<1>3. ASSUME NEW x \in Int, -W <= x, x < 0 PROVE x % W = x + W
  BY <1>1, <1>3
<1>4. (a + 1) % W = Plus(a, 1)
  <2>1. CASE a + 1 < W
    BY <1>1, <1>2, <2>1 DEF Plus
  <2>2. CASE a + 1 = W
    BY <1>1, <2>2 DEF Plus
  <2> QED BY <1>1, <2>1, <2>2
<1>5. (Plus(a, b) - a) % W = b
  <2>1. CASE a + b < W
    BY <1>1, <1>2, <2>1 DEF Plus
  <2>2. CASE ~(a + b < W)
    <3>1. Plus(a, b) - a = b - W
      BY <1>1, <2>2 DEF Plus
    <3>2. b - W \in Int /\ -W <= b - W /\ b - W < 0
      BY <1>1
    <3>3. (b - W) % W = (b - W) + W
      BY <3>2, <1>3
    <3> QED BY <1>1, <3>1, <3>3
  <2> QED BY <2>1, <2>2
<1> QED BY <1>4, <1>5

\* The readings of the thread are apart by the time that passed, which is less
\* than the wrap: the age may only grow while it is below some interval.
Timed ==
  /\ interval \in Intervals
  /\ clock \in 0 .. W - 1 /\ now \in 0 .. W - 1 /\ last \in 0 .. W - 1
  /\ gap \in 0 .. MaxGap /\ age \in Nat
  /\ sim \in {"top", "compare", "publish"} => clock = Plus(now, gap)
  /\ sim \in {"top", "compare"} => now = Plus(last, age)
  /\ sim = "top" => \E i \in Intervals : age < i
  /\ sim = "compare" => age < W

\* Within the bounds of Timed the wrapped difference is the age.
LEMMA DueByAge ==
  ASSUME Timed, sim = "compare"
  PROVE  Due <=> age >= interval
<1>1. age \in 0 .. W - 1 /\ last \in 0 .. W - 1 /\ now = Plus(last, age)
  BY SimAssumption DEF Timed
<1>2. (now - last) % W = age
  BY <1>1, ClockArithmetic
<1> QED BY <1>2 DEF Due

LEMMA TimedInductive ==
  ASSUME Timed, SimNext \/ UNCHANGED simVars
  PROVE  Timed'
<1>0. /\ W \in Nat \ {0} /\ MaxGap \in Nat \ {0} /\ Intervals \subseteq Nat \ {0}
      /\ \A i \in Intervals : i + 2 * MaxGap < W
  BY Bounds
<1>1. CASE Tick
  <2>1. /\ clock' = Plus(clock, 1) /\ UNCHANGED <<sim, now, last, age, interval>>
        /\ gap' = IF sim = "off" THEN 0 ELSE gap + 1
        /\ sim # "off" => gap < MaxGap
    <3>1. clock \in 0 .. W - 1 /\ 1 \in 0 .. W - 1
      BY Bounds DEF Timed
    <3>2. (clock + 1) % W = Plus(clock, 1)
      BY <3>1, ClockArithmetic
    <3> QED BY <1>1, <3>2 DEF Tick
  <2>2. MaxGap + 1 < W
    BY Bounds
  <2>3. Plus(clock, 1) \in 0 .. W - 1
    BY <1>0, <2>2 DEF Plus, Timed
  <2>4. gap' \in 0 .. MaxGap
    BY <1>0, <2>1 DEF Timed
  <2>5. sim \in {"top", "compare", "publish"} => Plus(clock, 1) = Plus(now, gap + 1)
    BY <1>0, <2>2 DEF Plus, Timed
  <2> QED BY <2>1, <2>3, <2>4, <2>5 DEF Timed
<1>2. CASE First
  BY <1>0, <1>2 DEF First, Timed, Plus, simCall
<1>3. CASE Look
  <2>1. /\ sim = "top" /\ sim' = "compare" /\ now' = clock /\ age' = age + gap /\ gap' = 0
        /\ UNCHANGED <<last, interval, clock>>
    BY <1>3 DEF Look, simCall
  <2>2. PICK i \in Intervals : age < i
    BY <2>1 DEF Timed
  <2>3. age + gap < W
    BY <1>0, <2>2 DEF Timed
  <2>4. clock = Plus(last, age + gap)
    BY <1>0, <2>1, <2>3 DEF Timed, Plus
  <2> QED BY <1>0, <2>1, <2>3, <2>4 DEF Timed, Plus
<1>4. CASE Compare
  <2>1. CASE Due
    BY <1>4, <2>1 DEF Compare, Timed, simCall
  <2>2. CASE ~Due
    <3>1. age < interval
      BY <1>0, <1>4, <2>2, DueByAge DEF Compare, Timed
    <3> QED BY <1>4, <2>2, <3>1 DEF Compare, Timed, simCall
  <2> QED BY <2>1, <2>2
<1>5. CASE Round
  BY <1>0, <1>5, SimAssumption DEF Round, Timed, Plus, simCall
<1>6. CASE Leave \/ SimSpawn
  BY <1>0, <1>6 DEF Leave, SimSpawn, Timed, simCall
<1>7. CASE SimInit \/ SimStart \/ SimStop \/ SimJoin \/ SimShutdown
           \/ (\E i \in Intervals : SetInterval(i)) \/ UNCHANGED simVars
  <2>1. UNCHANGED simThread /\ UNCHANGED clock /\ interval' \in Intervals
    BY <1>7 DEF SimInit, SimStart, SimStop, SimJoin, SimStopped, SimShutdown, SetInterval,
       simVars, Timed
  <2> QED BY <2>1 DEF Timed, simThread
<1> QED
  BY <1>1, <1>2, <1>3, <1>4, <1>5, <1>6, <1>7 DEF SimNext, SimThread, SimLifecycle

\* A thread is made only when there is none: the last stop has waited for it.
OneThread ==
  /\ simLife = "spawn" => simStatus = "RUNNING" /\ sim = "off"
  /\ simLife = "idle" /\ simStatus # "RUNNING" => sim = "off"

LEMMA OneThreadInductive ==
  ASSUME OneThread, SimNext \/ UNCHANGED simVars
  PROVE  OneThread'
<1> USE DEF OneThread
<1>1. CASE SimThread
  BY <1>1 DEF SimThread, First, Look, Leave, Compare, Round, simCall
<1>2. CASE SimInit \/ SimStart \/ SimShutdown
  BY <1>2 DEF SimInit, SimStart, SimShutdown, simThread
<1>3. CASE SimSpawn
  BY <1>3 DEF SimSpawn
<1>4. CASE SimStop \/ SimJoin
  BY <1>4 DEF SimStop, SimJoin, SimStopped, simThread
<1>5. CASE Tick \/ (\E i \in Intervals : SetInterval(i)) \/ UNCHANGED simVars
  BY <1>5 DEF Tick, SetInterval, simVars, simThread, simCall
<1> QED BY <1>1, <1>2, <1>3, <1>4, <1>5 DEF SimNext, SimLifecycle

\* For every clock width, wherever the clock stands when the system boots and
\* however the interval is changed, a round is published exactly when its time
\* has really passed.
THEOREM RoundsAlwaysOnTime == Spec => RoundsOnTime
<1>1. Init => Timed /\ OneThread
  BY SimAssumption DEF Init, SimBegin, Timed, OneThread
<1>2. Timed /\ OneThread /\ [Next]_vars => (Timed /\ OneThread)'
  BY TimedInductive, OneThreadInductive, SimSteps
<1>3. Timed /\ OneThread /\ [Next]_vars
        => [sim = "compare" /\ sim' # sim => (sim' = "publish" <=> age >= interval)]_simVars
  <2> SUFFICES ASSUME Timed, OneThread, SimNext, sim = "compare", sim' # sim
               PROVE  sim' = "publish" <=> age >= interval
    BY SimSteps
  <2>1. CASE SimThread
    <3>1. Compare
      BY <2>1 DEF SimThread, First, Look, Leave, Round
    <3> QED BY <3>1, DueByAge DEF Compare
  <2>2. CASE SimSpawn
    BY <2>2 DEF SimSpawn, OneThread
  <2>3. CASE \/ Tick \/ SimInit \/ SimStart \/ SimStop \/ SimJoin \/ SimShutdown
             \/ \E i \in Intervals : SetInterval(i)
    BY <2>3 DEF Tick, SimInit, SimStart, SimStop, SimJoin, SimStopped, SimShutdown,
       SetInterval, simThread
  <2> QED BY <2>1, <2>2, <2>3 DEF SimNext, SimLifecycle
<1> QED BY <1>1, <1>2, <1>3, PTL DEF Spec, RoundsOnTime

-----------------------------------------------------------------------------
(* Types of the two sources                                                *)

\* The flags and the states of the CAN source.
CanKinds ==
  /\ canStatus \in {"UNINITIALIZED", "INITIALIZED", "RUNNING", "STOPPED", "ERROR"}
  /\ controller \in BOOLEAN /\ filter \in BOOLEAN
  /\ rx \in {"off", "add", "top", "get", "publish", "remove"}
  /\ canLife \in {"idle", "spawn", "join"} /\ canClosing \in BOOLEAN

LEMMA CanKindsInductive ==
  ASSUME CanKinds, CanNext \/ UNCHANGED canVars
  PROVE  CanKinds'
<1>1. CASE CanLifecycle
  <2>1. UNCHANGED rx \/ rx' = "add"
    BY <1>1 DEF CanLifecycle, CanInit, CanStart, CanStartFails, CanSpawn, CanStop, CanJoin,
       CanStopped, CanShutdown, canThread
  <2>2. /\ controller' \in BOOLEAN /\ filter' \in BOOLEAN /\ canClosing' \in BOOLEAN
    BY <1>1, Zenon DEF CanKinds, CanLifecycle, CanInit, CanStart, CanStartFails, CanSpawn,
       CanStop, CanJoin, CanStopped, CanShutdown, canLine
  <2>3. /\ canStatus' \in {"UNINITIALIZED", "INITIALIZED", "RUNNING", "STOPPED", "ERROR"}
        /\ canLife' \in {"idle", "spawn", "join"}
    BY <1>1 DEF CanKinds, CanLifecycle, CanInit, CanStart, CanStartFails, CanSpawn, CanStop,
       CanJoin, CanStopped, CanShutdown
  <2> QED BY <2>1, <2>2, <2>3 DEF CanKinds
<1>2. CASE RxThread
  <2>1. /\ UNCHANGED <<canCall, controller>>
        /\ rx' \in {"off", "top", "get", "publish", "remove"}
        /\ filter' = filter \/ filter' = TRUE \/ filter' = FALSE
    BY <1>2 DEF RxThread, RxStep, RxAdd, RxAddFails, RxTop, RxGet, RxTimeout, RxPublish,
       RxRemove, canLine
  <2> QED BY <2>1 DEF CanKinds, canCall
<1>3. CASE FrameArrives
  BY <1>3 DEF FrameArrives, CanKinds, canThread, canCall
<1>4. CASE UNCHANGED canVars
  BY <1>4 DEF CanKinds, canVars, canLine, canThread, canCall
<1> QED BY <1>1, <1>2, <1>3, <1>4 DEF CanNext

\* The flags and the states of the simulator.
SimKinds ==
  /\ simStatus \in {"UNINITIALIZED", "INITIALIZED", "RUNNING", "STOPPED"}
  /\ sim \in {"off", "first", "top", "compare", "publish"}
  /\ simLife \in {"idle", "spawn", "join"} /\ simClosing \in BOOLEAN

LEMMA SimKindsInductive ==
  ASSUME SimKinds, SimNext \/ UNCHANGED simVars
  PROVE  SimKinds'
<1>1. CASE SimLifecycle
  BY <1>1 DEF SimKinds, SimLifecycle, SimInit, SimStart, SimSpawn, SimStop, SimJoin,
     SimStopped, SimShutdown, simThread
<1>2. CASE SimThread
  BY <1>2 DEF SimKinds, SimThread, First, Look, Leave, Compare, Round, simCall
<1>3. CASE Tick \/ (\E i \in Intervals : SetInterval(i)) \/ UNCHANGED simVars
  BY <1>3 DEF SimKinds, Tick, SetInterval, simVars, simThread, simCall
<1> QED BY <1>1, <1>2, <1>3 DEF SimNext

\* The types of both sources hold for every size of the CAN queue, clock width
\* and set of intervals: the readings of the clock stay within it, and the thread
\* is never further from it than it may be.
THEOREM TypeCorrect == Spec => []TypeOK
<1> DEFINE Typed == CanKinds /\ OrderInv /\ SimKinds /\ Timed
<1>1. Init => Typed
  <2>1. Init => CanKinds /\ SimKinds
    BY DEF Init, CanBegin, SimBegin, CanKinds, SimKinds
  <2>2. Init => OrderInv
    BY EmptySeq DEF Init, CanBegin, OrderInv, FilterHasThread, Spawning, Counted, Ordered,
       Serving
  <2>3. Init => Timed
    BY SimAssumption DEF Init, SimBegin, Timed
  <2> QED BY <2>1, <2>2, <2>3
<1>2. Typed /\ [Next]_vars => Typed'
  BY CanKindsInductive, OrderInductive, SimKindsInductive, TimedInductive, CanSteps, SimSteps
<1>3. Typed => TypeOK
  BY DEF CanKinds, OrderInv, Counted, SimKinds, Timed, TypeOK, CanTypeOK, SimTypeOK
<1> QED BY <1>1, <1>2, <1>3, PTL DEF Spec

-----------------------------------------------------------------------------
(* The Modbus line: types                                                  *)

\* What is left of an answer on the line is at least one byte.
Unfinished == \A a \in line : a.from \in 1 .. FrameLen(a.count)

\* A response to a read of at least one register has at least 7 bytes.
LEMMA FrameLenType ==
  ASSUME NEW n \in Counts PROVE FrameLen(n) \in Nat /\ FrameLen(n) >= 7
<1>1. n \in 1 .. 16
  BY ModbusAssumption
<1> QED BY <1>1 DEF FrameLen

\* rx_buf takes no more than it has room for.
LEMMA StoreTypes ==
  ASSUME rxBuf \in Seq(Piece), rxLen \in 0 .. RxBufSize, NEW p \in Piece,
         p.from <= p.upto, Store(p)
  PROVE  /\ rxBuf' \in Seq(Piece) /\ rxLen' \in 0 .. RxBufSize
         /\ rxBuf' = rxBuf \/ \E q \in Piece : q.to = p.to /\ rxBuf' = Append(rxBuf, q)
<1> DEFINE room == RxBufSize - rxLen
           kept == IF Bytes(p) < room THEN Bytes(p) ELSE room
           q    == [p EXCEPT !.upto = p.from + kept - 1]
<1>1. RxBufSize \in Nat /\ p.from \in Nat /\ p.upto \in Nat
  BY ModbusAssumption DEF Piece
<1>2. Bytes(p) \in Nat /\ Bytes(p) >= 1
  BY <1>1 DEF Bytes
<1>3. kept \in Nat /\ rxLen + kept \in 0 .. RxBufSize
  BY <1>1, <1>2
<1>4. rxLen' = rxLen + kept /\ rxBuf' = IF kept = 0 THEN rxBuf ELSE Append(rxBuf, q)
  BY DEF Store
<1>5. kept # 0 => q \in Piece /\ q.to = p.to
  <2> SUFFICES ASSUME kept # 0 PROVE q \in Piece /\ q.to = p.to
    OBVIOUS
  <2> HIDE DEF kept
  <2>1. p.from + kept - 1 \in Nat
    BY <1>1, <1>3
  <2> QED BY <2>1 DEF Piece
<1> HIDE DEF kept, q, room
<1>6. CASE kept = 0
  BY <1>3, <1>4, <1>6
<1>7. CASE kept # 0
  <2>1. Append(rxBuf, q) \in Seq(Piece)
    BY <1>5, <1>7, AppendProperties
  <2> QED BY <1>3, <1>4, <1>5, <1>7, <2>1
<1> QED BY <1>6, <1>7

\* The answers on the line and the pieces in rx_buf, after each step.
LEMMA LineTypes ==
  ASSUME ModbusTypeOK, Unfinished, NEW a \in line, Arrive(a)
  PROVE  /\ rxBuf' \in Seq(Piece) /\ rxLen' \in 0 .. RxBufSize
         /\ line' \subseteq Answer /\ Unfinished'
         /\ \A b \in line' : \E c \in line : b.to = c.to
         /\ rxBuf' = rxBuf \/ \E q \in Piece : q.to = a.to /\ rxBuf' = Append(rxBuf, q)
<1>1. /\ a \in Answer /\ a.from \in 1 .. FrameLen(a.count) /\ a.count \in Counts
      /\ a.from \in Nat /\ line \subseteq Answer
  BY DEF ModbusTypeOK, Unfinished, Answer
<1>2. FrameLen(a.count) \in Nat
  BY <1>1, FrameLenType
<1>3. rxBuf \in Seq(Piece) /\ rxLen \in 0 .. RxBufSize
  BY DEF ModbusTypeOK
<1>4. \A n \in Nat : /\ PieceOf(a, n) \in Piece /\ PieceOf(a, n).to = a.to
                     /\ PieceOf(a, n).from = a.from /\ PieceOf(a, n).upto = n
  BY <1>1 DEF PieceOf, Answer, Piece
<1>5. CASE Store(PieceOf(a, FrameLen(a.count))) /\ line' = line \ {a}
  <2> DEFINE p == PieceOf(a, FrameLen(a.count))
  <2>1. p \in Piece /\ p.from <= p.upto /\ p.to = a.to
    BY <1>1, <1>2, <1>4
  <2>2. Store(p)
    BY <1>5
  <2> HIDE DEF p
  <2>3. /\ rxBuf' \in Seq(Piece) /\ rxLen' \in 0 .. RxBufSize
        /\ rxBuf' = rxBuf \/ \E q \in Piece : q.to = a.to /\ rxBuf' = Append(rxBuf, q)
    BY <1>3, <2>1, <2>2, StoreTypes
  <2>4. line' \subseteq line
    BY <1>5
  <2>5. Unfinished'
    BY <2>4 DEF Unfinished
  <2> QED BY <1>1, <2>3, <2>4, <2>5
<1>6. ASSUME NEW cut \in Cuts, a.from <= cut, cut < FrameLen(a.count),
             Store(PieceOf(a, cut)),
             line' = (line \ {a}) \cup {[a EXCEPT !.from = cut + 1]}
      PROVE  /\ rxBuf' \in Seq(Piece) /\ rxLen' \in 0 .. RxBufSize
             /\ line' \subseteq Answer /\ Unfinished'
             /\ \A b \in line' : \E c \in line : b.to = c.to
             /\ rxBuf' = rxBuf \/ \E q \in Piece : q.to = a.to /\ rxBuf' = Append(rxBuf, q)
  <2> DEFINE p == PieceOf(a, cut)
             r == [a EXCEPT !.from = cut + 1]
  <2>1. cut \in Nat \ {0}
    BY ModbusAssumption
  <2>2. p \in Piece /\ p.from <= p.upto /\ p.to = a.to
    BY <1>4, <1>6, <2>1
  <2>3. Store(p)
    BY <1>6
  <2>4. /\ r \in Answer /\ r.to = a.to /\ r.count = a.count /\ r.from = cut + 1
        /\ r.from \in 1 .. FrameLen(r.count)
    <3>1. cut + 1 \in Nat /\ cut + 1 \in 1 .. FrameLen(a.count)
      BY <1>2, <1>6, <2>1
    <3> QED BY <1>1, <3>1 DEF Answer
  <2>5. line' = (line \ {a}) \cup {r}
    BY <1>6
  <2> HIDE DEF p, r
  <2>6. /\ rxBuf' \in Seq(Piece) /\ rxLen' \in 0 .. RxBufSize
        /\ rxBuf' = rxBuf \/ \E q \in Piece : q.to = a.to /\ rxBuf' = Append(rxBuf, q)
    BY <1>3, <2>2, <2>3, StoreTypes
  <2>7. Unfinished'
    BY <2>4, <2>5 DEF Unfinished
  <2>8. line' \subseteq Answer /\ \A b \in line' : \E c \in line : b.to = c.to
    BY <1>1, <2>4, <2>5
  <2> QED BY <2>6, <2>7, <2>8
<1> QED BY <1>5, <1>6 DEF Arrive

\* What a read returns: nothing, or the values of the first piece in rx_buf.
LEMMA CheckType ==
  ASSUME ModbusTypeOK, NEW r \in Request
  PROVE  /\ Check(r) \in Result
         /\ Check(r).ret = "ok" =>
              Check(r).src = "unset" \/ (Len(rxBuf) >= 1 /\ Check(r).src = rxBuf[1].to)
<1>1. CASE rxLen < 5
  <2>1. Check(r) = [ret |-> "ok", src |-> "unset"]
    BY <1>1 DEF Check
  <2> QED BY <2>1 DEF Result
<1>2. CASE Check(r) = Failed
  BY <1>2 DEF Failed, Result
<1>3. CASE /\ \E n \in 1 .. Len(rxBuf) : BeginsWithFrame(n)
           /\ Check(r) = [ret |-> "ok", src |-> rxBuf[1].to]
  <2>1. rxBuf \in Seq(Piece) /\ Len(rxBuf) \in Nat /\ Len(rxBuf) >= 1
    BY <1>3, LenProperties DEF ModbusTypeOK
  <2>2. rxBuf[1] \in Piece
    BY <2>1, ElementOfSeq
  <2>3. rxBuf[1].to \in Callers \cup {"past"}
    BY <2>2 DEF Piece
  <2> QED BY <1>3, <2>1, <2>3 DEF Result
<1>4. \/ rxLen < 5
      \/ Check(r) = Failed
      \/ /\ \E n \in 1 .. Len(rxBuf) : BeginsWithFrame(n)
         /\ Check(r) = [ret |-> "ok", src |-> rxBuf[1].to]
  BY DEF Check
<1> QED BY <1>1, <1>2, <1>3, <1>4

\* The steps that leave the line and the buffer alone.
ControlStep == Worker \/ Commands \/ Lifecycle \/ (\E c \in Callers : Enter(c))

\* Where a thread of the Modbus source may be.
PcStates == {"off", "idle", "top", "enter", "lock", "send", "wait", "done", "publish"}

\* Outside a transaction, every variable keeps its type.
LEMMA ControlTypes ==
  ASSUME ModbusTypeOK, Unfinished, ControlStep
  PROVE  ModbusTypeOK' /\ Unfinished'
<1> USE DEF ModbusTypeOK
<1>0. /\ "worker" \in Callers /\ "shell" \in Callers /\ Failed \in Result
      /\ PollCount \in Counts
  BY ModbusAssumption DEF Callers, Failed, Result
<1>1. UNCHANGED <<buffer, line, mutex>>
  BY DEF ControlStep, Worker, Commands, Lifecycle, Enter, Poll, Polled, PublishSamples, ShellDone,
     ShellRead, SetSlaveId, StartFails, Start, Stop, StopJoin, Shutdown
<1>2. rxBuf' \in Seq(Piece) /\ rxLen' \in 0 .. RxBufSize /\ line' \subseteq Answer
      /\ mutex' \in Callers \cup {"free"} /\ Unfinished'
  BY <1>1 DEF buffer, Unfinished
<1>3. CASE Lifecycle
  <2>1. /\ status' \in {"UNINITIALIZED", "INITIALIZED", "RUNNING", "STOPPED", "ERROR"}
        /\ slaveId' = slaveId /\ irq' \in BOOLEAN /\ life' \in {"idle", "join"}
        /\ ask' = ask /\ got' = got
    BY <1>3 DEF Lifecycle, StartFails, Start, Stop, StopJoin, Shutdown, calls
  <2>2. pc' = pc \/ pc' = [pc EXCEPT !["worker"] = "top"]
    BY <1>3 DEF Lifecycle, StartFails, Start, Stop, StopJoin, Shutdown, calls
  <2> QED BY <1>0, <1>2, <2>1, <2>2
<1>4. CASE Commands \/ Worker \/ (\E c \in Callers : Enter(c))
  <2>1. UNCHANGED <<status, irq, life>> /\ slaveId' \in Slaves
    BY <1>4 DEF Commands, Worker, Enter, Poll, Polled, PublishSamples, ShellDone, ShellRead,
       SetSlaveId
  <2>2. got' \in [Callers -> Result]
    BY <1>0, <1>4 DEF Commands, Worker, Enter, Poll, Polled, PublishSamples, ShellDone, ShellRead,
       SetSlaveId, calls
  <2>3. ask' \in [Callers -> Request]
    <3>1. [slave |-> slaveId, count |-> PollCount] \in Request
      BY <1>0 DEF Request
    <3> QED BY <1>0, <1>4, <3>1 DEF Commands, Worker, Enter, Poll, Polled, PublishSamples,
           ShellDone, ShellRead, SetSlaveId, calls
  <2>4. pc' \in [Callers -> PcStates]
    <3>1. pc' = pc \/ \E c \in Callers, to \in PcStates : pc' = [pc EXCEPT ![c] = to]
      BY <1>0, <1>4 DEF Commands, Worker, Enter, Poll, Polled, PublishSamples, ShellDone,
         ShellRead, SetSlaveId, calls, Go, PcStates
    <3>2. pc \in [Callers -> PcStates]
      BY DEF PcStates
    <3> QED BY <3>1, <3>2
  <2> QED BY <1>2, <2>1, <2>2, <2>3, <2>4 DEF PcStates
<1> QED BY <1>3, <1>4 DEF ControlStep

\* In a transaction, every variable keeps its type.
LEMMA BusTypes ==
  ASSUME ModbusTypeOK, Unfinished,
         NEW c \in Callers, Lock(c) \/ Send(c) \/ Receive(c) \/ TimeOut(c)
  PROVE  ModbusTypeOK' /\ Unfinished'
<1> USE DEF ModbusTypeOK
<1>0. pc \in [Callers -> PcStates] /\ Failed \in Result /\ c \in Callers /\ ask[c] \in Request
  BY DEF PcStates, Failed, Result
<1>1. UNCHANGED <<status, slaveId, irq, ask, life>> /\ mutex' \in Callers \cup {"free"}
  BY DEF Lock, Send, Receive, TimeOut
<1>2. pc' \in [Callers -> PcStates]
  <2>1. \E to \in PcStates : pc' = [pc EXCEPT ![c] = to]
    BY DEF Lock, Send, Receive, TimeOut, Go, PcStates
  <2> QED BY <1>0, <2>1
<1>3. rxBuf' \in Seq(Piece) /\ rxLen' \in 0 .. RxBufSize
  <2>1. <<>> \in Seq(Piece) /\ 0 \in 0 .. RxBufSize
    BY EmptySeq, ModbusAssumption
  <2> QED BY <2>1 DEF Lock, Send, Receive, TimeOut, buffer
<1>4. got' \in [Callers -> Result]
  BY <1>0, CheckType DEF Lock, Send, Receive, TimeOut
<1>5. line' \subseteq Answer /\ Unfinished'
  <2>1. CASE Lock(c)
    <3>1. line' = Past(c, line)
      BY <2>1 DEF Lock
    <3>2. \A a \in line : [a EXCEPT !.to = IF a.to = c THEN "past" ELSE a.to] \in Answer
            /\ [a EXCEPT !.to = IF a.to = c THEN "past" ELSE a.to].from = a.from
            /\ [a EXCEPT !.to = IF a.to = c THEN "past" ELSE a.to].count = a.count
      BY DEF Answer
    <3> QED BY <3>1, <3>2 DEF Past, Unfinished
  <2>2. CASE Send(c)
    <3>1. line' = line \/ \E good \in BOOLEAN :
            line' = line \cup {[to |-> c, slave |-> ask[c].slave, count |-> ask[c].count,
                                good |-> good, from |-> 1]}
      BY <2>2 DEF Send
    <3>2. ask[c].slave \in Slaves /\ ask[c].count \in Counts
      BY <1>0 DEF Request
    <3>3. 1 \in 1 .. FrameLen(ask[c].count)
      BY <3>2, FrameLenType
    <3> QED BY <3>1, <3>2, <3>3 DEF Answer, Unfinished
  <2>3. CASE Receive(c) \/ TimeOut(c)
    BY <2>3 DEF Receive, TimeOut, Unfinished
  <2> QED BY <2>1, <2>2, <2>3
<1> QED BY <1>1, <1>2, <1>3, <1>4, <1>5 DEF PcStates

\* So it does in every step.
LEMMA ModbusTypes ==
  ASSUME ModbusTypeOK, Unfinished, [ModbusNext]_modbusVars
  PROVE  ModbusTypeOK' /\ Unfinished'
<1>1. CASE Environment
  <2>1. PICK a \in line : Arrive(a) \/ Vanish(a)
    BY <1>1 DEF Environment
  <2>2. UNCHANGED <<status, slaveId, irq, mutex, pc, ask, got, life>>
    BY <2>1 DEF Arrive, Vanish, calls
  <2>3. CASE Arrive(a)
    BY <2>2, <2>3, LineTypes DEF ModbusTypeOK
  <2>4. CASE Vanish(a)
    BY <2>2, <2>4 DEF Vanish, ModbusTypeOK, Unfinished, buffer
  <2> QED BY <2>1, <2>3, <2>4
<1>2. CASE ControlStep
  BY <1>2, ControlTypes
<1>3. CASE \E c \in Callers : Lock(c) \/ Send(c) \/ Receive(c) \/ TimeOut(c)
  BY <1>3, BusTypes
<1>4. CASE UNCHANGED modbusVars
  BY <1>4 DEF modbusVars, buffer, calls, ModbusTypeOK, Unfinished
<1> QED BY <1>1, <1>2, <1>3, <1>4 DEF ModbusNext, ControlStep, Read

\* And at the beginning.
LEMMA ModbusTypesBegin ==
  ASSUME ModbusBegin PROVE ModbusTypeOK /\ Unfinished
<1>1. ask \in [Callers -> Request] /\ got \in [Callers -> Result]
  BY ModbusAssumption DEF ModbusBegin, Request, Failed, Result
<1>2. rxBuf \in Seq(Piece) /\ rxLen \in 0 .. RxBufSize
  BY EmptySeq, ModbusAssumption DEF ModbusBegin
<1> QED BY <1>1, <1>2 DEF ModbusBegin, ModbusTypeOK, Unfinished

\* The state of the Modbus source keeps its types; in particular the interrupt never
\* writes past the end of rx_buf, whatever the slaves send and in however many pieces.
THEOREM ModbusTypeCorrect == ModbusSpec => []ModbusTypeOK
<1>1. ModbusTypeOK /\ Unfinished /\ [ModbusNext]_modbusVars => (ModbusTypeOK /\ Unfinished)'
  BY ModbusTypes
<1>2. ModbusBegin => ModbusTypeOK /\ Unfinished
  BY ModbusTypesBegin
<1> QED BY <1>1, <1>2, PTL DEF ModbusSpec

-----------------------------------------------------------------------------
(* The Modbus line: its thread                                             *)

\* The thread leaves the loop only; start makes one only when there is none.
LEMMA StoppedInductive ==
  ASSUME ModbusTypeOK, StoppedClean, [ModbusNext]_modbusVars
  PROVE  StoppedClean'
<1> USE DEF StoppedClean
<1>0. pc \in [Callers -> PcStates] /\ "worker" \in Callers /\ "shell" \in Callers
  BY DEF ModbusTypeOK, PcStates, Callers
<1>1. CASE UNCHANGED <<status, life>> /\ (pc["worker"] = "off" => pc'["worker"] = "off")
  BY <1>1
<1>3. CASE Environment
  BY <1>1, <1>3 DEF Environment, Arrive, Vanish, calls
<1>4. CASE Worker
  BY <1>0, <1>4 DEF Worker, Poll, Polled, PublishSamples, Go
<1>5. CASE Commands
  BY <1>0, <1>5 DEF Commands, ShellDone, ShellRead, SetSlaveId, Go, calls
<1>6. CASE \E c \in Callers : Read(c)
  BY <1>0, <1>6 DEF Read, Enter, Lock, Send, Receive, TimeOut, Go
<1>7. CASE Lifecycle
  BY <1>0, <1>7 DEF Lifecycle, StartFails, Start, Stop, StopJoin, Shutdown, calls
<1>8. CASE UNCHANGED modbusVars
  BY <1>1, <1>8 DEF modbusVars, calls
<1> QED BY <1>3, <1>4, <1>5, <1>6, <1>7, <1>8 DEF ModbusNext

\* The poll thread and its stack are used once: while the module is not RUNNING and no
\* stop is under way, the thread has left, so the next start may reuse its stack.
THEOREM ModbusStoppedClean == ModbusSpec => []StoppedClean
<1>1. ModbusBegin => ModbusTypeOK /\ Unfinished /\ StoppedClean
  BY ModbusTypesBegin DEF ModbusBegin, StoppedClean, Callers
<1>2. ModbusTypeOK /\ Unfinished /\ StoppedClean /\ [ModbusNext]_modbusVars
        => (ModbusTypeOK /\ Unfinished /\ StoppedClean)'
  BY ModbusTypes, StoppedInductive
<1> QED BY <1>1, <1>2, PTL DEF ModbusSpec

-----------------------------------------------------------------------------
(* The Modbus line: its owner                                              *)

\* bus_mutex is held by the reader between its request and its answer, and by no other.
Owned == \A c \in Callers : mutex = c <=> pc[c] \in {"send", "wait"}

\* While a reader has the bus, all that is on the line or in rx_buf is for it.
OwnLine ==
  Punctual => \A c \in Callers : mutex = c =>
    /\ \A a \in line : a.to = c
    /\ \A i \in 1 .. Len(rxBuf) : rxBuf[i].to = c

OwnInv == ModbusTypeOK /\ Unfinished /\ StoppedClean /\ Owned /\ OwnLine /\ OwnAnswer

\* A step of one reader outside a transaction, in which no values come to be returned.
QuietStep(c, from, to) ==
  /\ Go(c, from, to) /\ {from, to} \cap {"send", "wait"} = {}
  /\ \/ to \notin {"done", "publish"} /\ \A d \in Callers : d # c => got'[d] = got[d]
     \/ got' = [got EXCEPT ![c] = Failed]
     \/ from = "done" /\ got' = got

\* What arrives while a reader has the bus was on its way to that reader.
LEMMA OwnEnvironment ==
  ASSUME OwnInv, NEW a \in line, Arrive(a) \/ Vanish(a)
  PROVE  Owned' /\ OwnLine' /\ OwnAnswer'
<1>1. UNCHANGED <<mutex, pc, got>>
  BY DEF Arrive, Vanish, calls
<1>2. Owned' /\ OwnAnswer'
  BY <1>1 DEF OwnInv, Owned, OwnAnswer
<1>3. ASSUME Punctual, NEW c \in Callers, mutex' = c
      PROVE  /\ \A b \in line' : b.to = c
             /\ \A i \in 1 .. Len(rxBuf') : rxBuf'[i].to = c
  <2>1. /\ \A b \in line : b.to = c
        /\ \A i \in 1 .. Len(rxBuf) : rxBuf[i].to = c
    BY <1>1, <1>3 DEF OwnInv, OwnLine
  <2>2. CASE Vanish(a)
    BY <2>1, <2>2 DEF Vanish, buffer
  <2>3. CASE Arrive(a)
    <3>1. /\ \A b \in line' : \E d \in line : b.to = d.to
          /\ rxBuf' = rxBuf \/ \E q \in Piece : q.to = a.to /\ rxBuf' = Append(rxBuf, q)
      BY <2>3, LineTypes DEF OwnInv
    <3>2. CASE rxBuf' = rxBuf
      BY <2>1, <3>1, <3>2
    <3>3. ASSUME NEW q \in Piece, q.to = a.to, rxBuf' = Append(rxBuf, q)
          PROVE  \A i \in 1 .. Len(rxBuf') : rxBuf'[i].to = c
      <4>1. rxBuf \in Seq(Piece)
        BY DEF OwnInv, ModbusTypeOK
      <4>2. /\ Len(rxBuf') = Len(rxBuf) + 1 /\ Len(rxBuf) \in Nat
            /\ \A i \in 1 .. Len(rxBuf) : rxBuf'[i] = rxBuf[i]
            /\ rxBuf'[Len(rxBuf) + 1] = q
        BY <3>3, <4>1, AppendProperties, LenProperties
      <4>3. a.to = c
        BY <2>1
      <4> QED BY <2>1, <3>3, <4>2, <4>3
    <3> QED BY <2>1, <3>1, <3>2, <3>3
  <2> QED BY <2>2, <2>3
<1>4. OwnLine'
  BY <1>3 DEF OwnLine
<1> QED BY <1>2, <1>4

\* A transaction: the lock finds the line silent, the send puts the reader's own answer
\* on it, and the values that the receive takes are those of the first piece in rx_buf.
LEMMA OwnBus ==
  ASSUME OwnInv, NEW c \in Callers, Lock(c) \/ Send(c) \/ Receive(c) \/ TimeOut(c)
  PROVE  Owned' /\ OwnLine' /\ OwnAnswer'
<1> USE DEF OwnInv
<1>0. /\ pc \in [Callers -> PcStates] /\ got \in [Callers -> Result]
      /\ ask[c] \in Request /\ ModbusTypeOK /\ "free" \notin Callers
  BY DEF ModbusTypeOK, PcStates, Callers
<1>1. CASE Lock(c)
  <2>1. /\ pc[c] = "lock" /\ pc' = [pc EXCEPT ![c] = "send"] /\ mutex = "free" /\ mutex' = c
        /\ Punctual => line = {}
        /\ line' = Past(c, line) /\ rxBuf' = <<>> /\ got' = got
    BY <1>1 DEF Lock, Go
  <2>2. Owned'
    BY <1>0, <2>1 DEF Owned
  <2>3. OwnLine'
    BY <2>1, EmptySeq DEF OwnLine, Past
  <2>4. OwnAnswer'
    BY <1>0, <2>1 DEF OwnAnswer
  <2> QED BY <2>2, <2>3, <2>4
<1>2. CASE Send(c)
  <2>1. /\ pc[c] = "send" /\ pc' = [pc EXCEPT ![c] = "wait"] /\ mutex' = mutex
        /\ rxBuf' = rxBuf /\ got' = got
        /\ \A b \in line' : b \in line \/ b.to = c
    BY <1>2 DEF Send, Go, buffer
  <2>2. mutex = c
    BY <2>1 DEF Owned
  <2>3. Owned'
    BY <1>0, <2>1 DEF Owned
  <2>4. OwnLine'
    BY <2>1, <2>2 DEF OwnLine
  <2>5. OwnAnswer'
    BY <1>0, <2>1 DEF OwnAnswer
  <2> QED BY <2>3, <2>4, <2>5
<1>3. CASE Receive(c) \/ TimeOut(c)
  <2>1. /\ pc[c] = "wait" /\ pc' = [pc EXCEPT ![c] = "done"] /\ mutex' = "free"
        /\ got' = [got EXCEPT ![c] = Check(ask[c])] \/ got' = [got EXCEPT ![c] = Failed]
    BY <1>3 DEF Receive, TimeOut, Go
  <2>2. mutex = c
    BY <2>1 DEF Owned
  <2>3. Owned'
    <3>1. \A d \in Callers : d # c => pc[d] \notin {"send", "wait"}
      BY <2>2 DEF Owned
    <3> QED BY <1>0, <2>1, <3>1 DEF Owned
  <2>4. OwnLine'
    BY <1>0, <2>1 DEF OwnLine
  <2>5. Punctual /\ got'[c].ret = "ok" => got'[c].src \in {c, "unset"}
    <3>1. CASE got' = [got EXCEPT ![c] = Failed]
      BY <1>0, <3>1 DEF Failed
    <3>2. CASE got' = [got EXCEPT ![c] = Check(ask[c])]
      <4>1. got'[c] = Check(ask[c])
        BY <1>0, <3>2
      <4>2. Punctual /\ Len(rxBuf) >= 1 => rxBuf[1].to = c
        <5>1. Len(rxBuf) \in Nat
          BY LenProperties DEF ModbusTypeOK
        <5> QED BY <2>2, <5>1 DEF OwnLine
      <4> QED BY <1>0, <4>1, <4>2, CheckType
    <3> QED BY <2>1, <3>1, <3>2
  <2>6. OwnAnswer'
    BY <1>0, <2>1, <2>5 DEF OwnAnswer
  <2> QED BY <2>3, <2>4, <2>6
<1> QED BY <1>1, <1>2, <1>3

\* Outside a transaction nothing on the line is touched and no new values are returned.
LEMMA OwnControl ==
  ASSUME OwnInv, ControlStep
  PROVE  Owned' /\ OwnLine' /\ OwnAnswer'
<1> USE DEF OwnInv
<1>0. /\ pc \in [Callers -> PcStates] /\ got \in [Callers -> Result]
      /\ "worker" \in Callers /\ "shell" \in Callers
  BY DEF ModbusTypeOK, PcStates, Callers
<1>1. UNCHANGED <<rxBuf, line, mutex>>
  BY DEF ControlStep, Worker, Commands, Lifecycle, Enter, Poll, Polled, PublishSamples, ShellDone,
     ShellRead, SetSlaveId, StartFails, Start, Stop, StopJoin, Shutdown, buffer
<1>2. OwnLine'
  BY <1>1 DEF OwnLine
<1>3. ASSUME NEW c \in Callers, NEW from, NEW to, QuietStep(c, from, to)
      PROVE  Owned' /\ OwnAnswer'
  <2>1. /\ pc[c] = from /\ pc' = [pc EXCEPT ![c] = to]
        /\ {from, to} \cap {"send", "wait"} = {}
    BY <1>3 DEF QuietStep, Go
  <2>2. Owned'
    BY <1>0, <1>1, <2>1 DEF Owned
  <2>3. \/ to \notin {"done", "publish"} /\ \A d \in Callers : d # c => got'[d] = got[d]
        \/ got' = [got EXCEPT ![c] = Failed]
        \/ from = "done" /\ got' = got
    BY <1>3 DEF QuietStep
  <2>4. OwnAnswer'
    BY <1>0, <2>1, <2>3 DEF OwnAnswer, Failed
  <2> QED BY <2>2, <2>4
<1>4. CASE pc' = pc /\ got' = got
  BY <1>1, <1>2, <1>4 DEF Owned, OwnAnswer
<1>5. CASE Poll
  <2>1. QuietStep("worker", "top", "enter") \/ QuietStep("worker", "top", "off")
    BY <1>5 DEF Poll, QuietStep
  <2> QED BY <1>0, <1>2, <1>3, <2>1
<1>6. CASE Polled
  <2>1. QuietStep("worker", "done", "publish") \/ QuietStep("worker", "done", "top")
    BY <1>6 DEF Polled, QuietStep
  <2> QED BY <1>0, <1>2, <1>3, <2>1
<1>7. CASE PublishSamples
  <2>1. QuietStep("worker", "publish", "top")
    BY <1>7 DEF PublishSamples, QuietStep
  <2> QED BY <1>0, <1>2, <1>3, <2>1
<1>8. CASE (\E r \in Request : ShellRead(r)) \/ ShellDone
  <2>1. QuietStep("shell", "idle", "enter") \/ QuietStep("shell", "done", "idle")
    BY <1>8 DEF ShellRead, ShellDone, QuietStep
  <2> QED BY <1>0, <1>2, <1>3, <2>1
<1>9. ASSUME NEW c \in Callers, Enter(c)
      PROVE  Owned' /\ OwnAnswer'
  <2>1. QuietStep(c, "enter", "lock") \/ QuietStep(c, "enter", "done")
    BY <1>9 DEF Enter, QuietStep
  <2> QED BY <1>3, <2>1
<1>10. CASE StartFails \/ Stop \/ StopJoin \/ Shutdown \/ \E s \in Slaves : SetSlaveId(s)
  BY <1>4, <1>10 DEF StartFails, Stop, StopJoin, Shutdown, SetSlaveId, calls
<1>11. CASE Start
  <2>1. pc["worker"] = "off" /\ pc' = [pc EXCEPT !["worker"] = "top"] /\ got' = got
    BY <1>11 DEF Start, StoppedClean
  <2>2. Owned'
    BY <1>0, <1>1, <2>1 DEF Owned
  <2>3. OwnAnswer'
    BY <1>0, <2>1 DEF OwnAnswer
  <2> QED BY <1>2, <2>2, <2>3
<1> QED
  BY <1>2, <1>4, <1>5, <1>6, <1>7, <1>8, <1>9, <1>10, <1>11
     DEF ControlStep, Worker, Commands, Lifecycle

\* The inductive invariant behind OwnAnswer.
LEMMA OwnInductive ==
  ASSUME OwnInv, [ModbusNext]_modbusVars
  PROVE  OwnInv'
<1>1. ModbusTypeOK' /\ Unfinished' /\ StoppedClean'
  BY ModbusTypes, StoppedInductive DEF OwnInv
<1>2. CASE \E a \in line : Arrive(a) \/ Vanish(a)
  BY <1>1, <1>2, OwnEnvironment DEF OwnInv
<1>3. CASE ControlStep
  BY <1>1, <1>3, OwnControl DEF OwnInv
<1>4. ASSUME NEW c \in Callers, Lock(c) \/ Send(c) \/ Receive(c) \/ TimeOut(c)
      PROVE  OwnInv'
  BY <1>1, <1>4, OwnBus DEF OwnInv
<1>5. CASE UNCHANGED modbusVars
  BY <1>1, <1>5 DEF OwnInv, Owned, OwnLine, OwnAnswer, modbusVars, calls, buffer
<1> QED BY <1>2, <1>3, <1>4, <1>5 DEF ModbusNext, ControlStep, Read, Environment

\* The poll thread and a shell command never get each other's answer, nor one to an
\* earlier request, for any slaves, reads, size of rx_buf and order of their steps.
THEOREM AlwaysOwnAnswer == ModbusSpec => []OwnAnswer
<1>1. ModbusBegin => OwnInv
  <2> SUFFICES ASSUME ModbusBegin PROVE OwnInv
    OBVIOUS
  <2>1. ModbusTypeOK /\ Unfinished
    BY ModbusTypesBegin
  <2>2. StoppedClean
    BY DEF ModbusBegin, StoppedClean, Callers
  <2>3. Owned /\ OwnLine /\ OwnAnswer
    BY DEF ModbusBegin, Owned, OwnLine, OwnAnswer, Callers
  <2> QED BY <2>1, <2>2, <2>3 DEF OwnInv
<1>2. OwnInv /\ [ModbusNext]_modbusVars => OwnInv'
  BY OwnInductive
<1>3. OwnInv => OwnAnswer
  BY DEF OwnInv
<1> QED BY <1>1, <1>2, <1>3, PTL DEF ModbusSpec

=============================================================================
