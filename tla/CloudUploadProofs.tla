------------------------- MODULE CloudUploadProofs -------------------------
(* Theorems about CloudUpload, for every depth of the queue, any number of *)
(* samples and anomalies, whether or not the bus refuses events.           *)
EXTENDS CloudUpload, FiniteSetTheorems, FunctionTheorems, SequenceTheorems, TLAPS

-----------------------------------------------------------------------------
(* How often a value is in a function or a sequence                        *)

Hits(f, i) == {n \in DOMAIN f : f[n] = i}
Count(f, i) == Cardinality(Hits(f, i))
Bit(b) == IF b THEN 1 ELSE 0

LEMMA BitType == ASSUME NEW b PROVE Bit(b) \in {0, 1}
BY DEF Bit

LEMMA HitsFinite ==
  ASSUME NEW q \in Seq(Nat), NEW i
  PROVE  IsFiniteSet(Hits(q, i)) /\ Count(q, i) \in Nat
<1>1. Len(q) \in Nat /\ DOMAIN q = 1 .. Len(q)
  OBVIOUS
<1>2. IsFiniteSet(1 .. Len(q)) /\ Hits(q, i) \in SUBSET (1 .. Len(q))
  BY <1>1, FS_Interval DEF Hits
<1> QED BY <1>2, FS_Subset, FS_CardinalityType DEF Count

\* A value changed at one place.
LEMMA CountExcept ==
  ASSUME NEW f, IsFiniteSet(DOMAIN f), NEW d \in DOMAIN f, NEW v, NEW i
  PROVE  /\ Count(f, i) \in Nat
         /\ Count([f EXCEPT ![d] = v], i) = Count(f, i) - Bit(f[d] = i) + Bit(v = i)
<1> DEFINE g == [f EXCEPT ![d] = v]
           R == Hits(f, i) \ {d}
<1>1. IsFiniteSet(Hits(f, i)) /\ Hits(f, i) \in SUBSET DOMAIN f
  BY FS_Subset DEF Hits
<1>2. Count(f, i) \in Nat
  BY <1>1, FS_CardinalityType DEF Count
<1>3. IsFiniteSet(R) /\ Cardinality(R) = Count(f, i) - Bit(f[d] = i)
  <2>1. d \in Hits(f, i) <=> f[d] = i
    BY DEF Hits
  <2> QED BY <1>1, <1>2, <2>1, FS_RemoveElement DEF Count, Bit
<1>4. CASE v = i
  <2>1. Hits(g, i) = R \cup {d} /\ d \notin R
    BY <1>4 DEF Hits
  <2>2. Cardinality(R \cup {d}) = Cardinality(R) + 1
    BY <1>3, <2>1, FS_AddElement
  <2> QED BY <1>2, <1>3, <1>4, <2>1, <2>2 DEF Count, Bit
<1>5. CASE v # i
  <2>1. Hits(g, i) = R
    BY <1>5 DEF Hits
  <2>2. Bit(v = i) = 0 /\ Bit(f[d] = i) \in {0, 1}
    BY <1>5, BitType DEF Bit
  <2>3. Count(g, i) = Count(f, i) - Bit(f[d] = i)
    BY <1>3, <2>1 DEF Count
  <2> HIDE DEF R
  <2> QED BY <1>2, <2>2, <2>3
<1> QED BY <1>2, <1>4, <1>5

\* A value added at the end.
LEMMA CountAppend ==
  ASSUME NEW q \in Seq(Nat), NEW e \in Nat, NEW i
  PROVE  /\ Count(q, i) \in Nat
         /\ Count(Append(q, e), i) = Count(q, i) + Bit(e = i)
<1> DEFINE g == Append(q, e)
           m == Len(q) + 1
<1>1. /\ Len(q) \in Nat /\ DOMAIN q = 1 .. Len(q) /\ DOMAIN g = 1 .. m
      /\ g[m] = e /\ \A n \in 1 .. Len(q) : g[n] = q[n]
  OBVIOUS
<1>2. IsFiniteSet(Hits(q, i))
  BY HitsFinite
<1>3. Count(q, i) \in Nat
  BY HitsFinite
<1> HIDE DEF g
<1>4. CASE e = i
  <2>1. Hits(g, i) = Hits(q, i) \cup {m} /\ m \notin Hits(q, i)
    BY <1>1, <1>4 DEF Hits
  <2>2. Cardinality(Hits(q, i) \cup {m}) = Cardinality(Hits(q, i)) + 1
    BY <1>2, <2>1, FS_AddElement
  <2> QED BY <1>3, <1>4, <2>1, <2>2 DEF Count, Bit, g
<1>5. CASE e # i
  <2>1. Hits(g, i) = Hits(q, i)
    BY <1>1, <1>5 DEF Hits
  <2> QED BY <1>3, <1>5, <2>1 DEF Count, Bit, g
<1> QED BY <1>3, <1>4, <1>5

\* The first value taken out.
LEMMA CountTail ==
  ASSUME NEW q \in Seq(Nat), q # <<>>, NEW i
  PROVE  Count(q, i) = Count(Tail(q), i) + Bit(Head(q) = i) /\ Count(Tail(q), i) \in Nat
<1> DEFINE t == Tail(q)
           T == Hits(t, i)
           R == Hits(q, i) \ {1}
           shift == [n \in T |-> n + 1]
<1>1. /\ Len(q) \in Nat \ {0} /\ Head(q) = q[1] /\ DOMAIN q = 1 .. Len(q)
      /\ t \in Seq(Nat) /\ Len(t) = Len(q) - 1 /\ DOMAIN t = 1 .. Len(t)
      /\ \A n \in 1 .. Len(t) : t[n] = q[n + 1]
  BY EmptySeq, HeadTailProperties
<1>2. IsFiniteSet(Hits(q, i)) /\ IsFiniteSet(T)
  BY <1>1, HitsFinite
<1> HIDE DEF t
<1>3. shift \in Bijection(T, R)
  <2>1. \A n \in T : n + 1 \in R
    BY <1>1 DEF Hits
  <2>2. \A k \in R : k - 1 \in T /\ (k - 1) + 1 = k
    BY <1>1 DEF Hits
  <2>3. \A n \in T : n \in Nat
    BY <1>1 DEF Hits
  <2>4. shift \in [T -> R] /\ \A a, b \in T : shift[a] = shift[b] => a = b
    BY <2>1, <2>3
  <2>5. \A k \in R : \E n \in T : shift[n] = k
    BY <2>2
  <2> QED BY <2>4, <2>5 DEF Bijection, Injection, IsInjective, Surjection
<1>4. Cardinality(R) = Cardinality(T)
  BY <1>2, <1>3, FS_Bijection DEF ExistsBijection
<1>5. Cardinality(R) = Count(q, i) - Bit(Head(q) = i)
  <2>1. 1 \in Hits(q, i) <=> Head(q) = i
    BY <1>1 DEF Hits
  <2>2. Cardinality(Hits(q, i)) \in Nat
    BY <1>2, FS_CardinalityType
  <2>3. Cardinality(R) = IF 1 \in Hits(q, i) THEN Count(q, i) - 1 ELSE Count(q, i)
    BY <1>2, FS_RemoveElement DEF Count
  <2> QED BY <2>1, <2>2, <2>3 DEF Count, Bit
<1>6. Count(q, i) \in Nat /\ Count(t, i) \in Nat /\ Count(t, i) = Cardinality(T)
  BY <1>2, FS_CardinalityType DEF Count
<1> QED BY <1>4, <1>5, <1>6 DEF Bit, t

\* What is there is counted.
LEMMA CountPositive ==
  ASSUME NEW q \in Seq(Nat), NEW i
  PROVE  /\ Count(q, i) \in Nat /\ (Count(q, i) = 0 <=> i \notin {q[n] : n \in DOMAIN q})
         /\ Count(<<>>, i) = 0
<1>1. IsFiniteSet(Hits(q, i))
  BY HitsFinite
<1>2. Count(q, i) = 0 <=> Hits(q, i) = {}
  BY <1>1, FS_EmptySet DEF Count
<1>3. Count(<<>>, i) = 0
  BY FS_EmptySet DEF Count, Hits
<1> QED BY <1>1, <1>2, <1>3, FS_CardinalityType DEF Count, Hits
-----------------------------------------------------------------------------
(* Threads and hands                                                       *)

\* The worker is there only between a start and the join of the next stop.
Control ==
  /\ life \in {"run", "spawn", "purge", "close"} => w = "off"
  /\ life = "idle" /\ status # "RUNNING" => w = "off"
  /\ life = "spawn" => status = "RUNNING"

LEMMA ControlInductive ==
  ASSUME Control, [Next]_vars
  PROVE  Control'
<1> USE DEF Control
<1>1. CASE Worker
  <2>1. UNCHANGED lifetime
    BY <1>1, Zenon DEF Worker, WorkerTop, WorkerTimeout, WorkerGet, WorkerCheck,
       WorkerPublish, WorkerStore
  <2>2. w # "off"
    BY <1>1 DEF Worker, WorkerStep, WorkerTop, WorkerTimeout, WorkerGet, WorkerCheck,
       WorkerPublish, WorkerStore
  <2> QED BY <2>1, <2>2 DEF lifetime
<1>2. CASE StartRegister \/ StartRun \/ StopUnregister \/ StopFlag \/ ShutdownDone
  <2>1. UNCHANGED w
    BY <1>2 DEF StartRegister, StartRun, StopUnregister, StopFlag, ShutdownDone, worker
  <2> QED BY <1>2, <2>1 DEF StartRegister, StartRun, StopUnregister, StopFlag, ShutdownDone
<1>3. CASE StartSpawn
  BY <1>3 DEF StartSpawn
<1>4. CASE StopJoin \/ StopPurge
  BY <1>4 DEF StopJoin, StopPurge, worker
<1>5. CASE \/ SensorDispatch \/ SensorCheck \/ Sample \/ IntervalElapses
           \/ Anomaly \/ Replay \/ ForceUpload \/ (\E c \in Callers : Caller(c)) \/ UNCHANGED vars
  <2>1. UNCHANGED <<status, life, w>>
    BY <1>5 DEF SensorDispatch, SensorCheck, Sample, IntervalElapses, Anomaly, Replay,
       ForceUpload, Caller, Enqueue, QueueFull, Fallback, lifetime, worker, vars
  <2> QED BY <2>1
<1> QED BY <1>1, <1>2, <1>3, <1>4, <1>5 DEF Next, Lifecycle

\* No start makes a second worker, for any depth of the queue.
THEOREM AlwaysOneWorker == Spec => []OneWorker
<1>1. Init => Control
  BY DEF Init, Control
<1>2. Control /\ [Next]_vars => Control'
  BY ControlInductive
<1>3. Control => OneWorker
  BY DEF Control, OneWorker
<1> QED BY <1>1, <1>2, <1>3, PTL DEF Spec

\* Who is idle holds nothing.
Hands ==
  /\ queue \in Seq(Nat) /\ held \in [Callers -> Nat] /\ DOMAIN at = Callers
  /\ last \in Nat /\ item \in Nat /\ nextItem \in Nat \ {0}
  /\ pending \in BOOLEAN /\ elapsed \in BOOLEAN
  /\ stopped \in Nat /\ stopped < nextItem
  /\ \A c \in Callers : at[c] = "idle" => held[c] = None
  /\ w \in {"off", "top", "get"} => item = None

\* The steps that touch the queue.
LEMMA QueueSteps ==
  ASSUME [Next]_vars
  PROVE  UNCHANGED queue \/ (\E c \in Callers : Enqueue(c)) \/ WorkerGet \/ StopPurge
<1>1. \/ SensorDispatch \/ SensorCheck \/ Sample \/ IntervalElapses \/ Anomaly \/ Replay
      \/ ForceUpload \/ UNCHANGED vars
      => UNCHANGED queue
  BY DEF SensorDispatch, SensorCheck, Sample, IntervalElapses, Anomaly, Replay, ForceUpload, vars
<1>2. (\E c \in Callers : Caller(c)) => UNCHANGED queue \/ \E c \in Callers : Enqueue(c)
  BY DEF Caller, QueueFull, Fallback
<1>3. Worker => UNCHANGED queue \/ WorkerGet
  BY DEF Worker, WorkerTop, WorkerTimeout, WorkerCheck, WorkerPublish, WorkerStore
<1>4. Lifecycle => UNCHANGED queue \/ StopPurge
  BY DEF Lifecycle, StartRegister, StartRun, StartSpawn, StopUnregister, StopFlag, StopJoin,
     ShutdownDone
<1> QED BY <1>1, <1>2, <1>3, <1>4 DEF Next

\* The queue takes what a caller puts in, gives its head, or is purged.
LEMMA QueueTyped ==
  ASSUME Hands, [Next]_vars
  PROVE  queue' \in Seq(Nat)
<1>1. CASE \E c \in Callers : Enqueue(c)
  <2> PICK c \in Callers : Enqueue(c)
    BY <1>1
  <2>1. held[c] \in Nat /\ queue' = Append(queue, held[c]) /\ queue \in Seq(Nat)
    BY DEF Enqueue, Hands
  <2> QED BY <2>1
<1>2. CASE WorkerGet
  <2>1. queue # <<>> /\ queue' = Tail(queue) /\ queue \in Seq(Nat)
    BY <1>2 DEF WorkerGet, Hands
  <2> QED BY <2>1, HeadTailProperties
<1>3. CASE StopPurge
  BY <1>3, EmptySeq DEF StopPurge
<1>4. UNCHANGED queue \/ (\E c \in Callers : Enqueue(c)) \/ WorkerGet \/ StopPurge
  BY QueueSteps
<1> QED BY <1>1, <1>2, <1>3, <1>4 DEF Hands

LEMMA HandsInductive ==
  ASSUME Hands, Control, [Next]_vars
  PROVE  Hands'
<1>0. queue' \in Seq(Nat)
  BY QueueTyped
<1>1. CASE \/ SensorDispatch \/ SensorCheck \/ Sample \/ Anomaly \/ ForceUpload
           \/ (\E c \in Callers : Caller(c))
  <2> DEFINE Hand == /\ held' \in [Callers -> Nat] /\ DOMAIN at' = Callers
                     /\ \A c \in Callers : at'[c] = "idle" => held'[c] = None
             Rest == UNCHANGED <<item, w, stopped>>
  <2>1. CASE SensorDispatch \/ Anomaly
    <3>1. Hand
      BY <2>1 DEF SensorDispatch, Anomaly, Move, Produce, Take, Hands, Callers
    <3>2. nextItem' = nextItem + 1 /\ UNCHANGED <<last, pending, elapsed, item, w, stopped>>
      BY <2>1 DEF SensorDispatch, Anomaly, Produce, sampling, worker, lifetime
    <3> QED BY <1>0, <3>1, <3>2 DEF Hands
  <2>2. CASE SensorCheck
    <3>1. Hand
      BY <2>2 DEF SensorCheck, Move, Take, Hands, Callers, None
    <3>2. UNCHANGED <<last, pending, elapsed, item, w, stopped, nextItem>>
      BY <2>2 DEF SensorCheck, sampling, worker, lifetime
    <3> QED BY <1>0, <3>1, <3>2 DEF Hands
  <2>3. CASE Sample
    <3>1. Hand
      BY <2>3 DEF Sample, Move, Take, Hands, Callers, None
    <3>2. /\ last' = held["bus"] /\ pending' = ~elapsed /\ elapsed' = FALSE
          /\ UNCHANGED <<item, w, stopped, nextItem>>
      BY <2>3 DEF Sample, worker, lifetime
    <3>3. last' \in Nat
      BY <3>2 DEF Hands, Callers
    <3>4. pending' \in BOOLEAN /\ elapsed' \in BOOLEAN
      BY <3>2, Zenon DEF Hands
    <3> QED BY <1>0, <3>1, <3>2, <3>3, <3>4 DEF Hands
  <2>4. CASE ForceUpload
    <3>1. Hand
      <4>1. Move("shell", "idle", "put") /\ Take("shell", last)
        BY <2>4, Zenon DEF ForceUpload
      <4> QED BY <4>1 DEF Move, Take, Hands, Callers, None
    <3>2. pending' = FALSE /\ UNCHANGED <<last, elapsed, item, w, stopped, nextItem>>
      BY <2>4, Zenon DEF ForceUpload, worker, lifetime
    <3> QED BY <1>0, <3>1, <3>2 DEF Hands
  <2>5. ASSUME NEW c \in Callers, Caller(c) PROVE Hands'
    <3>1. Hand
      <4>1. \/ \E s \in {"put", "fallback"} : Move(c, s, "idle") /\ Take(c, None)
            \/ Move(c, "put", "fallback") /\ UNCHANGED held
        BY <2>5, Zenon DEF Caller, Enqueue, QueueFull, Fallback
      <4> QED BY <2>5, <4>1 DEF Move, Take, Hands, None
    <3>2. UNCHANGED <<last, pending, elapsed, item, w, stopped, nextItem>>
      BY <2>5 DEF Caller, Enqueue, QueueFull, Fallback, sampling, worker, lifetime
    <3> QED BY <1>0, <3>1, <3>2 DEF Hands
  <2> QED BY <1>1, <2>1, <2>2, <2>3, <2>4, <2>5
<1>2. CASE Worker
  <2>1. UNCHANGED <<sampling, callers, nextItem, stopped>>
    BY <1>2 DEF Worker, WorkerTop, WorkerTimeout, WorkerGet, WorkerCheck, WorkerPublish,
       WorkerStore, lifetime, callers
  <2>2. item' \in Nat /\ (w' \in {"off", "top", "get"} => item' = None)
    <3>1. CASE WorkerGet
      <4>1. queue # <<>> /\ item' = Head(queue) /\ w' = "check"
        BY <3>1 DEF WorkerGet, WorkerStep
      <4> QED BY <4>1, HeadTailProperties DEF Hands
    <3>2. CASE WorkerTop \/ WorkerTimeout \/ WorkerCheck \/ WorkerPublish \/ WorkerStore
      BY <3>2 DEF WorkerTop, WorkerTimeout, WorkerCheck, WorkerPublish, WorkerStore,
         WorkerStep, Hands, None
    <3> QED BY <1>2, <3>1, <3>2 DEF Worker
  <2> QED BY <1>0, <2>1, <2>2 DEF Hands, sampling, callers
<1>3. CASE Lifecycle
  <2>1. UNCHANGED <<last, pending, callers, nextItem, item>>
    BY <1>3 DEF Lifecycle, StartRegister, StartRun, StartSpawn, StopUnregister, StopFlag,
       StopJoin, StopPurge, ShutdownDone, data, sampling, callers, worker
  <2>2. (w' = w \/ w = "off") /\ elapsed' \in {elapsed, FALSE}
        /\ stopped' \in {stopped, nextItem - 1}
    BY <1>3 DEF Lifecycle, StartRegister, StartRun, StartSpawn, StopUnregister, StopFlag,
       StopJoin, StopPurge, ShutdownDone, data, sampling, worker, Control
  <2>3. elapsed' \in BOOLEAN
    BY <2>2, Zenon DEF Hands
  <2> QED BY <1>0, <2>1, <2>2, <2>3 DEF Hands, callers
<1>4. CASE IntervalElapses \/ Replay \/ UNCHANGED vars
  <2>1. UNCHANGED <<last, pending, callers, nextItem, item, w, stopped>>
    BY <1>4 DEF IntervalElapses, Replay, vars, sampling, callers, worker, lifetime
  <2>2. elapsed' = TRUE \/ UNCHANGED elapsed
    BY <1>4 DEF IntervalElapses, Replay, vars, sampling
  <2>3. elapsed' \in BOOLEAN
    BY <2>2, Zenon DEF Hands
  <2> QED BY <1>0, <2>1, <2>3 DEF Hands, callers
<1> QED BY <1>1, <1>2, <1>3, <1>4 DEF Next
-----------------------------------------------------------------------------
(* The way of an item                                                      *)

\* Taking one item out of the queue leaves no more of it in hands, queued or pending.
LEMMA Fewer ==
  ASSUME NEW h \in Nat, NEW q \in Nat, NEW p \in Nat, NEW l \in {0, 1}, NEW d \in {0, 1},
         q = p + d
  PROVE  h + p + l <= h + q + l /\ h + p + l \in Int
OBVIOUS

\* Where an item may be: in hands, queued, with the worker, pending, or ended.
LEMMA PlacesOf ==
  ASSUME NEW h, NEW i, DOMAIN h = Callers
  PROVE  {c \in Callers : h[c] = i} = Hits(h, i)
BY DEF Hits

\* An item is in one place once it is produced, in none before.
Once(i) == Places(i) = Bit(i < nextItem)

\* What a stop has left is what a caller held or FORCE could still take.
Left(i) ==
  i <= stopped /\ Count(held, i) + Count(queue, i) + Bit(pending /\ last = i) > 0
    => i \in onTheWay

\* A caller's hand changes by what it takes and what it lets go.
LEMMA Handed ==
  ASSUME Hands, NEW c \in Callers, NEW v, NEW i
  PROVE  /\ Count(held, i) \in Nat
         /\ Count(held, i) - Bit(held[c] = i) \in Nat
         /\ Take(c, v) => Count(held', i) = Count(held, i) - Bit(held[c] = i) + Bit(v = i)
<1>1. IsFiniteSet(Callers)
  <2>1. Callers = (({} \cup {"bus"}) \cup {"disp"}) \cup {"shell"}
    BY DEF Callers
  <2> QED BY <2>1, FS_EmptySet, FS_AddElement
<1>2. IsFiniteSet(DOMAIN held) /\ c \in DOMAIN held
  BY <1>1 DEF Hands
<1>3. /\ Count(held, i) \in Nat
      /\ Count([held EXCEPT ![c] = v], i) = Count(held, i) - Bit(held[c] = i) + Bit(v = i)
  BY <1>2, CountExcept
<1>4. Count(held, i) - Bit(held[c] = i) \in Nat
  <2>1. CASE held[c] = i
    <3>1. c \in Hits(held, i) /\ Hits(held, i) \in SUBSET Callers
      BY <1>2, <2>1 DEF Hits, Hands
    <3>2. Count(held, i) # 0
      BY <1>1, <3>1, FS_Subset, FS_EmptySet DEF Count
    <3> QED BY <1>3, <2>1, <3>2 DEF Bit
  <2>2. CASE held[c] # i
    BY <1>3, <2>2 DEF Bit
  <2> QED BY <2>1, <2>2
<1> QED BY <1>3, <1>4 DEF Take

LEMMA ItemInductive ==
  ASSUME Hands, Hands', Control, NEW i \in Nat \ {0}, Once(i), Left(i), [Next]_vars
  PROVE  Once(i)' /\ Left(i)'
<1> DEFINE H == Count(held, i)
           Q == Count(queue, i)
           I == Bit(item = i)
           L == Bit(pending /\ last = i)
           U == Bit(i \in uploaded)
           C == Bit(i \in cached)
           G == Bit(i \in givenUp)
<1>0. /\ H \in Nat /\ Q \in Nat /\ I \in {0, 1} /\ L \in {0, 1}
      /\ U \in {0, 1} /\ C \in {0, 1} /\ G \in {0, 1}
  <2>1. H \in Nat
    BY Handed DEF Callers
  <2>2. Q \in Nat
    BY HitsFinite DEF Hands
  <2> QED BY <2>1, <2>2, BitType
<1>1. H + Q + I + L + U + C + G = Bit(i < nextItem)
  <2>1. {c \in Callers : held[c] = i} = Hits(held, i)
    BY PlacesOf DEF Hands
  <2> QED BY <2>1, Zenon DEF Once, Places, Count, Hits, Bit
<1>2. Once(i)' <=> H' + Q' + I' + L' + U' + C' + G' = Bit(i < nextItem')
  <2>1. {c \in Callers : held'[c] = i} = Hits(held', i)
    BY PlacesOf DEF Hands
  <2> QED BY <2>1, Zenon DEF Once, Places, Count, Hits, Bit
<1>3. Left(i)' <=> (i <= stopped' /\ H' + Q' + L' > 0 => i \in onTheWay')
  BY DEF Left
<1>4. i <= stopped /\ H + Q + L > 0 => i \in onTheWay
  BY DEF Left
<1>5. Bit(None = i) = 0
  BY DEF Bit, None
<1> HIDE DEF H, Q, I, L, U, C, G
\* an item or its absence is produced into an empty hand
<1>6. ASSUME NEW c \in Callers, Move(c, "idle", "check") \/ Move(c, "idle", "put"), Produce(c),
             UNCHANGED <<lifetime, queue, sampling, worker, uploaded, cached, givenUp>>
      PROVE  Once(i)' /\ Left(i)'
  <2>1. H' = H + Bit(nextItem = i)
    <3>1. held[c] = None /\ Take(c, nextItem)
      BY <1>6 DEF Move, Produce, Hands
    <3>2. Count(held', i) = Count(held, i) - Bit(held[c] = i) + Bit(nextItem = i)
      BY <3>1, Handed
    <3> QED BY <1>0, <1>5, <3>1, <3>2, BitType DEF H
  <2>2. /\ Q' = Q /\ I' = I /\ L' = L /\ U' = U /\ C' = C /\ G' = G
        /\ UNCHANGED <<stopped, onTheWay>>
    BY <1>6 DEF Q, I, L, U, C, G, lifetime, sampling, worker
  <2>3. nextItem' = nextItem + 1
    BY <1>6 DEF Produce
  <2>4. nextItem \in Nat /\ stopped \in Nat /\ stopped < nextItem
    BY DEF Hands
  <2> QED BY <1>0, <1>1, <1>2, <1>3, <1>4, <2>1, <2>2, <2>3, <2>4 DEF Bit
\* it moves from one place to another, or to its end
<1>7. ASSUME UNCHANGED <<nextItem, stopped, onTheWay>>,
             H' + Q' + I' + L' + U' + C' + G' = H + Q + I + L + U + C + G,
             H' + Q' + L' <= H + Q + L, H' + Q' + L' \in Int
      PROVE  Once(i)' /\ Left(i)'
  BY <1>0, <1>1, <1>2, <1>3, <1>4, <1>7
<1>8. H + Q + I + L + U + C + G <= 1
  BY <1>1 DEF Bit
<1>9. ASSUME UNCHANGED <<queue, sampling, callers, item, uploaded, cached, givenUp>>
      PROVE  H' = H /\ Q' = Q /\ I' = I /\ L' = L /\ U' = U /\ C' = C /\ G' = G
  BY <1>9 DEF H, Q, I, L, U, C, G, sampling, callers
<1>10. CASE SensorDispatch \/ Anomaly
  <2>1. ASSUME SensorDispatch PROVE Once(i)' /\ Left(i)'
    <3>1. Move("bus", "idle", "check") /\ Produce("bus") /\ "bus" \in Callers
      BY <2>1 DEF SensorDispatch, Callers
    <3> QED BY <1>6, <2>1, <3>1 DEF SensorDispatch
  <2>2. ASSUME Anomaly PROVE Once(i)' /\ Left(i)'
    <3>1. Move("disp", "idle", "put") /\ Produce("disp") /\ "disp" \in Callers
      BY <2>2 DEF Anomaly, Callers
    <3> QED BY <1>6, <2>2, <3>1 DEF Anomaly
  <2> QED BY <1>10, <2>1, <2>2
<1>11. CASE SensorCheck
  <2>1. /\ UNCHANGED <<queue, sampling, worker, nextItem, uploaded, cached, stopped, onTheWay>>
        /\ \/ UNCHANGED <<held, givenUp>>
           \/ Take("bus", None) /\ givenUp' = givenUp \cup {held["bus"]}
    BY <1>11 DEF SensorCheck, lifetime
  <2>2. Q' = Q /\ I' = I /\ L' = L /\ U' = U /\ C' = C
    BY <2>1 DEF Q, I, L, U, C, sampling, worker
  <2>3. CASE UNCHANGED <<held, givenUp>>
    <3>1. H' = H /\ G' = G
      BY <2>3 DEF H, G
    <3> QED BY <1>0, <1>7, <2>1, <2>2, <3>1
  <2>4. CASE Take("bus", None) /\ givenUp' = givenUp \cup {held["bus"]}
    <3> DEFINE b == Bit(held["bus"] = i)
    <3>1. H' = H - b /\ H - b \in Nat
      <4>1. "bus" \in Callers /\ Take("bus", None)
        BY <2>4 DEF Callers
      <4>2. Count(held', i) = Count(held, i) - b + Bit(None = i) /\ Count(held, i) - b \in Nat
        BY <4>1, Handed
      <4> QED BY <1>0, <1>5, <4>2 DEF H
    <3>2. b \in {0, 1}
      BY BitType
    <3>3. G' = G + b
      <4>1. G + b <= 1
        <5> HIDE DEF b
        <5> QED BY <1>0, <1>8, <3>1, <3>2
      <4>2. Bit(i \in givenUp \cup {held["bus"]}) = Bit(i \in givenUp) + b
        BY <4>1 DEF G, Bit
      <4> QED BY <2>4, <4>2 DEF G
    <3> HIDE DEF b
    <3> QED BY <1>0, <1>7, <2>1, <2>2, <3>1, <3>2, <3>3
  <2> QED BY <2>1, <2>3, <2>4
<1>12. CASE Sample
  <2>1. /\ last' = held["bus"] /\ pending' = ~elapsed
        /\ givenUp' = givenUp \cup Superseded
        /\ elapsed => UNCHANGED held
        /\ ~elapsed => Take("bus", None)
        /\ UNCHANGED <<queue, worker, nextItem, uploaded, cached, stopped, onTheWay>>
    BY <1>12, Zenon DEF Sample, lifetime
  <2>2. Q' = Q /\ I' = I /\ U' = U /\ C' = C
    BY <2>1 DEF Q, I, U, C, worker
  <2>3. G' = G + L
    <3>1. i \in Superseded <=> pending /\ last = i
      BY DEF Superseded
    <3>2. G + L <= 1
      BY <1>0, <1>8
    <3>3. G' = Bit(i \in givenUp \/ (pending /\ last = i))
      BY <2>1, <3>1 DEF G
    <3> QED BY <3>2, <3>3 DEF Bit, G, L
  <2> DEFINE b == Bit(held["bus"] = i)
  <2>4. b \in {0, 1}
    BY BitType
  <2>5. CASE elapsed
    <3>1. H' = H
      BY <2>1, <2>5 DEF H
    <3>2. L' = 0
      BY <2>1, <2>5 DEF L, Bit
    <3> QED BY <1>0, <1>7, <2>1, <2>2, <2>3, <3>1, <3>2
  <2>6. CASE ~elapsed
    <3>1. H' = H - b /\ H - b \in Nat
      BY <1>0, <1>5, <2>1, <2>6, Handed DEF H, Callers
    <3>2. L' = b
      BY <2>1, <2>6 DEF L, Bit
    <3> HIDE DEF b
    <3> QED BY <1>0, <1>7, <2>1, <2>2, <2>3, <2>4, <3>1, <3>2
  <2> QED BY <2>5, <2>6
<1>13. CASE ForceUpload
  <2>1. /\ pending /\ pending' = FALSE /\ Move("shell", "idle", "put") /\ Take("shell", last)
        /\ UNCHANGED <<queue, last, worker, nextItem, uploaded, cached, givenUp, stopped,
                       onTheWay>>
    BY <1>13, Zenon DEF ForceUpload, lifetime
  <2>2. Q' = Q /\ I' = I /\ U' = U /\ C' = C /\ G' = G
    BY <2>1 DEF Q, I, U, C, G, worker
  <2>3. L' = 0 /\ L = Bit(last = i)
    BY <2>1 DEF L, Bit
  <2>4. H' = H + L
    <3>1. held["shell"] = None /\ "shell" \in Callers
      BY <2>1 DEF Move, Hands, Callers
    <3>2. Count(held', i) = Count(held, i) - Bit(held["shell"] = i) + Bit(last = i)
      BY <2>1, <3>1, Handed
    <3> QED BY <1>0, <1>5, <2>3, <3>1, <3>2 DEF H
  <2> QED BY <1>0, <1>7, <2>1, <2>2, <2>3, <2>4
<1>14. ASSUME NEW c \in Callers, Caller(c) PROVE Once(i)' /\ Left(i)'
  <2> DEFINE b == Bit(held[c] = i)
  <2>1. b \in {0, 1}
    BY BitType
  <2>2. UNCHANGED <<nextItem, stopped, onTheWay>> /\ UNCHANGED <<sampling, worker, uploaded>>
    BY <1>14 DEF Caller, Enqueue, QueueFull, Fallback, lifetime
  <2>3. I' = I /\ L' = L /\ U' = U
    BY <2>2 DEF I, L, U, sampling, worker
  <2>4. Take(c, None) => H' = H - b /\ H - b \in Nat
    BY <1>0, <1>5, Handed DEF H
  <2>5. CASE Enqueue(c)
    <3>1. Take(c, None) /\ queue' = Append(queue, held[c]) /\ UNCHANGED <<cached, givenUp>>
      BY <2>5 DEF Enqueue
    <3>2. Q' = Q + b
      BY <3>1, CountAppend DEF Q, Hands
    <3>3. C' = C /\ G' = G
      BY <3>1 DEF C, G
    <3> HIDE DEF b
    <3> QED BY <1>0, <1>7, <2>1, <2>2, <2>3, <2>4, <3>1, <3>2, <3>3
  <2>6. CASE QueueFull(c)
    <3>1. H' = H /\ Q' = Q /\ C' = C /\ G' = G
      BY <2>6 DEF QueueFull, H, Q, C, G
    <3> QED BY <1>0, <1>7, <2>2, <2>3, <3>1
  <2>7. CASE Fallback(c)
    <3>1. /\ Take(c, None) /\ UNCHANGED queue
          /\ \/ cached' = cached \cup {held[c]} /\ UNCHANGED givenUp
             \/ givenUp' = givenUp \cup {held[c]} /\ UNCHANGED cached
      BY <2>7, Zenon DEF Fallback, HandleOffline
    <3>2. Q' = Q
      BY <3>1 DEF Q
    <3>3. (C' = C + b /\ G' = G) \/ (C' = C /\ G' = G + b)
      <4>1. C + b <= 1 /\ G + b <= 1
        <5> HIDE DEF b
        <5> QED BY <1>0, <1>8, <2>1, <2>4, <3>1
      <4>2. /\ Bit(i \in cached \cup {held[c]}) = Bit(i \in cached) + b
            /\ Bit(i \in givenUp \cup {held[c]}) = Bit(i \in givenUp) + b
        BY <4>1 DEF C, G, Bit
      <4> QED BY <3>1, <4>2, Zenon DEF C, G
    <3> HIDE DEF b
    <3> QED BY <1>0, <1>7, <2>1, <2>2, <2>3, <2>4, <3>1, <3>2, <3>3
  <2> QED BY <1>14, <2>5, <2>6, <2>7 DEF Caller
<1>15. CASE Worker
  <2>1. UNCHANGED <<sampling, callers, nextItem, stopped, onTheWay>>
    BY <1>15 DEF Worker, WorkerTop, WorkerTimeout, WorkerGet, WorkerCheck, WorkerPublish,
       WorkerStore, lifetime, callers
  <2>2. H' = H /\ L' = L
    BY <2>1 DEF H, L, sampling, callers
  <2>3. CASE WorkerGet
    <3>1. /\ item = None /\ queue # <<>> /\ item' = Head(queue) /\ queue' = Tail(queue)
          /\ UNCHANGED <<uploaded, cached, givenUp>>
      BY <2>3 DEF WorkerGet, WorkerStep, Hands
    <3>2. Q = Q' + I' /\ Q' \in Nat
      BY <3>1, CountTail DEF Q, I, Hands
    <3>3. I = 0 /\ I' \in {0, 1}
      BY <1>5, <3>1, BitType DEF I
    <3>4. U' = U /\ C' = C /\ G' = G
      BY <3>1 DEF U, C, G
    <3>5. /\ H' + Q' + I' + L' + U' + C' + G' = H + Q + I + L + U + C + G
          /\ H' + Q' + L' <= H + Q + L /\ H' + Q' + L' \in Int
      <4>1. /\ H' = H /\ L' = L /\ Q = Q' + I' /\ Q' \in Nat /\ I = 0 /\ I' \in {0, 1}
            /\ U' = U /\ C' = C /\ G' = G
        BY <2>2, <3>2, <3>3, <3>4
      <4>2. H' + Q' + I' = H + Q + I
        BY <1>0, <4>1
      <4>3. H' + Q' + L' <= H + Q + L /\ H' + Q' + L' \in Int
        <5>1. /\ H \in Nat /\ Q \in Nat /\ Q' \in Nat /\ L \in {0, 1} /\ I' \in {0, 1}
              /\ Q = Q' + I'
          BY <1>0, <4>1
        <5>2. H + Q' + L <= H + Q + L /\ H + Q' + L \in Int
          BY <5>1, Fewer
        <5> QED BY <4>1, <5>2
      <4> QED BY <4>1, <4>2, <4>3
    <3> QED BY <1>7, <2>1, <3>5
  <2>4. CASE UNCHANGED <<queue, item, uploaded, cached, givenUp>>
    BY <1>0, <1>7, <1>9, <2>1, <2>4
  <2>5. CASE /\ item' = None /\ UNCHANGED queue
             /\ \/ givenUp' = givenUp \cup {item} /\ UNCHANGED <<uploaded, cached>>
                \/ cached' = cached \cup {item} /\ UNCHANGED <<uploaded, givenUp>>
                \/ uploaded' = uploaded \cup {item} /\ UNCHANGED <<cached, givenUp>>
    <3>1. I' = 0 /\ Q' = Q
      BY <1>5, <2>5 DEF I, Q
    <3>2. \/ G' = G + I /\ C' = C /\ U' = U
          \/ C' = C + I /\ G' = G /\ U' = U
          \/ U' = U + I /\ C' = C /\ G' = G
      <4>1. G + I <= 1 /\ C + I <= 1 /\ U + I <= 1
        BY <1>0, <1>8
      <4>2. /\ Bit(i \in givenUp \cup {item}) = Bit(i \in givenUp) + I
            /\ Bit(i \in cached \cup {item}) = Bit(i \in cached) + I
            /\ Bit(i \in uploaded \cup {item}) = Bit(i \in uploaded) + I
        BY <4>1 DEF G, C, U, I, Bit
      <4> QED BY <2>5, <4>2, Zenon DEF G, C, U
    <3> QED BY <1>0, <1>7, <2>1, <2>2, <3>1, <3>2
  <2>6. CASE WorkerTop \/ WorkerTimeout \/ WorkerCheck \/ WorkerPublish \/ WorkerStore
    BY <2>4, <2>5, <2>6 DEF WorkerTop, WorkerTimeout, WorkerCheck, WorkerPublish,
       WorkerStore, HandleOffline
  <2> QED BY <1>15, <2>3, <2>6 DEF Worker
<1>16. CASE StopPurge
  <2>1. /\ queue' = <<>> /\ givenUp' = givenUp \cup Queued /\ stopped' = nextItem - 1
        /\ onTheWay' = InHands \cup Superseded
        /\ UNCHANGED <<sampling, callers, nextItem, item, uploaded, cached>>
    BY <1>16 DEF StopPurge, data, worker, callers, sampling
  <2>2. H' = H /\ I' = I /\ L' = L /\ U' = U /\ C' = C
    BY <2>1 DEF H, I, L, U, C, sampling, callers
  <2>3. Q' = 0 /\ (Q = 0 <=> i \notin Queued)
    BY <2>1, CountPositive DEF Q, Queued, Hands
  <2>4. G' = G + Q
    <3>1. G' = Bit(i \in givenUp \/ i \in Queued)
      BY <2>1 DEF G
    <3>2. G + Q <= 1
      BY <1>0, <1>8
    <3> QED BY <1>0, <2>3, <3>1, <3>2 DEF G, Bit
  <2>5. H > 0 => i \in InHands
    <3>1. (\A c \in Callers : held[c] # i) => H = 0
      BY FS_EmptySet DEF H, Count, Hits, Hands
    <3> QED BY <1>0, <3>1 DEF InHands, None
  <2>6. L > 0 => i \in Superseded
    BY DEF L, Bit, Superseded
  <2>7. Once(i)'
    BY <1>0, <1>1, <1>2, <2>1, <2>2, <2>3, <2>4
  <2>8. Left(i)'
    BY <1>0, <1>3, <2>1, <2>2, <2>3, <2>5, <2>6
  <2> QED BY <2>7, <2>8
<1>17. CASE \/ StartRegister \/ StartRun \/ StartSpawn \/ StopUnregister \/ StopFlag
            \/ StopJoin \/ ShutdownDone
  <2>1. UNCHANGED <<queue, last, pending, callers, item, uploaded, cached, givenUp>>
        /\ UNCHANGED <<nextItem, stopped, onTheWay>>
    BY <1>17 DEF StartRegister, StartRun, StartSpawn, StopUnregister, StopFlag, StopJoin,
       ShutdownDone, data, worker, sampling
  <2>2. H' = H /\ Q' = Q /\ I' = I /\ L' = L /\ U' = U /\ C' = C /\ G' = G
    BY <2>1 DEF H, Q, I, L, U, C, G, callers
  <2> QED BY <1>0, <1>7, <2>1, <2>2
<1>18. CASE IntervalElapses \/ Replay \/ UNCHANGED vars
  <2>1. UNCHANGED <<queue, last, pending, callers, item, uploaded, cached, givenUp>>
        /\ UNCHANGED <<nextItem, stopped, onTheWay>>
    BY <1>18 DEF IntervalElapses, Replay, vars, callers, worker, sampling, lifetime
  <2>2. H' = H /\ Q' = Q /\ I' = I /\ L' = L /\ U' = U /\ C' = C /\ G' = G
    BY <2>1 DEF H, Q, I, L, U, C, G, callers
  <2> QED BY <1>0, <1>7, <2>1, <2>2
<1> QED
  BY <1>10, <1>11, <1>12, <1>13, <1>14, <1>15, <1>16, <1>17, <1>18 DEF Next, Lifecycle

\* The invariant of the two theorems: the threads and, for every item, its way.
Ways == Control /\ Hands /\ \A i \in Nat \ {0} : Once(i) /\ Left(i)

LEMMA WaysInitially == Init => Ways
<1> SUFFICES ASSUME Init PROVE Ways
  OBVIOUS
<1>1. Control
  BY DEF Init, Control
<1>2. Hands
  <2>1. queue \in Seq(Nat)
    BY EmptySeq DEF Init
  <2>2. held \in [Callers -> Nat] /\ DOMAIN at = Callers /\ \A c \in Callers : held[c] = None
    BY DEF Init, None
  <2>3. /\ last \in Nat /\ item \in Nat /\ nextItem \in Nat \ {0} /\ item = None
        /\ stopped \in Nat /\ stopped < nextItem
    BY DEF Init, None
  <2>4. pending \in BOOLEAN /\ elapsed \in BOOLEAN
    BY Zenon DEF Init
  <2> QED BY <2>1, <2>2, <2>3, <2>4 DEF Hands
<1>3. ASSUME NEW i \in Nat \ {0} PROVE Once(i) /\ Left(i)
  <2>1. {c \in Callers : held[c] = i} = {} /\ {n \in DOMAIN queue : queue[n] = i} = {}
    BY DEF Init, None
  <2>2. Cardinality({}) = 0
    BY FS_EmptySet
  <2>3. item # i /\ pending = FALSE /\ uploaded = {} /\ cached = {} /\ givenUp = {}
    BY DEF Init, None
  <2>4. Places(i) = 0
    BY <2>1, <2>2, <2>3 DEF Places
  <2>5. Bit(i < nextItem) = 0 /\ ~(i <= stopped)
    BY DEF Init, Bit
  <2> QED BY <2>4, <2>5 DEF Once, Left
<1> QED BY <1>1, <1>2, <1>3 DEF Ways

LEMMA WaysInductive == Ways /\ [Next]_vars => Ways'
<1> SUFFICES ASSUME Ways, [Next]_vars PROVE Ways'
  OBVIOUS
<1>1. Control' /\ Hands'
  BY ControlInductive, HandsInductive DEF Ways
<1>2. ASSUME NEW i \in Nat \ {0} PROVE Once(i)' /\ Left(i)'
  BY <1>1, ItemInductive DEF Ways
<1> QED BY <1>1, <1>2 DEF Ways

\* Every sample and anomaly is in one place or ended in one way (the queue, a
\* caller's or the worker's hands, a provider, the cache), for any depth of the
\* queue and any number of items: cloud_upload.c loses none and sends none twice.
THEOREM AlwaysHandledOnce == Spec => []HandledOnce
<1>1. Ways => HandledOnce
  <2> SUFFICES ASSUME Ways, NEW i \in 1 .. nextItem - 1 PROVE Places(i) = 1
    BY DEF HandledOnce
  <2>1. i \in Nat \ {0} /\ i < nextItem
    BY DEF Ways, Hands
  <2> QED BY <2>1 DEF Ways, Once, Bit
<1> QED BY <1>1, WaysInitially, WaysInductive, PTL DEF Spec

\* What is queued from before a stop was still in a caller's hands when stop
\* returned, or was the pending sample: the purge of stop leaves nothing else.
THEOREM AlwaysNoStaleData == Spec => []NoStaleData
<1>1. Ways => NoStaleData
  <2> SUFFICES ASSUME Ways, NEW i \in Queued, i \in 1 .. stopped PROVE i \in onTheWay
    BY DEF NoStaleData
  <2>1. i \in Nat \ {0} /\ i <= stopped /\ queue \in Seq(Nat)
    BY DEF Ways, Hands
  <2>2. Count(queue, i) \in Nat /\ Count(queue, i) # 0
    BY <2>1, CountPositive DEF Queued
  <2>3. Count(held, i) \in Nat
    BY Handed DEF Ways, Callers
  <2>4. Bit(pending /\ last = i) \in {0, 1}
    BY BitType
  <2> QED BY <2>1, <2>2, <2>3, <2>4 DEF Ways, Left
<1> QED BY <1>1, WaysInitially, WaysInductive, PTL DEF Spec

-----------------------------------------------------------------------------
(* Types                                                                   *)

\* Who is on the way with an item has one; so has a pending sample.
Filled ==
  /\ \A c \in Callers : at[c] # "idle" => held[c] # None
  /\ pending => last # None
  /\ w \in {"check", "publish", "store"} => item # None

\* Nothing is counted in that was not cached.
Counted == cachedCount <= Cardinality(cached)

\* The steps of the callers, and those of nobody's hands.
CallerStep ==
  \/ SensorDispatch \/ SensorCheck \/ Sample \/ Anomaly \/ ForceUpload
  \/ \E c \in Callers : Caller(c)
Quiet == IntervalElapses \/ Replay \/ UNCHANGED vars

\* Every step is of one of four kinds.
LEMMA StepKinds ==
  ASSUME [Next]_vars PROVE CallerStep \/ Worker \/ Lifecycle \/ Quiet
BY DEF Next, CallerStep, Quiet

\* The queue holds items, no more than its depth.
LEMMA QueueFits ==
  ASSUME TypeOK, Filled, [Next]_vars
  PROVE  queue' \in Seq(Items) /\ Len(queue') <= Depth
<1>0. queue \in Seq(Items) /\ Len(queue) \in Nat /\ Len(queue) <= Depth /\ Depth \in Nat
  BY LenProperties, UploadAssumption DEF TypeOK, DataOK
<1>1. CASE \E c \in Callers : Enqueue(c)
  <2> PICK c \in Callers : Enqueue(c)
    BY <1>1
  <2>1. at[c] # "idle" /\ Len(queue) < Depth /\ queue' = Append(queue, held[c])
    BY DEF Enqueue, Move
  <2>2. held[c] \in Items
    BY <2>1 DEF TypeOK, DataOK, Filled
  <2>3. queue' \in Seq(Items) /\ Len(queue') = Len(queue) + 1
    BY <1>0, <2>1, <2>2, AppendProperties
  <2> QED BY <1>0, <2>1, <2>3
<1>2. CASE WorkerGet
  <2>1. queue # <<>> /\ queue' = Tail(queue)
    BY <1>2 DEF WorkerGet
  <2>2. queue' \in Seq(Items) /\ Len(queue') = Len(queue) - 1
    BY <1>0, <2>1, HeadTailProperties
  <2> QED BY <1>0, <2>2
<1>3. CASE StopPurge
  <2>1. queue' = <<>>
    BY <1>3 DEF StopPurge
  <2> QED BY <1>0, <2>1, EmptySeq
<1>4. CASE UNCHANGED queue
  BY <1>0, <1>4
<1>5. UNCHANGED queue \/ (\E c \in Callers : Enqueue(c)) \/ WorkerGet \/ StopPurge
  BY QueueSteps
<1> QED BY <1>1, <1>2, <1>3, <1>4, <1>5


\* What a caller does with its hands: an item only while it is on the way.
Holds(h, p) ==
  /\ p \in [Callers -> {"idle", "check", "sample", "put", "fallback"}]
  /\ h \in [Callers -> Items \cup {None}]
  /\ \A c \in Callers : p[c] # "idle" => h[c] # None

\* A caller that moves on takes an item or is done.
LEMMA MovesHold ==
  ASSUME Holds(held, at), NEW c \in Callers, NEW from,
         NEW to \in {"idle", "check", "sample", "put", "fallback"},
         NEW v \in Items \cup {None}, to # "idle" => v # None, Move(c, from, to), Take(c, v)
  PROVE  Holds(held', at')
BY DEF Holds, Move, Take

\* The callers: what they hold, the sampling, and the number of the next item.
LEMMA CallersTyped ==
  ASSUME TypeOK, Filled, CallerStep
  PROVE  /\ Holds(held', at') /\ nextItem' \in 1 .. MaxItems + 1
         /\ last' \in Items \cup {None} /\ pending' \in BOOLEAN /\ elapsed' \in BOOLEAN
         /\ pending' => last' # None
<1>0. /\ Holds(held, at)
      /\ last \in Items \cup {None} /\ pending \in BOOLEAN /\ elapsed \in BOOLEAN
      /\ nextItem \in 1 .. MaxItems + 1 /\ MaxItems \in Nat
      /\ (pending => last # None) /\ None \notin Items
      /\ {"bus", "disp", "shell"} = Callers
  BY UploadAssumption DEF TypeOK, DataOK, ControlOK, Filled, Holds, None, Items, Callers
<1>1. CASE SensorDispatch \/ Anomaly
  <2>1. /\ nextItem <= MaxItems /\ nextItem' = nextItem + 1 /\ UNCHANGED sampling
        /\ \/ Move("bus", "idle", "check") /\ Take("bus", nextItem)
           \/ Move("disp", "idle", "put") /\ Take("disp", nextItem)
    BY <1>1 DEF SensorDispatch, Anomaly, Produce
  <2>2. nextItem \in Items
    BY <1>0, <2>1 DEF Items
  <2>3. nextItem # None
    BY <1>0, <2>2
  <2>4. Holds(held', at')
    BY <1>0, <2>1, <2>2, <2>3, MovesHold
  <2>5. nextItem' \in 1 .. MaxItems + 1
    BY <1>0, <2>1
  <2> QED BY <1>0, <2>1, <2>4, <2>5 DEF sampling
<1>2. CASE SensorCheck
  <2>1. /\ UNCHANGED sampling /\ nextItem' = nextItem
        /\ \/ Move("bus", "check", "sample") /\ UNCHANGED held
           \/ Move("bus", "check", "idle") /\ Take("bus", None)
    BY <1>2 DEF SensorCheck
  <2>2. Holds(held', at')
    BY <1>0, <2>1, MovesHold DEF Holds, Move
  <2> QED BY <1>0, <2>1, <2>2 DEF sampling
<1>3. CASE Sample
  <2>1. /\ last' = held["bus"] /\ elapsed' = FALSE /\ nextItem' = nextItem /\ at["bus"] = "sample"
        /\ \/ Move("bus", "sample", "put") /\ UNCHANGED held
           \/ Move("bus", "sample", "idle") /\ Take("bus", None)
    BY <1>3 DEF Sample, Move
  <2>2. pending' \in BOOLEAN /\ elapsed' \in BOOLEAN
    BY <1>0, <1>3, Zenon DEF Sample
  <2>3. held["bus"] \in Items \cup {None} /\ held["bus"] # None
    BY <1>0, <2>1 DEF Holds
  <2>4. Holds(held', at')
    BY <1>0, <2>1, MovesHold DEF Holds, Move
  <2> QED BY <1>0, <2>1, <2>2, <2>3, <2>4
<1>4. CASE ForceUpload
  <2>1. /\ pending /\ pending' = FALSE /\ UNCHANGED <<last, elapsed, nextItem>>
        /\ Move("shell", "idle", "put") /\ Take("shell", last)
    BY <1>4, Zenon DEF ForceUpload
  <2>2. Holds(held', at')
    BY <1>0, <2>1, MovesHold
  <2> QED BY <1>0, <2>1, <2>2
<1>5. ASSUME NEW c \in Callers, Caller(c)
      PROVE  Holds(held', at') /\ UNCHANGED <<sampling, nextItem>>
  <2>1. /\ UNCHANGED <<sampling, nextItem>>
        /\ \/ Move(c, "put", "idle") /\ Take(c, None)
           \/ Move(c, "put", "fallback") /\ UNCHANGED held
           \/ Move(c, "fallback", "idle") /\ Take(c, None)
    BY <1>5 DEF Caller, Enqueue, QueueFull, Fallback
  <2>2. CASE Move(c, "put", "fallback") /\ UNCHANGED held
    BY <1>0, <1>5, <2>1, <2>2 DEF Holds, Move
  <2>3. CASE \E s \in {"put", "fallback"} : Move(c, s, "idle") /\ Take(c, None)
    BY <1>0, <1>5, <2>1, <2>3, MovesHold
  <2> QED BY <2>1, <2>2, <2>3
<1> QED BY <1>0, <1>1, <1>2, <1>3, <1>4, <1>5 DEF CallerStep, sampling

\* The worker has an item while it checks, sends or stores it.
LEMMA WorkerTyped ==
  ASSUME TypeOK, Filled, Worker
  PROVE  /\ w' \in {"off", "top", "get", "check", "publish", "store"}
         /\ item' \in Items \cup {None}
         /\ w' \in {"check", "publish", "store"} => item' # None
<1>0. /\ item \in Items \cup {None} /\ queue \in Seq(Items) /\ None \notin Items
      /\ w \in {"check", "publish", "store"} => item # None
  BY DEF TypeOK, DataOK, Filled, None, Items
<1>1. CASE WorkerGet
  <2>1. queue # <<>> /\ item' = Head(queue) /\ w' = "check"
    BY <1>1 DEF WorkerGet, WorkerStep
  <2>2. item' \in Items
    BY <1>0, <2>1, HeadTailProperties
  <2> QED BY <1>0, <2>1, <2>2
<1>2. CASE WorkerTop \/ WorkerTimeout \/ WorkerCheck \/ WorkerPublish \/ WorkerStore
  BY <1>0, <1>2 DEF WorkerTop, WorkerTimeout, WorkerCheck, WorkerPublish, WorkerStore, WorkerStep
<1> QED BY <1>1, <1>2 DEF Worker

\* How an item ends: only one that somebody has, was pending or was queued.
LEMMA EndsTyped ==
  ASSUME TypeOK, Filled, [Next]_vars
  PROVE  uploaded' \subseteq Items /\ cached' \subseteq Items /\ givenUp' \subseteq Items
<1>0. /\ uploaded \subseteq Items /\ cached \subseteq Items /\ givenUp \subseteq Items
      /\ held \in [Callers -> Items \cup {None}] /\ item \in Items \cup {None}
      /\ last \in Items \cup {None} /\ queue \in Seq(Items)
  BY DEF TypeOK, DataOK
<1>1. Superseded \subseteq Items
  BY <1>0 DEF Superseded, Filled
<1>2. Queued \subseteq Items
  BY <1>0, ElementOfSeq, LenProperties DEF Queued
<1>3. ASSUME NEW i \in Items, HandleOffline(i)
      PROVE  cached' \subseteq Items /\ givenUp' \subseteq Items
  BY <1>0, <1>3 DEF HandleOffline
<1>4. CASE CallerStep
  <2>1. CASE SensorDispatch \/ Anomaly \/ ForceUpload
    BY <1>0, <2>1, Zenon DEF SensorDispatch, Anomaly, ForceUpload
  <2>2. CASE SensorCheck
    <3>1. at["bus"] = "check"
      BY <2>2 DEF SensorCheck, Move
    <3>2. held["bus"] \in Items
      BY <1>0, <3>1 DEF Filled, Callers
    <3> QED BY <1>0, <2>2, <3>2 DEF SensorCheck
  <2>3. CASE Sample
    BY <1>0, <1>1, <2>3 DEF Sample
  <2>4. ASSUME NEW c \in Callers, Caller(c)
        PROVE  uploaded' \subseteq Items /\ cached' \subseteq Items /\ givenUp' \subseteq Items
    <3>1. held[c] \in Items
      BY <1>0, <2>4 DEF Caller, Enqueue, QueueFull, Fallback, Move, Filled
    <3>2. CASE Enqueue(c) \/ QueueFull(c)
      BY <1>0, <3>2 DEF Enqueue, QueueFull
    <3>3. CASE Fallback(c)
      BY <1>0, <1>3, <3>1, <3>3 DEF Fallback
    <3> QED BY <2>4, <3>2, <3>3 DEF Caller
  <2> QED BY <1>4, <2>1, <2>2, <2>3, <2>4 DEF CallerStep
<1>5. CASE Worker
  <2>1. CASE WorkerTop \/ WorkerTimeout \/ WorkerGet
    BY <1>0, <2>1 DEF WorkerTop, WorkerTimeout, WorkerGet
  <2>2. CASE WorkerCheck \/ WorkerPublish \/ WorkerStore
    <3>1. item \in Items
      BY <1>0, <2>2 DEF WorkerCheck, WorkerPublish, WorkerStore, WorkerStep, Filled
    <3>2. CASE WorkerStore
      BY <1>0, <1>3, <3>1, <3>2 DEF WorkerStore
    <3>3. CASE WorkerCheck \/ WorkerPublish
      BY <1>0, <3>1, <3>3 DEF WorkerCheck, WorkerPublish
    <3> QED BY <2>2, <3>2, <3>3
  <2> QED BY <1>5, <2>1, <2>2 DEF Worker
<1>6. CASE Lifecycle
  <2>1. UNCHANGED <<uploaded, cached>> /\ givenUp' \subseteq givenUp \cup Queued
    BY <1>6 DEF Lifecycle, StartRegister, StartRun, StartSpawn, StopUnregister, StopFlag,
       StopJoin, StopPurge, ShutdownDone, data
  <2> QED BY <1>0, <1>2, <2>1
<1>7. CASE Quiet
  BY <1>0, <1>7 DEF Quiet, IntervalElapses, Replay, vars
<1> QED BY <1>4, <1>5, <1>6, <1>7, StepKinds

\* The thread inside start, stop or shutdown, and the worker it makes.
LEMMA LifecycleTyped ==
  ASSUME TypeOK, Filled, Lifecycle
  PROVE  /\ status' \in {"UNINITIALIZED", "INITIALIZED", "RUNNING", "STOPPED"}
         /\ consumer' \in BOOLEAN /\ closing' \in BOOLEAN
         /\ life' \in {"idle", "run", "spawn", "flag", "join", "purge", "close"}
         /\ stopped' \in 0 .. MaxItems /\ onTheWay' \subseteq Items
         /\ w' \in {w, "top"} /\ elapsed' \in {elapsed, FALSE}
         /\ UNCHANGED <<last, pending, cachedCount, callers, nextItem, item>>
<1>0. /\ status \in {"UNINITIALIZED", "INITIALIZED", "RUNNING", "STOPPED"}
      /\ life \in {"idle", "run", "spawn", "flag", "join", "purge", "close"}
      /\ held \in [Callers -> Items \cup {None}] /\ last \in Items \cup {None}
      /\ onTheWay \subseteq Items
  BY DEF TypeOK, DataOK, ControlOK
<1>1. nextItem - 1 \in 0 .. MaxItems /\ stopped \in 0 .. MaxItems
  BY UploadAssumption DEF TypeOK, DataOK
<1>2. InHands \cup Superseded \subseteq Items
  BY <1>0 DEF InHands, Superseded, Filled
<1>3. consumer' \in BOOLEAN /\ closing' \in BOOLEAN
  <2>1. consumer' \in {consumer, TRUE, FALSE} /\ closing' \in {closing, TRUE, FALSE}
    BY Zenon DEF Lifecycle, StartRegister, StartRun, StartSpawn, StopUnregister, StopFlag,
       StopJoin, StopPurge, ShutdownDone
  <2> QED BY <2>1, Zenon DEF TypeOK, ControlOK
<1>4. stopped' \in {stopped, nextItem - 1} /\ onTheWay' \in {onTheWay, InHands \cup Superseded}
  BY DEF Lifecycle, StartRegister, StartRun, StartSpawn, StopUnregister, StopFlag, StopJoin,
     StopPurge, ShutdownDone
<1>5. /\ status' \in {"UNINITIALIZED", "INITIALIZED", "RUNNING", "STOPPED"}
      /\ life' \in {"idle", "run", "spawn", "flag", "join", "purge", "close"}
  BY <1>0 DEF Lifecycle, StartRegister, StartRun, StartSpawn, StopUnregister, StopFlag, StopJoin,
     StopPurge, ShutdownDone
<1>6. w' \in {w, "top"} /\ elapsed' \in {elapsed, FALSE}
      /\ UNCHANGED <<last, pending, cachedCount, callers, nextItem, item>>
  BY DEF Lifecycle, StartRegister, StartRun, StartSpawn, StopUnregister, StopFlag, StopJoin,
     StopPurge, ShutdownDone, data, sampling, worker
<1> QED BY <1>0, <1>1, <1>2, <1>3, <1>4, <1>5, <1>6

\* An item that somebody has is not in the cache.
LEMMA NotCachedYet ==
  ASSUME Ways, NEW i \in Nat \ {0}, (\E c \in Callers : held[c] = i) \/ item = i
  PROVE  i \notin cached
<1> DEFINE H == Count(held, i)
           Q == Count(queue, i)
           I == Bit(item = i)
           L == Bit(pending /\ last = i)
           U == Bit(i \in uploaded)
           C == Bit(i \in cached)
           G == Bit(i \in givenUp)
<1>1. /\ H \in Nat /\ Q \in Nat /\ I \in {0, 1} /\ L \in {0, 1}
      /\ U \in {0, 1} /\ C \in {0, 1} /\ G \in {0, 1}
  <2>1. H \in Nat
    BY Handed DEF Callers, Ways
  <2>2. Q \in Nat
    BY HitsFinite DEF Hands, Ways
  <2> QED BY <2>1, <2>2, BitType
<1>2. H + Q + I + L + U + C + G = Bit(i < nextItem)
  <2>1. {c \in Callers : held[c] = i} = Hits(held, i)
    BY PlacesOf DEF Hands, Ways
  <2>2. Once(i)
    BY DEF Ways
  <2> QED BY <2>1, <2>2, Zenon DEF Once, Places, Count, Hits, Bit
<1>3. H >= 1 \/ I = 1
  <2>1. ASSUME NEW c \in Callers, held[c] = i PROVE H >= 1
    <3>1. Count(held, i) - Bit(held[c] = i) \in Nat
      BY Handed DEF Ways
    <3> QED BY <1>1, <2>1, <3>1 DEF Bit
  <2> QED BY <2>1 DEF Bit
<1>4. C = 0
  <2>1. Bit(i < nextItem) \in {0, 1}
    BY BitType
  <2> HIDE DEF H, Q, I, L, U, C, G
  <2> QED BY <1>1, <1>2, <1>3, <2>1
<1> QED BY <1>4 DEF Bit

\* cached_count goes up with each item that enters the cache, which it enters once.
LEMMA CountedInductive ==
  ASSUME TypeOK, Filled, Counted, Ways, [Next]_vars
  PROVE  cachedCount' \in 0 .. MaxItems /\ Counted'
<1>0. cachedCount \in Nat /\ cached \subseteq Items /\ MaxItems \in Nat
  BY UploadAssumption DEF TypeOK, DataOK
<1>1. IsFiniteSet(Items) /\ Cardinality(Items) = MaxItems
  <2>1. IsFiniteSet(1 .. MaxItems) /\ Cardinality(1 .. MaxItems) = MaxItems
    BY <1>0, FS_Interval
  <2> QED BY <2>1 DEF Items
<1>2. IsFiniteSet(cached) /\ Cardinality(cached) \in Nat
  BY <1>0, <1>1, FS_Subset, FS_CardinalityType
<1>3. cached' \subseteq Items /\ Cardinality(cached') <= MaxItems /\ Cardinality(cached') \in Nat
  BY <1>1, EndsTyped, FS_Subset, FS_CardinalityType
<1>4. ASSUME cachedCount' \in Nat, cachedCount' <= Cardinality(cached')
      PROVE  cachedCount' \in 0 .. MaxItems /\ Counted'
  BY <1>0, <1>3, <1>4 DEF Counted
<1>5. CASE UNCHANGED cached /\ cachedCount' \in Nat /\ cachedCount' <= cachedCount
  BY <1>0, <1>2, <1>4, <1>5 DEF Counted
<1>6. ASSUME NEW i \in Items, i \notin cached, HandleOffline(i)
      PROVE  cachedCount' \in 0 .. MaxItems /\ Counted'
  <2>1. CASE cached' = cached \cup {i} /\ cachedCount' = cachedCount + 1
    <3>1. Cardinality(cached \cup {i}) = Cardinality(cached) + 1
      BY <1>2, <1>6, FS_AddElement
    <3> QED BY <1>0, <1>2, <1>4, <2>1, <3>1 DEF Counted
  <2>2. CASE UNCHANGED <<cached, cachedCount>>
    BY <1>0, <1>5, <2>2
  <2> QED BY <1>6, <2>1, <2>2 DEF HandleOffline
<1>7. ASSUME NEW c \in Callers, Fallback(c)
      PROVE  cachedCount' \in 0 .. MaxItems /\ Counted'
  <2>1. at[c] = "fallback" /\ HandleOffline(held[c])
    BY <1>7 DEF Fallback, Move
  <2>2. held[c] \in Items
    BY <2>1 DEF TypeOK, DataOK, Filled
  <2>3. held[c] \in Nat \ {0}
    BY <2>2 DEF Items
  <2> QED BY <1>6, <2>1, <2>2, <2>3, NotCachedYet
<1>8. CASE WorkerStore
  <2>1. w = "store" /\ HandleOffline(item)
    BY <1>8 DEF WorkerStore, WorkerStep
  <2>2. item \in Items
    BY <2>1 DEF TypeOK, DataOK, Filled
  <2>3. item \in Nat \ {0}
    BY <2>2 DEF Items
  <2> QED BY <1>6, <2>1, <2>2, <2>3, NotCachedYet
<1>9. CASE Replay
  <2>1. UNCHANGED cached /\ cachedCount' = IF cachedCount > 0 THEN cachedCount - 1 ELSE 0
    BY <1>9 DEF Replay
  <2> QED BY <1>0, <1>5, <2>1
<1>10. CASE UNCHANGED <<cached, cachedCount>>
  BY <1>0, <1>5, <1>10
<1>11. \/ UNCHANGED <<cached, cachedCount>>
       \/ Replay \/ WorkerStore \/ \E c \in Callers : Fallback(c)
  <2>1. CallerStep => UNCHANGED <<cached, cachedCount>> \/ \E c \in Callers : Fallback(c)
    BY DEF CallerStep, SensorDispatch, SensorCheck, Sample, Anomaly, ForceUpload, Caller, Enqueue,
       QueueFull
  <2>2. Worker => UNCHANGED <<cached, cachedCount>> \/ WorkerStore
    BY DEF Worker, WorkerTop, WorkerTimeout, WorkerGet, WorkerCheck, WorkerPublish
  <2>3. Lifecycle => UNCHANGED <<cached, cachedCount>>
    BY DEF Lifecycle, StartRegister, StartRun, StartSpawn, StopUnregister, StopFlag, StopJoin,
       StopPurge, ShutdownDone, data
  <2>4. Quiet => UNCHANGED <<cached, cachedCount>> \/ Replay
    BY DEF Quiet, IntervalElapses, vars
  <2> QED BY <2>1, <2>2, <2>3, <2>4, StepKinds
<1> QED BY <1>7, <1>8, <1>9, <1>10, <1>11

\* The types, with what makes them inductive.
Typed == TypeOK /\ Filled /\ Counted

\* All of it is inductive, together with the way of every item.
LEMMA TypedInductive ==
  ASSUME Typed, Ways, [Next]_vars
  PROVE  Typed'
<1> USE DEF Typed
<1>1. queue' \in Seq(Items) /\ Len(queue') <= Depth
  BY QueueFits
<1>2. uploaded' \subseteq Items /\ cached' \subseteq Items /\ givenUp' \subseteq Items
  BY EndsTyped
<1>3. cachedCount' \in 0 .. MaxItems /\ Counted'
  BY CountedInductive
<1>4. CASE CallerStep
  <2>1. UNCHANGED <<lifetime, worker>>
    BY <1>4 DEF CallerStep, SensorDispatch, SensorCheck, Sample, Anomaly, ForceUpload, Caller,
       Enqueue, QueueFull, Fallback
  <2>2. UNCHANGED <<status, consumer, life, closing, stopped, onTheWay, w, item>>
    BY <2>1 DEF lifetime, worker
  <2> QED BY <1>1, <1>2, <1>3, <1>4, <2>2, CallersTyped
             DEF TypeOK, DataOK, ControlOK, Filled, Holds
<1>5. CASE Worker
  <2>1. UNCHANGED <<status, consumer, life, closing, stopped, onTheWay, last, pending, elapsed,
                    at, held, nextItem>>
    BY <1>5 DEF Worker, WorkerTop, WorkerTimeout, WorkerGet, WorkerCheck, WorkerPublish,
       WorkerStore, lifetime, sampling, callers
  <2> QED BY <1>1, <1>2, <1>3, <1>5, <2>1, WorkerTyped DEF TypeOK, DataOK, ControlOK, Filled
<1>6. CASE Lifecycle
  <2>1. UNCHANGED <<at, held>>
    BY <1>6, LifecycleTyped DEF callers
  <2>2. elapsed' \in BOOLEAN
    BY <1>6, LifecycleTyped, Zenon DEF TypeOK, DataOK
  <2>3. DataOK'
    BY <1>1, <1>2, <1>3, <1>6, <2>1, <2>2, LifecycleTyped DEF TypeOK, DataOK
  <2>4. ControlOK'
    <3>1. /\ status' \in {"UNINITIALIZED", "INITIALIZED", "RUNNING", "STOPPED"}
          /\ life' \in {"idle", "run", "spawn", "flag", "join", "purge", "close"}
          /\ consumer' \in BOOLEAN /\ closing' \in BOOLEAN
      BY <1>6, LifecycleTyped
    <3>2. w' \in {"off", "top", "get", "check", "publish", "store"} /\ UNCHANGED at
      BY <1>6, <2>1, LifecycleTyped DEF TypeOK, ControlOK
    <3>3. at' \in [Callers -> {"idle", "check", "sample", "put", "fallback"}]
      BY <3>2 DEF TypeOK, ControlOK
    <3> QED BY <3>1, <3>2, <3>3, Zenon DEF ControlOK
  <2>5. Filled'
    <3>1. UNCHANGED <<at, held, last, pending, item>> /\ w' \in {w, "top"}
      BY <1>6, <2>1, LifecycleTyped
    <3>2. w' \in {"check", "publish", "store"} => w' = w
      BY <3>1
    <3> QED BY <3>1, <3>2 DEF Filled
  <2> QED BY <1>3, <2>3, <2>4, <2>5 DEF TypeOK
<1>7. CASE Quiet
  <2>1. UNCHANGED <<status, consumer, life, closing, stopped, onTheWay, last, pending, at, held,
                    w, item, nextItem>>
    BY <1>7 DEF Quiet, IntervalElapses, Replay, vars, lifetime, callers, worker, sampling
  <2>2. elapsed' \in BOOLEAN
    <3>1. elapsed' = elapsed \/ elapsed' = TRUE
      BY <1>7 DEF Quiet, IntervalElapses, Replay, vars, sampling
    <3> QED BY <3>1, Zenon DEF TypeOK, DataOK
  <2> QED BY <1>1, <1>2, <1>3, <2>1, <2>2 DEF TypeOK, DataOK, ControlOK, Filled
<1> QED BY <1>4, <1>5, <1>6, <1>7, StepKinds

\* Every variable of the upload module keeps its type, for every depth of the queue and
\* any number of items and replays.  cached_count in particular neither wraps below zero
\* nor exceeds the items that went to the cache, whatever callers and worker interleave.
THEOREM TypeCorrect == Spec => []TypeOK
<1>1. Init => Typed
  <2> SUFFICES ASSUME Init PROVE Typed
    OBVIOUS
  <2>1. queue \in Seq(Items) /\ Len(queue) <= Depth
    BY EmptySeq, UploadAssumption DEF Init
  <2>2. Counted /\ cachedCount \in 0 .. MaxItems
    BY FS_EmptySet, UploadAssumption DEF Init, Counted
  <2>3. ControlOK
    BY DEF Init, ControlOK
  <2>4. Filled
    BY DEF Init, Filled
  <2>5. nextItem \in 1 .. MaxItems + 1 /\ stopped \in 0 .. MaxItems
    BY UploadAssumption DEF Init
  <2>6. pending \in BOOLEAN /\ elapsed \in BOOLEAN
    BY Zenon DEF Init
  <2> QED BY <2>1, <2>2, <2>3, <2>4, <2>5, <2>6 DEF Init, Typed, TypeOK, DataOK, None
<1>2. Typed /\ Ways /\ [Next]_vars => (Typed /\ Ways)'
  BY TypedInductive, WaysInductive
<1>3. Typed => TypeOK
  BY DEF Typed
<1> QED BY <1>1, <1>2, <1>3, WaysInitially, PTL DEF Spec

=============================================================================
