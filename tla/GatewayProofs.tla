--------------------------- MODULE GatewayProofs ---------------------------
(* Theorems about Gateway, for every size of the queue, the ring, the batch *)
(* and the bus, any number of readings and any of the faults.              *)
EXTENDS Gateway, FiniteSetTheorems, FunctionTheorems, SequenceTheorems, TLAPS

-----------------------------------------------------------------------------
(* The events of the link                                                  *)

\* The last element of a sequence that has been added to is the one added.
LEMMA Appended ==
  ASSUME NEW S, NEW q \in Seq(S), NEW e \in S
  PROVE  /\ Append(q, e) \in Seq(S)
         /\ Append(q, e) # <<>> /\ Append(q, e)[Len(Append(q, e))] = e
OBVIOUS

\* Taking the head leaves the last element, unless it was the head.
LEMMA Rest ==
  ASSUME NEW S, NEW q \in Seq(S), q # <<>>
  PROVE  /\ Tail(q) \in Seq(S)
         /\ Tail(q) # <<>> => Tail(q)[Len(Tail(q))] = q[Len(q)]
         /\ Tail(q) = <<>> => Head(q) = q[Len(q)]
<1>1. Len(q) \in Nat \ {0} /\ Head(q) = q[1]
  BY EmptySeq
<1>2. /\ Tail(q) \in Seq(S) /\ Len(Tail(q)) = Len(q) - 1
      /\ \A i \in 1 .. Len(Tail(q)) : Tail(q)[i] = q[i + 1]
  BY HeadTailProperties
<1>3. Tail(q) # <<>> => Len(Tail(q)) \in Nat \ {0}
  BY <1>2, EmptySeq
<1>4. Tail(q) = <<>> => Len(q) = 1
  BY <1>1, <1>2, EmptySeq
<1>5. Tail(q) # <<>> => Tail(q)[Len(Tail(q))] = q[Len(q)]
  BY <1>1, <1>2, <1>3
<1> QED BY <1>1, <1>2, <1>4, <1>5

-----------------------------------------------------------------------------
(* What the cache believes                                                 *)

\* Of the link events on the way the last one tells the session there is; when
\* none is on the way, the cache has been told.
Told ==
  /\ session \in BOOLEAN /\ high \in Seq(BOOLEAN)
  /\ ~say /\ ~blind =>
       /\ high # <<>> => high[Len(high)] = session
       /\ high = <<>> /\ running => link = session

\* The steps that touch nothing of it.
Elsewhere ==
  Arrive \/ Worker \/ OnUpload \/ OnReplay \/ Work \/ UNCHANGED vars

LEMMA ToldInductive ==
  ASSUME Told, [Next]_vars
  PROVE  Told'
<1>1. CASE SessionChanges
  <2>1. session' \in {~session, FALSE} /\ say' = TRUE /\ UNCHANGED high
    BY <1>1, Zenon DEF SessionChanges
  <2>2. session' \in BOOLEAN
    BY <2>1, Zenon
  <2> QED BY <2>1, <2>2, Zenon DEF Told
<1>2. CASE Announce
  <2>1. UNCHANGED <<session, link, running>> /\ session \in BOOLEAN /\ high \in Seq(BOOLEAN)
    BY <1>2, Zenon DEF Announce, Told, cache
  <2>2. CASE high' = Append(high, session) /\ blind' = FALSE
    <3>1. high' \in Seq(BOOLEAN) /\ high' # <<>> /\ high'[Len(high')] = session
      BY <2>1, <2>2, Appended
    <3> QED BY <2>1, <3>1, Zenon DEF Told
  <2>3. CASE blind' = TRUE /\ UNCHANGED high
    BY <2>1, <2>3, Zenon DEF Told
  <2> QED BY <1>2, <2>2, <2>3, Zenon DEF Announce
<1>3. CASE OnLink
  <2>1. /\ high # <<>> /\ high' = Tail(high) /\ high \in Seq(BOOLEAN)
        /\ UNCHANGED <<session, say, blind, running>>
        /\ running => link' = Head(high)
    BY <1>3 DEF OnLink, Told
  <2>2. /\ high' \in Seq(BOOLEAN)
        /\ high' # <<>> => high'[Len(high')] = high[Len(high)]
        /\ high' = <<>> => Head(high) = high[Len(high)]
    BY <2>1, Rest
  <2> QED BY <2>1, <2>2, Zenon DEF Told
<1>4. CASE CacheStop
  <2>1. UNCHANGED uplink /\ running' = FALSE
    BY <1>4 DEF CacheStop
  <2> QED BY <2>1 DEF Told, uplink
<1>5. CASE CacheStart
  <2>1. /\ UNCHANGED <<session, say, high>> /\ link' = FALSE
        /\ blind' = IF high = <<>> THEN session /\ ~say ELSE blind
    BY <1>5 DEF CacheStart
  <2>2. CASE high = <<>>
    BY <2>1, <2>2, Zenon DEF Told
  <2>3. CASE high # <<>>
    BY <2>1, <2>3, Zenon DEF Told
  <2> QED BY <2>2, <2>3
<1>6. CASE Elsewhere
  <2>1. UNCHANGED <<uplink, link, running>>
    BY <1>6 DEF Elsewhere, Arrive, Worker, WorkerTake, WorkerSend, WorkerFallBack,
       OnUpload, OnReplay, Work, WorkBegin, WorkPublish, WorkEnd, vars, cache
  <2> QED BY <2>1 DEF Told, uplink
<1> QED
  BY <1>1, <1>2, <1>3, <1>4, <1>5, <1>6, Zenon DEF Next, Dispatcher, Elsewhere

LEMMA ToldAlways == Spec => []Told
<1>1. Init => Told
  <2> SUFFICES ASSUME Init PROVE Told
    OBVIOUS
  <2>1. high \in Seq(BOOLEAN)
    BY EmptySeq DEF Init
  <2> QED BY <2>1, Zenon DEF Init, Told
<1>2. Told /\ [Next]_vars => Told'
  BY ToldInductive
<1> QED BY <1>1, <1>2, PTL DEF Spec

\* For every size of the bus and of the cache: a running cache that has handled
\* every event of the link believes in the session there is.
THEOREM LinkAlwaysTrue == Spec => []LinkTruth
<1>1. Told => LinkTruth
  BY Zenon DEF Told, LinkTruth
<1> QED BY <1>1, ToldAlways, PTL

\* For the same: no reading is dropped in an announced outage because the cache
\* has not heard of it, since the bus hands out the event that tells it first.
THEOREM AlwaysStoredWhenDown == Spec => StoredWhenDown
<1> DEFINE Kept == ~session /\ ~say /\ ~blind
                     => dropped'["connected"] = dropped["connected"]
<1>1. Told /\ [Next]_vars => [Kept]_vars
  <2> SUFFICES ASSUME Told, Next, ~session, ~say, ~blind
               PROVE  dropped'["connected"] = dropped["connected"]
    OBVIOUS
  <2>1. ASSUME NEW r, r # "connected", NEW items, Lose(r, items)
        PROVE  dropped'["connected"] = dropped["connected"]
    BY <2>1 DEF Lose
  <2>2. CASE OnUpload
    <3>1. ~(running /\ link)
      BY <2>2, Zenon DEF OnUpload, Serve, Told
    <3> QED BY <2>1, <2>2, <3>1 DEF OnUpload
  <2>3. CASE OnReplay
    BY <2>1, <2>3 DEF OnReplay
  <2>4. CASE Arrive
    BY <2>1, <2>4 DEF Arrive, FallBack
  <2>5. CASE WorkerFallBack
    BY <2>1, <2>5 DEF WorkerFallBack, FallBack
  <2>6. CASE \/ SessionChanges \/ Announce \/ WorkerTake \/ WorkerSend \/ OnLink \/ Work
             \/ CacheStop \/ CacheStart
    <3>1. UNCHANGED dropped
      BY <2>6 DEF SessionChanges, Announce, WorkerTake, WorkerSend, OnLink, Work,
         WorkBegin, WorkPublish, WorkEnd, CacheStop, CacheStart, fate
    <3> QED BY <3>1
  <2> QED
    BY <2>2, <2>3, <2>4, <2>5, <2>6 DEF Next, Worker, Dispatcher
<1> QED BY <1>1, ToldAlways, PTL DEF Spec, StoredWhenDown
-----------------------------------------------------------------------------
(* How many elements of a sequence are in a set                            *)

Spots(q, A) == {n \in DOMAIN q : q[n] \in A}
Number(q, A) == Cardinality(Spots(q, A))
Bit(b) == IF b THEN 1 ELSE 0

LEMMA BitType == ASSUME NEW b PROVE Bit(b) \in {0, 1}
BY DEF Bit

LEMMA NumberType ==
  ASSUME NEW S, NEW q \in Seq(S), NEW A
  PROVE  IsFiniteSet(Spots(q, A)) /\ Number(q, A) \in Nat
<1>1. Len(q) \in Nat /\ DOMAIN q = 1 .. Len(q)
  OBVIOUS
<1>2. IsFiniteSet(1 .. Len(q)) /\ Spots(q, A) \in SUBSET (1 .. Len(q))
  BY <1>1, FS_Interval DEF Spots
<1> QED BY <1>2, FS_Subset, FS_CardinalityType DEF Number

\* An element added at the end.
LEMMA NumberAppend ==
  ASSUME NEW S, NEW q \in Seq(S), NEW e \in S, NEW A
  PROVE  Number(Append(q, e), A) = Number(q, A) + Bit(e \in A)
<1> DEFINE g == Append(q, e)
           m == Len(q) + 1
<1>1. /\ Len(q) \in Nat /\ DOMAIN q = 1 .. Len(q) /\ DOMAIN g = 1 .. m
      /\ g[m] = e /\ \A n \in 1 .. Len(q) : g[n] = q[n]
  OBVIOUS
<1>2. IsFiniteSet(Spots(q, A)) /\ Number(q, A) \in Nat
  BY NumberType
<1> HIDE DEF g
<1>3. CASE e \in A
  <2>1. Spots(g, A) = Spots(q, A) \cup {m} /\ m \notin Spots(q, A)
    BY <1>1, <1>3 DEF Spots
  <2>2. Cardinality(Spots(q, A) \cup {m}) = Cardinality(Spots(q, A)) + 1
    BY <1>2, <2>1, FS_AddElement
  <2> QED BY <1>3, <2>1, <2>2 DEF Number, Bit, g
<1>4. CASE e \notin A
  <2>1. Spots(g, A) = Spots(q, A)
    BY <1>1, <1>4 DEF Spots
  <2> QED BY <1>2, <1>4, <2>1 DEF Number, Bit, g
<1> QED BY <1>3, <1>4

\* The first element taken out.
LEMMA NumberTail ==
  ASSUME NEW S, NEW q \in Seq(S), q # <<>>, NEW A
  PROVE  /\ Tail(q) \in Seq(S) /\ Head(q) \in S
         /\ Number(q, A) = Number(Tail(q), A) + Bit(Head(q) \in A)
<1> DEFINE t == Tail(q)
           T == Spots(t, A)
           R == Spots(q, A) \ {1}
           shift == [n \in T |-> n + 1]
<1>1. /\ Len(q) \in Nat \ {0} /\ Head(q) = q[1] /\ Head(q) \in S /\ DOMAIN q = 1 .. Len(q)
      /\ t \in Seq(S) /\ Len(t) = Len(q) - 1 /\ DOMAIN t = 1 .. Len(t)
      /\ \A n \in 1 .. Len(t) : t[n] = q[n + 1]
  BY EmptySeq, HeadTailProperties
<1>2. /\ IsFiniteSet(Spots(q, A)) /\ IsFiniteSet(T)
      /\ Number(q, A) \in Nat /\ Number(t, A) \in Nat
  BY <1>1, NumberType
<1> HIDE DEF t
<1>3. shift \in Bijection(T, R)
  <2>1. \A n \in T : n \in Nat /\ n + 1 \in R
    BY <1>1 DEF Spots
  <2>2. \A k \in R : k - 1 \in T /\ (k - 1) + 1 = k
    BY <1>1 DEF Spots
  <2>3. shift \in [T -> R] /\ \A a, b \in T : shift[a] = shift[b] => a = b
    BY <2>1
  <2>4. \A k \in R : \E n \in T : shift[n] = k
    BY <2>2
  <2> QED BY <2>3, <2>4 DEF Bijection, Injection, IsInjective, Surjection
<1>4. Cardinality(R) = Number(t, A)
  BY <1>2, <1>3, FS_Bijection DEF ExistsBijection, Number
<1>5. Cardinality(R) = Number(q, A) - Bit(Head(q) \in A)
  <2>1. 1 \in Spots(q, A) <=> Head(q) \in A
    BY <1>1 DEF Spots
  <2>2. Cardinality(R) = IF 1 \in Spots(q, A) THEN Number(q, A) - 1 ELSE Number(q, A)
    BY <1>2, FS_RemoveElement DEF Number
  <2> QED BY <1>2, <2>1, <2>2 DEF Bit
<1>6. Bit(Head(q) \in A) \in {0, 1}
  BY BitType
<1> QED BY <1>1, <1>2, <1>4, <1>5, <1>6 DEF t

-----------------------------------------------------------------------------
(* Where a reading is                                                      *)

Events == [kind : {"upload", "replay"}, item : Nat]
About(i) == {e \in Events : e.item = i}

\* Every place holds readings.
Carried ==
  /\ queue \in Seq(Nat) /\ normal \in Seq(Events) /\ ring \in Seq(Nat)
  /\ worker = Idle \/ worker \in [at : {"send", "fallback"}, item : Nat]
  /\ made \in Nat
  /\ dropped \in [Reasons -> SUBSET Nat]

InQueue(i)   == Number(queue, {i})
OnTheBus(i)  == Number(normal, About(i))
InRing(i)    == Number(ring, {i})
InHand(i)    == Bit(worker.item = i)
GivenUp(i)   == Cardinality({r \in Reasons : i \in dropped[r]})
Delivered(i) == Bit(i \in delivered)

\* A reading that has arrived is in one place or has one end, any other in none.
Whole(i) ==
  InQueue(i) + OnTheBus(i) + InRing(i) + InHand(i) + GivenUp(i) + Delivered(i) = Bit(i <= made)

LEMMA ReasonsFinite == IsFiniteSet(Reasons)
<1>1. \A S, x : IsFiniteSet(S) => IsFiniteSet(S \cup {x})
  BY FS_AddElement
<1>2. Reasons = (((((({} \cup {"refused"}) \cup {"connected"}) \cup {"stopped"})
                   \cup {"flash"}) \cup {"overwritten"}) \cup {"replay"})
  BY DEF Reasons
<1>3. IsFiniteSet({})
  BY FS_EmptySet
<1> QED BY <1>1, <1>2, <1>3, Zenon

LEMMA PlacesType ==
  ASSUME Carried, NEW i
  PROVE  /\ InQueue(i) \in Nat /\ OnTheBus(i) \in Nat /\ InRing(i) \in Nat
         /\ InHand(i) \in {0, 1} /\ GivenUp(i) \in Nat /\ Delivered(i) \in {0, 1}
<1>1. InQueue(i) \in Nat /\ OnTheBus(i) \in Nat /\ InRing(i) \in Nat
  BY NumberType DEF Carried, InQueue, OnTheBus, InRing
<1>2. IsFiniteSet({r \in Reasons : i \in dropped[r]})
  BY ReasonsFinite, FS_Subset
<1> QED BY <1>1, <1>2, FS_CardinalityType, BitType DEF GivenUp, InHand, Delivered

\* The places are those Conserved counts.
LEMMA WholeConserves ==
  ASSUME Carried, NEW i \in Nat, i <= made, Whole(i)
  PROVE  Copies(i) + Cardinality({r \in Reasons : i \in dropped[r]})
           + (IF i \in delivered THEN 1 ELSE 0) = 1
<1>1. /\ {n \in DOMAIN queue : queue[n] = i} = Spots(queue, {i})
      /\ {n \in DOMAIN ring : ring[n] = i} = Spots(ring, {i})
  BY DEF Spots
<1>2. {n \in DOMAIN normal : normal[n].item = i} = Spots(normal, About(i))
  <2>1. \A n \in DOMAIN normal : normal[n] \in Events
    BY DEF Carried
  <2> QED BY <2>1 DEF Spots, About
<1>3. Copies(i) = InQueue(i) + OnTheBus(i) + InRing(i) + InHand(i)
  BY <1>1, <1>2, Zenon DEF Copies, InQueue, OnTheBus, InRing, InHand, Number, Bit
<1>4. (IF i \in delivered THEN 1 ELSE 0) = Delivered(i) /\ Bit(i <= made) = 1
  BY DEF Delivered, Bit
<1> QED BY <1>3, <1>4, PlacesType DEF Whole, GivenUp

\* A reading that is given up, having not been before, counts.
LEMMA Lost ==
  ASSUME Carried, NEW i, NEW r \in Reasons, NEW items \in SUBSET Nat, Lose(r, items),
         i \in items => GivenUp(i) = 0
  PROVE  /\ dropped' \in [Reasons -> SUBSET Nat]
         /\ GivenUp(i)' = GivenUp(i) + Bit(i \in items)
<1> DEFINE R == {x \in Reasons : i \in dropped[x]}
<1>1. dropped' = [dropped EXCEPT ![r] = @ \cup items] /\ dropped \in [Reasons -> SUBSET Nat]
  BY DEF Lose, Carried
<1>2. dropped' \in [Reasons -> SUBSET Nat]
  BY <1>1
<1>3. IsFiniteSet(R)
  BY ReasonsFinite, FS_Subset
<1>4. CASE i \in items
  <2>1. R = {}
    BY <1>3, <1>4, FS_EmptySet DEF GivenUp
  <2>2. {x \in Reasons : i \in dropped'[x]} = {r}
    BY <1>1, <1>4, <2>1
  <2>3. Cardinality({r}) = 1
    BY FS_Singleton
  <2>4. GivenUp(i) = 0 /\ Bit(i \in items) = 1 /\ GivenUp(i)' = 1
    BY <1>4, <2>2, <2>3 DEF GivenUp, Bit
  <2> QED BY <1>2, <2>4
<1>5. CASE i \notin items
  <2>1. {x \in Reasons : i \in dropped'[x]} = R
    BY <1>1, <1>5
  <2>2. GivenUp(i)' = GivenUp(i) /\ Bit(i \in items) = 0 /\ GivenUp(i) \in Nat
    BY <1>5, <2>1, PlacesType DEF GivenUp, Bit
  <2> QED BY <1>2, <2>2
<1> QED BY <1>4, <1>5

\* The bus takes an event, or hands out the first.
LEMMA Published ==
  ASSUME Carried, NEW i, NEW kind \in {"upload", "replay"}, NEW item \in Nat,
         Publish(kind, item)
  PROVE  normal' \in Seq(Events) /\ OnTheBus(i)' = OnTheBus(i) + Bit(item = i)
<1> DEFINE e == Event(kind, item)
<1>1. e \in Events /\ (e \in About(i) <=> item = i)
  BY DEF Event, Events, About
<1>2. normal' = Append(normal, e) /\ normal \in Seq(Events)
  BY DEF Publish, Carried
<1>3. Append(normal, e) \in Seq(Events)
  BY <1>1, <1>2
<1>4. Number(Append(normal, e), About(i)) = Number(normal, About(i)) + Bit(e \in About(i))
  BY <1>1, <1>2, NumberAppend
<1>5. Bit(e \in About(i)) = Bit(item = i)
  BY <1>1 DEF Bit
<1> QED BY <1>2, <1>3, <1>4, <1>5 DEF OnTheBus

LEMMA Served ==
  ASSUME Carried, NEW i, NEW kind, Serve(kind), normal' = Tail(normal)
  PROVE  /\ normal' \in Seq(Events) /\ Head(normal).item \in Nat
         /\ OnTheBus(i) = OnTheBus(i)' + Bit(Head(normal).item = i)
         /\ OnTheBus(i)' \in Nat
<1>1. normal \in Seq(Events) /\ normal # <<>>
  BY DEF Carried, Serve
<1>2. /\ normal' \in Seq(Events) /\ Head(normal) \in Events
      /\ Number(normal, About(i)) = Number(normal', About(i)) + Bit(Head(normal) \in About(i))
  BY <1>1, NumberTail
<1>3. Head(normal).item \in Nat /\ (Head(normal) \in About(i) <=> Head(normal).item = i)
  BY <1>2 DEF Events, About
<1>4. Bit(Head(normal) \in About(i)) = Bit(Head(normal).item = i)
  BY <1>3 DEF Bit
<1>5. Number(normal', About(i)) \in Nat
  BY <1>2, NumberType
<1> QED BY <1>2, <1>3, <1>4, <1>5 DEF OnTheBus

\* An item that falls back is on the bus, or given up.
LEMMA FellBack ==
  ASSUME Carried, NEW i, NEW item \in Nat, FallBack(item), i = item => GivenUp(i) = 0
  PROVE  /\ normal' \in Seq(Events) /\ dropped' \in [Reasons -> SUBSET Nat]
         /\ \/ OnTheBus(i)' = OnTheBus(i) + Bit(item = i) /\ GivenUp(i)' = GivenUp(i)
            \/ OnTheBus(i)' = OnTheBus(i) /\ GivenUp(i)' = GivenUp(i) + Bit(item = i)
<1>1. CASE Publish("upload", item) /\ UNCHANGED dropped
  <2>1. normal' \in Seq(Events) /\ OnTheBus(i)' = OnTheBus(i) + Bit(item = i)
    BY <1>1, Published
  <2>2. GivenUp(i)' = GivenUp(i) /\ dropped' \in [Reasons -> SUBSET Nat]
    BY <1>1 DEF GivenUp, Carried
  <2> QED BY <2>1, <2>2
<1>2. CASE Lose("refused", {item}) /\ UNCHANGED normal
  <2>1. /\ dropped' \in [Reasons -> SUBSET Nat]
        /\ GivenUp(i)' = GivenUp(i) + Bit(i \in {item})
    BY <1>2, Lost DEF Reasons
  <2>2. OnTheBus(i)' = OnTheBus(i) /\ normal' \in Seq(Events)
    BY <1>2 DEF OnTheBus, Carried
  <2>3. Bit(i \in {item}) = Bit(item = i)
    BY DEF Bit
  <2> QED BY <2>1, <2>2, <2>3
<1> QED BY <1>1, <1>2 DEF FallBack
LEMMA WholeInductive ==
  ASSUME Carried, NEW i \in Nat \ {0}, Whole(i), [Next]_vars
  PROVE  Carried' /\ Whole(i)'
<1> DEFINE Q == InQueue(i)
           B == OnTheBus(i)
           R == InRing(i)
           W == InHand(i)
           G == GivenUp(i)
           D == Delivered(i)
<1>1. Q \in Nat /\ B \in Nat /\ R \in Nat /\ W \in {0, 1} /\ G \in Nat /\ D \in {0, 1}
  BY PlacesType
<1>2. Q + B + R + W + G + D = Bit(i <= made) /\ Bit(i <= made) \in {0, 1}
  BY BitType DEF Whole
<1>3. Q' + B' + R' + W' + G' + D' = Bit(i <= made') => Whole(i)'
  BY DEF Whole
<1>4. /\ queue' = queue => Q' = Q /\ queue' \in Seq(Nat)
      /\ normal' = normal => B' = B /\ normal' \in Seq(Events)
      /\ ring' = ring => R' = R /\ ring' \in Seq(Nat)
      /\ worker' = worker =>
           W' = W /\ (worker' = Idle \/ worker' \in [at : {"send", "fallback"}, item : Nat])
      /\ dropped' = dropped => G' = G /\ dropped' \in [Reasons -> SUBSET Nat]
      /\ delivered' = delivered => D' = D
  BY DEF Carried, InQueue, OnTheBus, InRing, InHand, GivenUp, Delivered
<1>5. W = Bit(worker.item = i) /\ W' = Bit(worker'.item = i) /\ Bit(Idle.item = i) = 0
  BY DEF InHand, Idle, Bit
<1>6. ASSUME queue' \in Seq(Nat), normal' \in Seq(Events), ring' \in Seq(Nat),
             worker' = Idle \/ worker' \in [at : {"send", "fallback"}, item : Nat],
             made' \in Nat, dropped' \in [Reasons -> SUBSET Nat]
      PROVE  Carried'
  BY <1>6 DEF Carried
<1>7. made \in Nat
  BY DEF Carried
\* A provider takes the reading, which is somewhere until then.
<1>8. ASSUME NEW item, delivered' = delivered \cup {item}, D + Bit(item = i) <= 1
      PROVE  D' = D + Bit(item = i)
  BY <1>8 DEF Delivered, Bit
<1> HIDE DEF Q, B, R, W, G, D
<1>9. CASE Arrive
  <2> DEFINE b == Bit(made' = i)
  <2>1. /\ made' = made + 1 /\ UNCHANGED <<ring, worker, delivered>> /\ made' \in Nat
        /\ \/ queue' = Append(queue, made') /\ UNCHANGED <<normal, dropped>>
           \/ FallBack(made') /\ UNCHANGED queue
    BY <1>7, <1>9 DEF Arrive, cache
  <2>2. b \in {0, 1} /\ Bit(i <= made') = Bit(i <= made) + b /\ (i = made' => Bit(i <= made) = 0)
    BY <1>7, <2>1 DEF Bit
  <2> HIDE DEF b
  <2>3. i = made' => G = 0
    BY <1>1, <1>2, <2>2
  <2>4. CASE queue' = Append(queue, made') /\ UNCHANGED <<normal, dropped>>
    <3>1. queue' \in Seq(Nat)
      BY <2>1, <2>4 DEF Carried
    <3>2. Number(Append(queue, made'), {i}) = Number(queue, {i}) + Bit(made' \in {i})
      BY <2>1, NumberAppend DEF Carried
    <3>3. Q' = Q + b
      BY <2>4, <3>2 DEF Q, InQueue, b, Bit
    <3>4. B' = B /\ R' = R /\ W' = W /\ G' = G /\ D' = D
      BY <1>4, <2>1, <2>4
    <3>5. Q' + B' + R' + W' + G' + D' = Bit(i <= made')
      BY <1>1, <1>2, <2>2, <3>3, <3>4
    <3> QED BY <1>3, <1>4, <1>6, <2>1, <2>4, <3>1, <3>5
  <2>5. CASE FallBack(made') /\ UNCHANGED queue
    <3>1. /\ normal' \in Seq(Events) /\ dropped' \in [Reasons -> SUBSET Nat]
          /\ (B' = B + b /\ G' = G) \/ (B' = B /\ G' = G + b)
      BY <2>1, <2>3, <2>5, FellBack DEF B, G, b
    <3>2. Q' = Q /\ R' = R /\ W' = W /\ D' = D
      BY <1>4, <2>1, <2>5
    <3>3. Carried'
      BY <1>4, <1>6, <2>1, <2>5, <3>1
    <3>4. Q' + B' + R' + W' + G' + D' = Bit(i <= made')
      BY <1>1, <1>2, <2>2, <3>1, <3>2
    <3> QED BY <1>3, <3>3, <3>4
  <2> QED BY <2>1, <2>4, <2>5
<1>10. CASE WorkerTake
  <2> DEFINE b == Bit(Head(queue) = i)
  <2>1. /\ queue # <<>> /\ queue' = Tail(queue) /\ worker = Idle
        /\ worker' = [at |-> "send", item |-> Head(queue)]
        /\ UNCHANGED <<normal, ring, made, dropped, delivered>>
    <3>1. worker.at = "idle" => worker = Idle
      BY DEF Carried
    <3> QED BY <1>10, <3>1 DEF WorkerTake, cache, fate
  <2>2. /\ queue' \in Seq(Nat) /\ Head(queue) \in Nat
        /\ Number(queue, {i}) = Number(queue', {i}) + Bit(Head(queue) \in {i})
    BY <2>1, NumberTail DEF Carried
  <2>3. Number(queue', {i}) \in Nat
    BY <2>2, NumberType
  <2>4. Q = Q' + b /\ Q' \in Nat
    BY <2>2, <2>3 DEF Q, InQueue, Bit
  <2>5. W = 0 /\ W' = b /\ b \in {0, 1}
    BY <1>5, <2>1, BitType
  <2> HIDE DEF b
  <2>6. Q' + B' + R' + W' + G' + D' = Bit(i <= made')
    BY <1>1, <1>2, <1>4, <2>1, <2>4, <2>5
  <2>7. worker' \in [at : {"send", "fallback"}, item : Nat]
    BY <2>1, <2>2
  <2> QED BY <1>3, <1>4, <1>6, <1>7, <2>1, <2>2, <2>6, <2>7
<1>11. CASE WorkerSend
  <2>1. /\ UNCHANGED <<queue, normal, ring, made, dropped>> /\ worker.at = "send"
        /\ \/ delivered' = delivered \cup {worker.item} /\ worker' = Idle
           \/ worker' = [worker EXCEPT !.at = "fallback"] /\ UNCHANGED delivered
    BY <1>11 DEF WorkerSend, cache
  <2>2. worker \in [at : {"send", "fallback"}, item : Nat]
    BY <2>1 DEF Carried, Idle
  <2>3. CASE delivered' = delivered \cup {worker.item} /\ worker' = Idle
    <3>1. D + Bit(worker.item = i) <= 1
      BY <1>1, <1>2, <1>5
    <3>2. D' = D + W /\ W' = 0
      BY <1>5, <1>8, <2>3, <3>1
    <3>3. Q' + B' + R' + W' + G' + D' = Bit(i <= made')
      BY <1>1, <1>2, <1>4, <2>1, <3>2
    <3> QED BY <1>3, <1>4, <1>6, <1>7, <2>1, <2>3, <3>3
  <2>4. CASE worker' = [worker EXCEPT !.at = "fallback"] /\ UNCHANGED delivered
    <3>1. worker' \in [at : {"send", "fallback"}, item : Nat] /\ worker'.item = worker.item
      BY <2>2, <2>4
    <3>2. W' = W
      BY <1>5, <3>1
    <3>3. Q' + B' + R' + W' + G' + D' = Bit(i <= made')
      BY <1>2, <1>4, <2>1, <2>4, <3>2
    <3> QED BY <1>3, <1>4, <1>6, <1>7, <2>1, <3>1, <3>3
  <2> QED BY <2>1, <2>3, <2>4
<1>12. CASE WorkerFallBack
  <2>1. /\ worker.at = "fallback" /\ worker' = Idle /\ FallBack(worker.item)
        /\ UNCHANGED <<queue, ring, made, delivered>>
    BY <1>12 DEF WorkerFallBack, cache
  <2>2. worker.item \in Nat
    BY <2>1 DEF Carried, Idle
  <2>3. i = worker.item => G = 0
    BY <1>1, <1>2, <1>5 DEF Bit
  <2>4. /\ normal' \in Seq(Events) /\ dropped' \in [Reasons -> SUBSET Nat]
        /\ (B' = B + W /\ G' = G) \/ (B' = B /\ G' = G + W)
    BY <1>5, <2>1, <2>2, <2>3, FellBack DEF B, G
  <2>5. W' = 0
    BY <1>5, <2>1
  <2>6. Q' + B' + R' + W' + G' + D' = Bit(i <= made')
    BY <1>1, <1>2, <1>4, <2>1, <2>4, <2>5
  <2> QED BY <1>3, <1>4, <1>6, <1>7, <2>1, <2>4, <2>6
<1>13. CASE OnUpload
  <2> DEFINE item == Head(normal).item
             b == Bit(item = i)
  <2>1. /\ Serve("upload") /\ normal' = Tail(normal)
        /\ UNCHANGED <<queue, worker, made, delivered>>
        /\ \/ \E r \in Reasons : Lose(r, {item}) /\ UNCHANGED ring
           \/ ring' = Pushed(item) /\ Lose("overwritten", Overwritten)
    BY <1>13 DEF OnUpload, upload, Reasons
  <2>2. normal' \in Seq(Events) /\ item \in Nat
    BY <2>1, Served
  <2>3. B = B' + b /\ B' \in Nat /\ b \in {0, 1} /\ b = Bit(i \in {item})
    BY <2>1, Served, BitType DEF B, Bit
  <2>4. i \in {item} => b = 1
    BY DEF Bit
  <2> HIDE DEF b
  <2>5. b = 1 => G = 0
    BY <1>1, <1>2, <2>3
  <2>6. Q' = Q /\ W' = W /\ D' = D /\ made' = made
    BY <1>4, <2>1
  <2>7. ASSUME NEW r \in Reasons, Lose(r, {item}), UNCHANGED ring
        PROVE  Carried' /\ Whole(i)'
    <3>1. dropped' \in [Reasons -> SUBSET Nat] /\ G' = G + Bit(i \in {item})
      BY <2>2, <2>4, <2>5, <2>7, Lost DEF G
    <3>2. G' = G + b /\ R' = R
      BY <1>4, <2>3, <2>7, <3>1
    <3>3. Q' + B' + R' + W' + G' + D' = Bit(i <= made')
      BY <1>1, <1>2, <2>3, <2>6, <3>2
    <3> QED BY <1>3, <1>4, <1>6, <1>7, <2>1, <2>2, <2>7, <3>1, <3>3
  <2>8. ASSUME ring' = Pushed(item), Lose("overwritten", Overwritten)
        PROVE  Carried' /\ Whole(i)'
    <3> DEFINE kept == IF Len(ring) = Capacity THEN Tail(ring) ELSE ring
               k == Number(kept, {i})
               o == Bit(i \in Overwritten)
    <3>1. kept \in Seq(Nat) /\ Overwritten \in SUBSET Nat /\ R = k + o
      <4>1. ring \in Seq(Nat) /\ (Len(ring) = Capacity => ring # <<>>)
        BY GatewayAssumption DEF Carried
      <4>2. CASE Len(ring) = Capacity
        <5>1. /\ Tail(ring) \in Seq(Nat) /\ Head(ring) \in Nat
              /\ Number(ring, {i}) = Number(Tail(ring), {i}) + Bit(Head(ring) \in {i})
          BY <4>1, <4>2, NumberTail
        <5>2. Overwritten = {Head(ring)} /\ kept = Tail(ring)
          BY <4>2 DEF Overwritten
        <5>3. o = Bit(Head(ring) \in {i})
          BY <5>2 DEF Bit
        <5> QED BY <5>1, <5>2, <5>3 DEF R, InRing
      <4>3. CASE Len(ring) # Capacity
        <5>1. Overwritten = {} /\ kept = ring
          BY <4>3 DEF Overwritten
        <5>2. o = 0
          BY <5>1 DEF Bit
        <5> QED BY <1>1, <4>1, <5>1, <5>2 DEF R, InRing
      <4> QED BY <4>2, <4>3
    <3>2. k \in Nat /\ o \in {0, 1} /\ (i \in Overwritten => o = 1)
      BY <3>1, NumberType, BitType DEF Bit
    <3>3. ring' = Append(kept, item) /\ Append(kept, item) \in Seq(Nat)
      BY <2>2, <2>8, <3>1 DEF Pushed
    <3>4. R' = k + b
      <4>1. Number(Append(kept, item), {i}) = k + Bit(item \in {i})
        BY <2>2, <3>1, NumberAppend
      <4>2. Bit(item \in {i}) = b
        BY DEF Bit, b
      <4> QED BY <3>3, <4>1, <4>2 DEF R, InRing
    <3>5. R = k + o
      BY <3>1
    <3> HIDE DEF o, k, kept
    <3>6. o = 1 => G = 0
      BY <1>1, <1>2, <3>2, <3>5
    <3>7. dropped' \in [Reasons -> SUBSET Nat] /\ G' = G + o
      <4>1. "overwritten" \in Reasons
        BY DEF Reasons
      <4> QED BY <2>8, <3>1, <3>2, <3>6, <4>1, Lost DEF G, o
    <3>8. G' = G + o
      BY <3>7
    <3>9. Q' + B' + R' + W' + G' + D' = Bit(i <= made')
      BY <1>1, <1>2, <2>3, <2>6, <3>2, <3>4, <3>5, <3>8
    <3> QED BY <1>3, <1>4, <1>6, <1>7, <2>1, <2>2, <3>3, <3>7, <3>9
  <2> QED BY <2>1, <2>7, <2>8
<1>14. CASE OnReplay
  <2> DEFINE item == Head(normal).item
             b == Bit(item = i)
  <2>1. /\ Serve("replay") /\ normal' = Tail(normal)
        /\ UNCHANGED <<queue, ring, worker, made>>
        /\ \/ delivered' = delivered \cup {item} /\ UNCHANGED dropped
           \/ Lose("replay", {item}) /\ UNCHANGED delivered
    BY <1>14 DEF OnReplay, upload, cache
  <2>2. normal' \in Seq(Events) /\ item \in Nat
    BY <2>1, Served
  <2>3. B = B' + b /\ B' \in Nat /\ b \in {0, 1} /\ b = Bit(i \in {item})
    BY <2>1, Served, BitType DEF B, Bit
  <2>4. i \in {item} => b = 1
    BY DEF Bit
  <2>5. delivered' = delivered \cup {item} /\ D + b <= 1 => D' = D + b
    BY <1>8
  <2> HIDE DEF b
  <2>6. (b = 1 => G = 0) /\ D + b <= 1
    BY <1>1, <1>2, <2>3
  <2>7. Q' = Q /\ R' = R /\ W' = W /\ made' = made
    BY <1>4, <2>1
  <2>8. CASE delivered' = delivered \cup {item} /\ UNCHANGED dropped
    <3>1. D' = D + b /\ G' = G
      BY <1>4, <2>5, <2>6, <2>8
    <3>2. Q' + B' + R' + W' + G' + D' = Bit(i <= made')
      BY <1>1, <1>2, <2>3, <2>7, <3>1
    <3> QED BY <1>3, <1>4, <1>6, <1>7, <2>1, <2>2, <2>8, <3>2
  <2>9. CASE Lose("replay", {item}) /\ UNCHANGED delivered
    <3>1. dropped' \in [Reasons -> SUBSET Nat] /\ G' = G + Bit(i \in {item})
      BY <2>2, <2>4, <2>6, <2>9, Lost DEF G, Reasons
    <3>2. G' = G + b /\ D' = D
      BY <1>4, <2>3, <2>9, <3>1
    <3>3. Q' + B' + R' + W' + G' + D' = Bit(i <= made')
      BY <1>1, <1>2, <2>3, <2>7, <3>2
    <3> QED BY <1>3, <1>4, <1>6, <1>7, <2>1, <2>2, <3>1, <3>3
  <2> QED BY <2>1, <2>8, <2>9
<1>15. CASE WorkPublish
  <2> DEFINE b == Bit(Head(ring) = i)
  <2>1. /\ ring # <<>> /\ ring' = Tail(ring) /\ Publish("replay", Head(ring))
        /\ UNCHANGED <<queue, worker, made, dropped, delivered>>
    BY <1>15 DEF WorkPublish, InBatch, upload, fate
  <2>2. /\ ring' \in Seq(Nat) /\ Head(ring) \in Nat
        /\ Number(ring, {i}) = Number(ring', {i}) + Bit(Head(ring) \in {i})
    BY <2>1, NumberTail DEF Carried
  <2>3. Number(ring', {i}) \in Nat
    BY <2>2, NumberType
  <2>4. R = R' + b /\ R' \in Nat /\ b \in {0, 1}
    BY <2>2, <2>3 DEF R, InRing, Bit
  <2>5. normal' \in Seq(Events) /\ B' = B + b
    BY <2>1, <2>2, Published DEF B
  <2> HIDE DEF b
  <2>6. Q' + B' + R' + W' + G' + D' = Bit(i <= made')
    BY <1>1, <1>2, <1>4, <2>1, <2>4, <2>5
  <2> QED BY <1>3, <1>4, <1>6, <1>7, <2>1, <2>2, <2>5, <2>6
<1>16. CASE \/ SessionChanges \/ Announce \/ OnLink \/ WorkBegin \/ WorkEnd
            \/ CacheStop \/ CacheStart \/ UNCHANGED vars
  <2>1. UNCHANGED <<queue, normal, ring, worker, made, dropped, delivered>>
    BY <1>16 DEF SessionChanges, Announce, OnLink, WorkBegin, WorkEnd, CacheStop,
       CacheStart, vars, cache, upload, fate
  <2>2. Q' + B' + R' + W' + G' + D' = Bit(i <= made')
    BY <1>2, <1>4, <2>1
  <2> QED BY <1>3, <1>4, <1>6, <1>7, <2>1, <2>2
<1> QED
  BY <1>9, <1>10, <1>11, <1>12, <1>13, <1>14, <1>15, <1>16
     DEF Next, Worker, Dispatcher, Work

\* Every reading that has arrived is in one place, or ended in one way: no copy is
\* made and none disappears on its way through the queue of cloud_upload, the bus
\* and the ring of the cache, for any sizes of them and whatever may fail.
THEOREM AlwaysConserved == Spec => []Conserved
<1> DEFINE Inv == Carried /\ \A i \in Nat \ {0} : Whole(i)
<1>1. Init => Inv
  <2> SUFFICES ASSUME Init PROVE Inv
    OBVIOUS
  <2>1. queue = <<>> /\ normal = <<>> /\ ring = <<>> /\ worker = Idle /\ made = 0
        /\ delivered = {} /\ dropped = [r \in Reasons |-> {}]
    BY DEF Init
  <2>2. Carried
    <3>1. \A S : <<>> \in Seq(S)
      OBVIOUS
    <3>2. dropped \in [Reasons -> SUBSET Nat]
      BY <2>1
    <3> QED BY <2>1, <3>1, <3>2 DEF Carried
  <2>3. ASSUME NEW i \in Nat \ {0} PROVE Whole(i)
    <3>1. \A A : Number(<<>>, A) = 0
      BY FS_EmptySet DEF Number, Spots
    <3>2. InQueue(i) = 0 /\ OnTheBus(i) = 0 /\ InRing(i) = 0
      BY <2>1, <3>1 DEF InQueue, OnTheBus, InRing
    <3>3. GivenUp(i) = 0
      <4>1. {r \in Reasons : i \in dropped[r]} = {}
        BY <2>1
      <4> QED BY <4>1, FS_EmptySet DEF GivenUp
    <3>4. InHand(i) = 0 /\ Delivered(i) = 0 /\ Bit(i <= made) = 0
      BY <2>1 DEF InHand, Delivered, Bit, Idle
    <3> QED BY <3>2, <3>3, <3>4 DEF Whole
  <2> QED BY <2>2, <2>3
<1>2. Inv /\ [Next]_vars => Inv'
  <2> SUFFICES ASSUME Inv, [Next]_vars PROVE Inv'
    OBVIOUS
  <2>1. ASSUME NEW i \in Nat \ {0} PROVE Carried' /\ Whole(i)'
    BY WholeInductive
  <2> QED BY <2>1
<1>3. Inv => Conserved
  <2> SUFFICES ASSUME Inv, NEW i \in 1 .. made
               PROVE  Copies(i) + Cardinality({r \in Reasons : i \in dropped[r]})
                        + (IF i \in delivered THEN 1 ELSE 0) = 1
    BY DEF Conserved
  <2>1. i \in Nat \ {0} /\ i <= made
    BY DEF Carried
  <2> QED BY <2>1, WholeConserves
<1> QED BY <1>1, <1>2, <1>3, PTL DEF Spec

-----------------------------------------------------------------------------
(* Types, and the bounds of every place                                    *)

Bounded(q, S, n) == q \in Seq(S) /\ Len(q) <= n

LEMMA BoundedAppend ==
  ASSUME NEW S, NEW n \in Nat, NEW q \in Seq(S), Len(q) < n, NEW e \in S
  PROVE  Bounded(Append(q, e), S, n)
<1>1. Append(q, e) \in Seq(S) /\ Len(Append(q, e)) = Len(q) + 1 /\ Len(q) \in Nat
  BY AppendProperties
<1> QED BY <1>1 DEF Bounded

LEMMA BoundedTail ==
  ASSUME NEW S, NEW n \in Nat, NEW q, Bounded(q, S, n), q # <<>>
  PROVE  Head(q) \in S /\ Bounded(Tail(q), S, n) /\ Len(Tail(q)) < n
<1>1. q \in Seq(S) /\ Len(q) \in Nat /\ Len(q) <= n
  BY DEF Bounded
<1>2. Head(q) \in S /\ Tail(q) \in Seq(S) /\ Len(Tail(q)) = Len(q) - 1
  BY <1>1, HeadTailProperties
<1> QED BY <1>1, <1>2 DEF Bounded

Flags ==
  /\ session \in BOOLEAN /\ say \in BOOLEAN /\ link \in BOOLEAN /\ running \in BOOLEAN
  /\ armed \in BOOLEAN /\ batch \in BOOLEAN /\ blind \in BOOLEAN

BusEvents == [kind : {"upload", "replay"}, item : Items]
Places ==
  /\ Bounded(high, BOOLEAN, BusSize) /\ Bounded(normal, BusEvents, BusSize)
  /\ Bounded(ring, Items, Capacity) /\ Bounded(queue, Items, Depth)
  /\ sent \in 0 .. Batch /\ (~batch => sent = 0)
  /\ worker = Idle \/ worker \in [at : {"send", "fallback"}, item : Items]
  /\ made \in 0 .. MaxItems

Ends == delivered \subseteq Items /\ dropped \in [Reasons -> SUBSET Items]

LEMMA TypesSplit == Flags /\ Places /\ Ends => TypeOK
<1> SUFFICES ASSUME Flags, Places, Ends PROVE TypeOK
  OBVIOUS
<1>1. {session, say, link, running, armed, batch, blind} \subseteq BOOLEAN
  BY Zenon DEF Flags
<1>2. sent \in IF batch THEN 0 .. Batch ELSE {0}
  BY DEF Places
<1>3. /\ high \in Seq(BOOLEAN) /\ Len(high) <= BusSize
      /\ normal \in Seq([kind : {"upload", "replay"}, item : Items]) /\ Len(normal) <= BusSize
      /\ ring \in Seq(Items) /\ Len(ring) <= Capacity
      /\ queue \in Seq(Items) /\ Len(queue) <= Depth
  BY DEF Places, Bounded, BusEvents
<1>4. /\ worker = Idle \/ worker \in [at : {"send", "fallback"}, item : Items]
      /\ made \in 0 .. MaxItems
  BY DEF Places
<1> QED BY <1>1, <1>2, <1>3, <1>4 DEF TypeOK, Ends

LEMMA SizesNatural ==
  /\ BusSize \in Nat \ {0} /\ Capacity \in Nat \ {0} /\ Depth \in Nat \ {0}
  /\ Batch \in Nat \ {0} /\ MaxItems \in Nat
BY GatewayAssumption

\* A reading given up.
LEMMA LoseTypes ==
  ASSUME Ends, NEW r \in Reasons, NEW items \in SUBSET Items, Lose(r, items)
  PROVE  dropped' \in [Reasons -> SUBSET Items]
BY DEF Ends, Lose

\* An event on the bus.
LEMMA PublishTypes ==
  ASSUME Places, NEW kind \in {"upload", "replay"}, NEW item \in Items, Publish(kind, item)
  PROVE  Bounded(normal', BusEvents, BusSize)
<1>1. Event(kind, item) \in BusEvents
  BY DEF Event, BusEvents
<1>2. normal \in Seq(BusEvents) /\ Len(normal) < BusSize
  BY DEF Places, Bounded, Publish, Room
<1>3. normal' = Append(normal, Event(kind, item))
  BY DEF Publish
<1> QED BY <1>1, <1>2, <1>3, BoundedAppend, SizesNatural

LEMMA FallBackTypes ==
  ASSUME Places, Ends, NEW item \in Items, FallBack(item)
  PROVE  Bounded(normal', BusEvents, BusSize) /\ dropped' \in [Reasons -> SUBSET Items]
<1>1. CASE Publish("upload", item) /\ UNCHANGED dropped
  <2>1. Bounded(normal', BusEvents, BusSize)
    BY <1>1, PublishTypes
  <2> QED BY <1>1, <2>1 DEF Ends
<1>2. CASE Lose("refused", {item}) /\ UNCHANGED normal
  <2>1. dropped' \in [Reasons -> SUBSET Items]
    BY <1>2, LoseTypes DEF Reasons
  <2> QED BY <1>2, <2>1 DEF Places
<1> QED BY <1>1, <1>2 DEF FallBack

\* The steps of cloud_upload.
LEMMA UploadTypes ==
  ASSUME Flags, Places, Ends, Arrive \/ Worker
  PROVE  Flags' /\ Places' /\ Ends'
<1>1. CASE Arrive
  <2>1. /\ made' \in 0 .. MaxItems /\ made' \in Items
        /\ UNCHANGED <<uplink, cache, worker, delivered>>
    BY <1>1, SizesNatural DEF Arrive, Places, Items
  <2>2. /\ Bounded(queue', Items, Depth) /\ Bounded(normal', BusEvents, BusSize)
        /\ dropped' \in [Reasons -> SUBSET Items]
    <3>1. CASE Len(queue) < Depth
      <4>1. queue' = Append(queue, made') /\ UNCHANGED <<normal, dropped>>
        BY <1>1, <3>1 DEF Arrive
      <4>2. Bounded(queue', Items, Depth)
        BY <2>1, <3>1, <4>1, BoundedAppend, SizesNatural DEF Places, Bounded
      <4> QED BY <4>1, <4>2 DEF Places, Ends
    <3>2. CASE ~(Len(queue) < Depth)
      <4>1. FallBack(made') /\ UNCHANGED queue
        BY <1>1, <3>2 DEF Arrive
      <4> QED BY <2>1, <4>1, FallBackTypes DEF Places
    <3> QED BY <3>1, <3>2
  <2>3. UNCHANGED <<session, say, high, blind, link, running, armed, batch, sent, ring>>
    BY <2>1 DEF uplink, cache
  <2> QED BY <2>1, <2>2, <2>3 DEF Flags, Places, Ends
<1>2. CASE WorkerTake
  <2>1. Head(queue) \in Items /\ Bounded(Tail(queue), Items, Depth)
    BY <1>2, BoundedTail, SizesNatural DEF WorkerTake, Places
  <2>2. /\ worker' \in [at : {"send", "fallback"}, item : Items] /\ queue' = Tail(queue)
        /\ UNCHANGED <<session, say, high, blind, link, running, armed, batch, sent, ring,
                       normal, made, delivered, dropped>>
    BY <1>2, <2>1 DEF WorkerTake, uplink, cache, fate
  <2> QED BY <2>1, <2>2 DEF Flags, Places, Ends
<1>3. CASE WorkerSend
  <2>1. worker \in [at : {"send", "fallback"}, item : Items]
    BY <1>3 DEF WorkerSend, Places, Idle
  <2>2. /\ worker' = Idle \/ worker' \in [at : {"send", "fallback"}, item : Items]
        /\ delivered' \subseteq Items
    BY <1>3, <2>1 DEF WorkerSend, Ends
  <2>3. UNCHANGED <<session, say, high, blind, link, running, armed, batch, sent, ring,
                    normal, queue, made, dropped>>
    BY <1>3 DEF WorkerSend, uplink, cache
  <2> QED BY <2>2, <2>3 DEF Flags, Places, Ends
<1>4. CASE WorkerFallBack
  <2>1. worker.item \in Items
    BY <1>4 DEF WorkerFallBack, Places, Idle
  <2>2. Bounded(normal', BusEvents, BusSize) /\ dropped' \in [Reasons -> SUBSET Items]
    BY <1>4, <2>1, FallBackTypes DEF WorkerFallBack
  <2>3. /\ worker' = Idle
        /\ UNCHANGED <<session, say, high, blind, link, running, armed, batch, sent, ring,
                       queue, made, delivered>>
    BY <1>4 DEF WorkerFallBack, uplink, cache
  <2> QED BY <2>2, <2>3 DEF Flags, Places, Ends
<1> QED BY <1>1, <1>2, <1>3, <1>4 DEF Worker

\* The session, and what the cache hears of it.
LEMMA LinkTypes ==
  ASSUME Flags, Places, Ends, SessionChanges \/ Announce \/ OnLink
  PROVE  Flags' /\ Places' /\ Ends'
<1>1. CASE SessionChanges
  <2>1. session' \in BOOLEAN /\ say' = TRUE
    BY <1>1, Zenon DEF SessionChanges, Flags
  <2>2. UNCHANGED <<high, blind, normal, link, running, armed, batch, sent, ring, queue,
                    worker, made, delivered, dropped>>
    BY <1>1 DEF SessionChanges, cache, upload, fate
  <2> QED BY <2>1, <2>2 DEF Flags, Places, Ends
<1>2. CASE Announce
  <2>1. UNCHANGED <<session, normal, link, running, armed, batch, sent, ring, queue, worker,
                    made, delivered, dropped>>
    BY <1>2 DEF Announce, cache, upload, fate
  <2>2. say' = FALSE /\ blind' \in BOOLEAN
    BY <1>2 DEF Announce
  <2>3. Bounded(high', BOOLEAN, BusSize)
    <3>1. CASE UNCHANGED high
      BY <3>1 DEF Places
    <3>2. CASE Room(high) /\ high' = Append(high, session)
      <4>1. high \in Seq(BOOLEAN) /\ Len(high) < BusSize /\ session \in BOOLEAN
        BY <3>2 DEF Places, Flags, Bounded, Room
      <4> QED BY <3>2, <4>1, BoundedAppend, SizesNatural
    <3> QED BY <1>2, <3>1, <3>2 DEF Announce
  <2> QED BY <2>1, <2>2, <2>3 DEF Flags, Places, Ends
<1>3. CASE OnLink
  <2>1. high # <<>> /\ high' = Tail(high) /\ Bounded(high, BOOLEAN, BusSize)
    BY <1>3 DEF OnLink, Places
  <2>2. Head(high) \in BOOLEAN /\ Bounded(high', BOOLEAN, BusSize)
    BY <2>1, BoundedTail, SizesNatural
  <2>3. link' \in BOOLEAN /\ armed' \in BOOLEAN
    BY <1>3, <2>2, Zenon DEF OnLink, Flags
  <2>4. UNCHANGED <<session, say, blind, normal, running, batch, sent, ring, queue, worker,
                    made, delivered, dropped>>
    BY <1>3 DEF OnLink, upload, fate
  <2> QED BY <2>2, <2>3, <2>4 DEF Flags, Places, Ends
<1> QED BY <1>1, <1>2, <1>3

\* What the ring has for one more entry.
LEMMA PushedTypes ==
  ASSUME Places, NEW item \in Items
  PROVE  Bounded(Pushed(item), Items, Capacity) /\ Overwritten \in SUBSET Items
<1>1. /\ Bounded(ring, Items, Capacity) /\ ring \in Seq(Items)
      /\ Len(ring) <= Capacity /\ Len(ring) \in Nat
  BY DEF Places, Bounded
<1>2. CASE Len(ring) = Capacity
  <2>1. ring # <<>>
    BY <1>1, <1>2, SizesNatural, EmptySeq
  <2>2. Head(ring) \in Items /\ Bounded(Tail(ring), Items, Capacity) /\ Len(Tail(ring)) < Capacity
    BY <1>1, <2>1, BoundedTail, SizesNatural
  <2>3. Bounded(Append(Tail(ring), item), Items, Capacity)
    BY <2>2, BoundedAppend, SizesNatural DEF Bounded
  <2> QED BY <1>2, <2>2, <2>3 DEF Pushed, Overwritten
<1>3. CASE Len(ring) # Capacity
  <2>1. Len(ring) < Capacity
    BY <1>1, <1>3, SizesNatural
  <2>2. Bounded(Append(ring, item), Items, Capacity)
    BY <1>1, <2>1, BoundedAppend, SizesNatural
  <2> QED BY <1>3, <2>2 DEF Pushed, Overwritten
<1> QED BY <1>2, <1>3

\* A NORMAL event that the dispatcher hands out.
LEMMA ServeTypes ==
  ASSUME Places, NEW kind, Serve(kind)
  PROVE  Head(normal).item \in Items /\ Bounded(Tail(normal), BusEvents, BusSize)
<1>1. Head(normal) \in BusEvents /\ Bounded(Tail(normal), BusEvents, BusSize)
  BY BoundedTail, SizesNatural DEF Serve, Places
<1> QED BY <1>1 DEF BusEvents

LEMMA DispatchTypes ==
  ASSUME Flags, Places, Ends, OnUpload \/ OnReplay
  PROVE  Flags' /\ Places' /\ Ends'
<1> DEFINE item == Head(normal).item
<1>1. item \in Items /\ Bounded(normal', BusEvents, BusSize)
  BY ServeTypes DEF OnUpload, OnReplay
<1> HIDE DEF item
<1>2. CASE OnUpload
  <2>1. /\ UNCHANGED <<session, say, high, blind, link, running, armed, batch, sent, queue,
                       worker, made, delivered>>
        /\ \/ \E r \in {"stopped", "connected", "flash"} : Lose(r, {item}) /\ UNCHANGED ring
           \/ ring' = Pushed(item) /\ Lose("overwritten", Overwritten)
    BY <1>2 DEF OnUpload, uplink, upload, item
  <2>2. CASE \E r \in {"stopped", "connected", "flash"} : Lose(r, {item}) /\ UNCHANGED ring
    <3>1. dropped' \in [Reasons -> SUBSET Items] /\ UNCHANGED ring
      BY <1>1, <2>2, LoseTypes DEF Reasons
    <3> QED BY <1>1, <2>1, <3>1 DEF Flags, Places, Ends
  <2>3. CASE ring' = Pushed(item) /\ Lose("overwritten", Overwritten)
    <3>1. Bounded(ring', Items, Capacity) /\ dropped' \in [Reasons -> SUBSET Items]
      BY <1>1, <2>3, PushedTypes, LoseTypes DEF Reasons
    <3> QED BY <1>1, <2>1, <3>1 DEF Flags, Places, Ends
  <2> QED BY <2>1, <2>2, <2>3
<1>3. CASE OnReplay
  <2>1. /\ UNCHANGED <<session, say, high, blind, link, running, armed, batch, sent, ring,
                       queue, worker, made>>
        /\ \/ delivered' = delivered \cup {item} /\ UNCHANGED dropped
           \/ Lose("replay", {item}) /\ UNCHANGED delivered
    BY <1>3 DEF OnReplay, uplink, cache, upload, item
  <2>2. Ends'
    <3>1. CASE delivered' = delivered \cup {item} /\ UNCHANGED dropped
      BY <1>1, <3>1 DEF Ends
    <3>2. CASE Lose("replay", {item}) /\ UNCHANGED delivered
      <4>1. dropped' \in [Reasons -> SUBSET Items]
        BY <1>1, <3>2, LoseTypes DEF Reasons
      <4> QED BY <3>2, <4>1 DEF Ends
    <3> QED BY <2>1, <3>1, <3>2
  <2> QED BY <1>1, <2>1, <2>2 DEF Flags, Places
<1> QED BY <1>2, <1>3

\* The work item, which hands on no more than a batch, and the module manager.
LEMMA WorkTypes ==
  ASSUME Flags, Places, Ends, Work \/ CacheStop \/ CacheStart
  PROVE  Flags' /\ Places' /\ Ends'
<1>1. CASE WorkBegin
  <2>1. /\ armed' = FALSE /\ batch' = (running /\ link) /\ ~batch
        /\ UNCHANGED <<session, say, high, blind, normal, link, running, sent, ring, queue,
                       worker, made, delivered, dropped>>
    BY <1>1 DEF WorkBegin, uplink, upload, fate
  <2>2. batch' \in BOOLEAN
    BY <2>1
  <2> QED BY <2>1, <2>2 DEF Flags, Places, Ends
<1>2. CASE WorkPublish
  <2>1. /\ ring # <<>> /\ ring' = Tail(ring) /\ sent' = sent + 1 /\ sent < Batch /\ batch
        /\ Publish("replay", Head(ring))
        /\ UNCHANGED <<session, say, high, blind, link, running, armed, batch, queue, worker,
                       made, delivered, dropped>>
    BY <1>2 DEF WorkPublish, InBatch, uplink, upload, fate
  <2>2. Head(ring) \in Items /\ Bounded(ring', Items, Capacity)
    BY <2>1, BoundedTail, SizesNatural DEF Places
  <2>3. Bounded(normal', BusEvents, BusSize)
    BY <2>1, <2>2, PublishTypes
  <2>4. sent' \in 0 .. Batch
    BY <2>1, SizesNatural DEF Places
  <2>5. Places'
    BY <2>1, <2>2, <2>3, <2>4 DEF Places
  <2> QED BY <2>1, <2>5 DEF Flags, Ends
<1>3. CASE WorkEnd
  <2>1. /\ batch' = FALSE /\ sent' = 0
        /\ UNCHANGED <<session, say, high, blind, normal, link, running, ring, queue, worker,
                       made, delivered, dropped>>
    BY <1>3 DEF WorkEnd, uplink, upload, fate
  <2>2. armed' \in BOOLEAN
    BY <1>3 DEF WorkEnd
  <2>3. sent' \in 0 .. Batch
    BY <2>1, SizesNatural
  <2> QED BY <2>1, <2>2, <2>3 DEF Flags, Places, Ends
<1>4. CASE CacheStop
  <2>1. /\ running' = FALSE /\ armed' = FALSE
        /\ UNCHANGED <<session, say, high, blind, normal, link, batch, sent, ring, queue,
                       worker, made, delivered, dropped>>
    BY <1>4 DEF CacheStop, uplink, upload, fate
  <2> QED BY <2>1 DEF Flags, Places, Ends
<1>5. CASE CacheStart
  <2>1. /\ running' = TRUE /\ link' = FALSE
        /\ UNCHANGED <<session, say, high, normal, armed, batch, sent, ring, queue, worker,
                       made, delivered, dropped>>
    BY <1>5 DEF CacheStart, upload, fate
  <2>2. blind' \in BOOLEAN
    BY <1>5, Zenon DEF CacheStart, Flags
  <2> QED BY <2>1, <2>2 DEF Flags, Places, Ends
<1> QED BY <1>1, <1>2, <1>3, <1>4, <1>5 DEF Work

\* For every size and any faults: no place ever holds more than the code has room
\* for (queue, ring, bus, batch), and nothing but readings that have arrived.
THEOREM TypeCorrect == Spec => []TypeOK
<1> DEFINE Typed == Flags /\ Places /\ Ends
<1>1. Init => Typed
  <2> SUFFICES ASSUME Init PROVE Typed
    OBVIOUS
  <2>1. Flags
    BY DEF Init, Flags
  <2>2. \A S : \A n \in Nat : Bounded(<<>>, S, n)
    BY EmptySeq DEF Bounded
  <2>3. 0 \in 0 .. Batch /\ 0 \in 0 .. MaxItems
    BY SizesNatural
  <2>4. Places
    BY <2>2, <2>3, SizesNatural DEF Init, Places
  <2>5. Ends
    BY DEF Init, Ends
  <2> QED BY <2>1, <2>4, <2>5
<1>2. Typed /\ [Next]_vars => Typed'
  <2> SUFFICES ASSUME Typed, [Next]_vars PROVE Typed'
    OBVIOUS
  <2>1. CASE UNCHANGED vars
    BY <2>1 DEF vars, uplink, cache, upload, fate, Flags, Places, Ends
  <2> QED
    BY <2>1, UploadTypes, LinkTypes, DispatchTypes, WorkTypes DEF Next, Dispatcher
<1>3. Typed => TypeOK
  BY TypesSplit
<1> QED BY <1>1, <1>2, <1>3, PTL DEF Spec
=============================================================================
