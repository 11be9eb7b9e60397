----------------------- MODULE AnomalyDetectionProofs -----------------------
(* Theorems about AnomalyDetection, for every window, clock and set of     *)
(* sensor types.                                                           *)
EXTENDS AnomalyDetection, FiniteSetTheorems, WellFoundedInduction, TLAPS

-----------------------------------------------------------------------------
(* The window                                                              *)

\* A full window stays full.
LEMMA UpdateKeepsFull ==
  ASSUME NEW w, Full(w), NEW v
  PROVE  Full(UpdateWindow(w, v))
BY DEF Full, UpdateWindow

\* Only a full window gives a verdict.
LEMMA VerdictNeedsFull ==
  ASSUME NEW t, NEW w, NEW v, NEW score, Detect(t, w, v, score) # None
  PROVE  Full(w)
BY DEF Detect

-----------------------------------------------------------------------------
(* The rule over two sensors                                               *)

\* No verdict outlives the window it was judged by.
THEOREM LevelsHaveBaselines == Spec => []LevelHasBaseline
<1> DEFINE Fun == /\ win = [t \in Types |-> win[t]]
                  /\ lastLevel = [t \in Types |-> lastLevel[t]]
           Inv == Fun /\ LevelHasBaseline
<1>1. Init => Inv
  BY DEF Init, LevelHasBaseline
<1>2. Inv /\ [Next]_vars => Inv'
  <2> SUFFICES ASSUME Inv, [Next]_vars PROVE Inv'
    OBVIOUS
  <2>1. CASE \E t \in Types, v \in Samples, score \in Scores \cup {Flat} : Take(t, v, score)
    <3> PICK t \in Types, v \in Samples, score \in Scores \cup {Flat} : Take(t, v, score)
      BY <2>1
    <3>1. /\ lastLevel' = [lastLevel EXCEPT ![t] = Detect(t, win[t], v, score)]
          /\ win' = [win EXCEPT ![t] = UpdateWindow(win[t], v)]
      BY DEF Take
    <3>2. Fun'
      BY <3>1
    <3>3. ASSUME NEW u \in Types, lastLevel'[u] # None PROVE Full(win'[u])
      <4>1. CASE u = t
        BY <3>1, <3>3, <4>1, UpdateKeepsFull, VerdictNeedsFull
      <4>2. CASE u # t
        BY <3>1, <3>3, <4>2 DEF LevelHasBaseline
      <4> QED BY <4>1, <4>2
    <3> QED BY <3>2, <3>3 DEF LevelHasBaseline
  <2>2. CASE \E t \in Types : ResetWindow(t)
    <3> PICK t \in Types : ResetWindow(t)
      BY <2>2
    <3>1. /\ lastLevel' = [lastLevel EXCEPT ![t] = None]
          /\ win' = [win EXCEPT ![t] = EmptyWindow]
      BY DEF ResetWindow
    <3> QED BY <3>1 DEF LevelHasBaseline
  <2>3. CASE UNCHANGED <<win, lastLevel>>
    BY <2>3 DEF LevelHasBaseline, Full
  <2>4. UNCHANGED <<win, lastLevel>> \/ (\E t \in Types, v \in Samples,
             score \in Scores \cup {Flat} : Take(t, v, score)) \/ (\E t \in Types : ResetWindow(t))
    BY DEF Next, Sensor, Control, vars, detector, lifecycle, Callback, Drop, SetThreshold,
           Start, Stop, StopDone, Shutdown, Tick
  <2> QED BY <2>1, <2>2, <2>3, <2>4
<1>3. QED
  BY <1>1, <1>2, PTL DEF Spec

-----------------------------------------------------------------------------
(* The clock                                                               *)

\* Division with remainder.
LEMMA Division ==
  ASSUME NEW M \in Nat \ {0}, NEW a \in Int
  PROVE  /\ a = M * (a \div M) + (a % M)
         /\ a % M \in 0 .. M - 1 /\ a \div M \in Int
OBVIOUS

\* The remainder of a difference of two remainders.
LEMMA Wrap ==
  ASSUME NEW M \in Nat \ {0}, NEW x \in Int, -M < x, x < M
  PROVE  x % M = IF x < 0 THEN x + M ELSE x
<1>1. CASE x < 0
  BY <1>1
<1>2. CASE x >= 0
  BY <1>2
<1> QED BY <1>1, <1>2

\* In the arithmetic of the clock no time looks longer than it was, whatever wraps.
LEMMA AgeIsNoMore ==
  ASSUME NEW M \in Nat \ {0}, NEW a \in Nat, NEW b \in Nat, a <= b
  PROVE  ((b % M) - (a % M)) % M <= b - a
<1> DEFINE qa == a \div M
           qb == b \div M
           ra == a % M
           rb == b % M
<1>1. /\ a = M * qa + ra /\ b = M * qb + rb
      /\ ra \in 0 .. M - 1 /\ rb \in 0 .. M - 1 /\ qa \in Int /\ qb \in Int
  BY Division
<1> HIDE DEF qa, qb, ra, rb
<1>2. b - a = M * (qb - qa) + (rb - ra)
  BY <1>1
<1>3. (rb - ra) % M = IF rb - ra < 0 THEN (rb - ra) + M ELSE rb - ra
  <2>1. rb - ra \in Int /\ -M < rb - ra /\ rb - ra < M
    BY <1>1
  <2> QED BY <2>1, Wrap
<1>4. qb >= qa
  <2> SUFFICES ASSUME qb - qa <= -1 PROVE FALSE
    BY <1>1
  <2>1. M * (qb - qa) <= -M
    BY <1>1
  <2> QED BY <1>1, <1>2, <2>1
<1>5. CASE rb < ra
  <2>1. qb - qa >= 1
    <3> SUFFICES ASSUME qb = qa PROVE FALSE
      BY <1>1, <1>4
    <3> QED BY <1>1, <1>5
  <2>2. M * (qb - qa) >= M
    BY <1>1, <2>1
  <2> QED BY <1>1, <1>2, <1>3, <1>5, <2>2 DEF ra, rb
<1>6. CASE rb >= ra
  <2>1. M * (qb - qa) >= 0
    BY <1>1, <1>4
  <2> QED BY <1>1, <1>2, <1>3, <1>6, <2>1 DEF ra, rb
<1> QED BY <1>1, <1>5, <1>6

-----------------------------------------------------------------------------
(* The rate limit                                                          *)

\* lastAlert is the uptime at which the last alert since a reset was published.
Stamped ==
  /\ time \in Nat
  /\ alertedAt = [t \in Types |-> alertedAt[t]]
  /\ lastAlert = [t \in Types |-> lastAlert[t]]
  /\ \A t \in Types : alertedAt[t] # Never =>
       /\ alertedAt[t] \in 0 .. time
       /\ lastAlert[t] = alertedAt[t] % ClockMod

\* An alert that MayAlert lets through keeps its distance in real time.
LEMMA AlertKeepsDistance ==
  ASSUME Stamped, NEW t \in Types, alertedAt[t] # Never, MayAlert(t)
  PROVE  time - alertedAt[t] >= Interval
<1>1. /\ ClockMod \in Nat \ {0} /\ Interval \in Nat
  BY AnomalyAssumption
<1>2. /\ time \in Nat /\ alertedAt[t] \in Nat /\ alertedAt[t] <= time
      /\ lastAlert[t] = alertedAt[t] % ClockMod
  BY DEF Stamped
<1>3. ((time % ClockMod) - (alertedAt[t] % ClockMod)) % ClockMod <= time - alertedAt[t]
  BY <1>1, <1>2, AgeIsNoMore
<1>4. ((time % ClockMod) - (alertedAt[t] % ClockMod)) % ClockMod >= Interval
  BY <1>2 DEF MayAlert, Age, Uptime
<1>5. ((time % ClockMod) - (alertedAt[t] % ClockMod)) % ClockMod \in Int
  <2>1. time % ClockMod \in Int /\ alertedAt[t] % ClockMod \in Int
    BY <1>1, <1>2, Division
  <2>2. (time % ClockMod) - (alertedAt[t] % ClockMod) \in Int
    BY <2>1
  <2> QED BY <1>1, <2>2, Division
<1> QED BY <1>1, <1>2, <1>3, <1>4, <1>5

\* What a step does to the time stamps.
LEMMA StampStep ==
  ASSUME [Next]_vars
  PROVE  \/ UNCHANGED <<time, alertedAt, lastAlert>>
         \/ /\ time' = time + 1 /\ UNCHANGED <<alertedAt, lastAlert>>
         \/ \E t \in Types : /\ MayAlert(t) /\ UNCHANGED time
                             /\ lastAlert' = [lastAlert EXCEPT ![t] = Uptime]
                             /\ alertedAt' = [alertedAt EXCEPT ![t] = time]
         \/ \E t \in Types : /\ UNCHANGED time
                             /\ lastAlert' = [lastAlert EXCEPT ![t] = 0]
                             /\ alertedAt' = [alertedAt EXCEPT ![t] = Never]
<1>1. CASE \E t \in Types, v \in Samples, score \in Scores \cup {Flat} : Take(t, v, score)
  BY <1>1 DEF Take, Publish
<1>2. CASE \E t \in Types : ResetWindow(t)
  BY <1>2 DEF ResetWindow
<1>3. CASE Tick
  BY <1>3 DEF Tick, detector, history
<1>4. CASE \/ \E t \in Types, s \in Sigmas : SetThreshold(t, s)
           \/ \E v \in Samples : Drop(v)
           \/ Callback \/ Start \/ Stop \/ StopDone \/ Shutdown \/ UNCHANGED vars
  BY <1>4 DEF vars, detector, history, Callback, Drop, SetThreshold, Start, Stop, StopDone,
     Shutdown
<1> QED BY <1>1, <1>2, <1>3, <1>4 DEF Next, Sensor, Control

\* Time stamps are kept by every step.
LEMMA StampInductive == Stamped /\ [Next]_vars => Stamped'
<1> SUFFICES ASSUME Stamped, [Next]_vars PROVE Stamped'
  OBVIOUS
<1>1. CASE UNCHANGED <<time, alertedAt, lastAlert>>
  BY <1>1 DEF Stamped
<1>2. CASE time' = time + 1 /\ UNCHANGED <<alertedAt, lastAlert>>
  BY <1>2 DEF Stamped
<1>3. ASSUME NEW t \in Types, UNCHANGED time,
             \/ /\ lastAlert' = [lastAlert EXCEPT ![t] = Uptime]
                /\ alertedAt' = [alertedAt EXCEPT ![t] = time]
             \/ /\ lastAlert' = [lastAlert EXCEPT ![t] = 0]
                /\ alertedAt' = [alertedAt EXCEPT ![t] = Never]
      PROVE  Stamped'
  BY <1>3 DEF Stamped, Uptime
<1> QED BY <1>1, <1>2, <1>3, StampStep

\* Whatever the clock and the interval, two alerts of one type are an interval apart
\* although the uptime wraps: the subtraction modulo 2^32 never makes a distance longer.
THEOREM AlertsAlwaysSpaced == Spec => AlertsSpaced
<1> DEFINE Distance == \A t \in Types :
             alertedAt[t] # Never /\ alertedAt'[t] \notin {alertedAt[t], Never}
               => alertedAt'[t] - alertedAt[t] >= Interval
<1>1. Init => Stamped
  BY DEF Init, Stamped
<1>2. Stamped /\ [Next]_vars => [Distance]_vars
  <2> SUFFICES ASSUME Stamped, [Next]_vars, NEW t \in Types, alertedAt[t] # Never,
                      alertedAt'[t] \notin {alertedAt[t], Never}
               PROVE  alertedAt'[t] - alertedAt[t] >= Interval
    OBVIOUS
  <2>1. MayAlert(t) /\ alertedAt'[t] = time
    BY StampStep DEF Stamped
  <2> QED BY <2>1, AlertKeepsDistance
<1> QED BY <1>1, <1>2, StampInductive, PTL DEF Spec, AlertsSpaced

-----------------------------------------------------------------------------
(* Induction                                                               *)

\* Every set of naturals that is not empty has a least element.
LEMMA LeastElement ==
  ASSUME NEW T, T \subseteq Nat, T # {}
  PROVE  \E m \in T : \A n \in T : m <= n
<1>1. PICK m \in T : \A n \in T : ~(<<n, m>> \in OpToRel(<, Nat))
  BY NatLessThanWellFounded, WFMin
<1>2. \A n \in T : ~(n < m)
  BY <1>1 DEF OpToRel
<1> QED BY <1>2

\* Induction, with a set in the place of the predicate.
LEMMA Induction ==
  ASSUME NEW G, 0 \in G, \A n \in Nat : n \in G => n + 1 \in G
  PROVE  \A n \in Nat : n \in G
<1> SUFFICES ASSUME Nat \ G # {} PROVE FALSE
  OBVIOUS
<1>1. PICK m \in Nat \ G : \A n \in Nat \ G : m <= n
  <2>1. Nat \ G \subseteq Nat
    OBVIOUS
  <2> QED BY <2>1, LeastElement
<1>2. m - 1 \in Nat /\ m - 1 \in G
  BY <1>1
<1> QED BY <1>1, <1>2

-----------------------------------------------------------------------------
(* Sums over a finite set                                                  *)

\* What the fold of SumFunctionOnSet gives for s, from what it gives for less.
Partial(f, g, s) ==
  IF s = {} THEN 0 ELSE LET x == CHOOSE y \in s : TRUE IN f[x] + g[s \ {x}]

Folded(f, S, g) == g = [s \in SUBSET S |-> Partial(f, g, s)]

\* The community's sum is such a fold.
LEMMA SumUnfolded ==
  ASSUME NEW f, NEW S
  PROVE  SumFunctionOnSet(f, S) = (CHOOSE g : Folded(f, S, g))[S]
BY DEF SumFunctionOnSet, FoldFunctionOnSet, MapThenFoldSet, Folded, Partial

Upto(S, n) == {s \in SUBSET S : Cardinality(s) <= n}

\* Less one element.
LEMMA OneLess ==
  ASSUME NEW S, IsFiniteSet(S), NEW n \in Nat, NEW s \in Upto(S, n + 1), NEW x \in s
  PROVE  s \ {x} \in Upto(S, n)
<1>1. s \in SUBSET S /\ Cardinality(s) <= n + 1
  BY DEF Upto
<1>2. IsFiniteSet(s)
  BY <1>1, FS_Subset
<1>3. Cardinality(s) \in Nat /\ Cardinality(s \ {x}) = Cardinality(s) - 1
  BY <1>2, FS_CardinalityType, FS_RemoveElement
<1>4. Cardinality(s \ {x}) <= n
  BY <1>1, <1>3
<1> QED BY <1>1, <1>4 DEF Upto

\* The first and the last of the levels by which induction climbs to S.
LEMMA NoneLeft ==
  ASSUME NEW S, IsFiniteSet(S)
  PROVE  /\ Upto(S, 0) = {{}}
         /\ \A s \in SUBSET S : Cardinality(s) \in Nat
         /\ \A n \in Nat : Upto(S, n) \subseteq Upto(S, n + 1)
         /\ SUBSET S = Upto(S, Cardinality(S))
<1>1. \A s \in SUBSET S : Cardinality(s) \in Nat /\ IsFiniteSet(s)
                          /\ Cardinality(s) <= Cardinality(S)
  BY FS_Subset, FS_CardinalityType
<1>2. \A s \in SUBSET S : Cardinality(s) = 0 <=> s = {}
  BY <1>1, FS_EmptySet
<1>3. Cardinality({}) = 0
  BY <1>2
<1> QED BY <1>1, <1>2, <1>3 DEF Upto

\* The recursive definition of the fold has a solution: level by level.
LEMMA FoldExists ==
  ASSUME NEW f, NEW S, IsFiniteSet(S)
  PROVE  \E g : Folded(f, S, g)
<1> DEFINE G == {n \in Nat : \E g : g = [s \in Upto(S, n) |-> Partial(f, g, s)]}
<1>1. 0 \in G
  <2> DEFINE g == [s \in Upto(S, 0) |-> 0]
  <2>1. g = [s \in Upto(S, 0) |-> Partial(f, g, s)]
    BY NoneLeft DEF Partial
  <2> QED BY <2>1
<1>2. ASSUME NEW n \in Nat, n \in G PROVE n + 1 \in G
  <2>1. PICK g : g = [s \in Upto(S, n) |-> Partial(f, g, s)]
    BY <1>2
  <2> DEFINE h == [s \in Upto(S, n + 1) |-> Partial(f, g, s)]
  <2>2. ASSUME NEW s \in Upto(S, n + 1) PROVE Partial(f, g, s) = Partial(f, h, s)
    <3>1. CASE s = {}
      BY <3>1 DEF Partial
    <3>2. CASE s # {}
      <4> DEFINE x == CHOOSE y \in s : TRUE
      <4>1. x \in s
        BY <3>2
      <4>2. s \ {x} \in Upto(S, n)
        BY <4>1, OneLess
      <4>3. h[s \ {x}] = g[s \ {x}]
        BY <2>1, <4>2, NoneLeft
      <4> QED BY <4>3 DEF Partial
    <3> QED BY <3>1, <3>2
  <2>3. [s \in Upto(S, n + 1) |-> Partial(f, g, s)]
          = [s \in Upto(S, n + 1) |-> Partial(f, h, s)]
    <3> HIDE DEF h
    <3> QED BY <2>2
  <2> HIDE DEF h
  <2>4. h = [s \in Upto(S, n + 1) |-> Partial(f, h, s)]
    BY <2>3 DEF h
  <2> QED BY <2>4
<1>3. Cardinality(S) \in G
  <2>1. \A n \in Nat : n \in G
    <3> HIDE DEF G
    <3> QED BY <1>1, <1>2, Induction
  <2> QED BY <2>1, FS_CardinalityType
<1> QED BY <1>3, NoneLeft DEF Folded

\* The folds over two sets agree wherever both go, and take integers to integers.
LEMMA FoldsAgree ==
  ASSUME NEW S, IsFiniteSet(S), NEW T \in SUBSET S, NEW f, \A i \in S : f[i] \in Int,
         NEW g, Folded(f, S, g), NEW h, Folded(f, T, h), NEW s \in SUBSET T
  PROVE  h[s] = g[s] /\ g[s] \in Int
<1>0. IsFiniteSet(T)
  BY FS_Subset
<1> DEFINE G == {n \in Nat : \A t \in Upto(T, n) : h[t] = g[t] /\ g[t] \in Int}
<1>1. 0 \in G
  BY <1>0, NoneLeft DEF Folded, Partial
<1>2. ASSUME NEW n \in Nat, n \in G PROVE n + 1 \in G
  <2> SUFFICES ASSUME NEW t \in Upto(T, n + 1) PROVE h[t] = g[t] /\ g[t] \in Int
    OBVIOUS
  <2>1. /\ t \in SUBSET T /\ t \in SUBSET S
        /\ h[t] = Partial(f, h, t) /\ g[t] = Partial(f, g, t)
    BY DEF Folded, Upto
  <2>2. CASE t = {}
    BY <2>1, <2>2 DEF Partial
  <2>3. CASE t # {}
    <3> DEFINE x == CHOOSE y \in t : TRUE
    <3>1. x \in t
      BY <2>3
    <3>2. t \ {x} \in Upto(T, n)
      BY <1>0, <3>1, OneLess
    <3>3. h[t \ {x}] = g[t \ {x}] /\ g[t \ {x}] \in Int
      BY <1>2, <3>2
    <3>4. h[t] = f[x] + h[t \ {x}] /\ g[t] = f[x] + g[t \ {x}]
      BY <2>1, <2>3 DEF Partial
    <3>5. f[x] \in Int
      BY <2>1, <3>1
    <3> QED BY <3>3, <3>4, <3>5
  <2> QED BY <2>2, <2>3
<1>3. \A n \in Nat : n \in G
  <2> HIDE DEF G
  <2> QED BY <1>1, <1>2, Induction
<1>4. s \in Upto(T, Cardinality(T)) /\ Cardinality(T) \in Nat
  BY <1>0, NoneLeft, FS_CardinalityType
<1> QED BY <1>3, <1>4

\* It does not matter which element is taken first.
LEMMA FoldTakesAny ==
  ASSUME NEW S, IsFiniteSet(S), NEW f, \A i \in S : f[i] \in Int,
         NEW g, Folded(f, S, g), NEW s \in SUBSET S, NEW k \in s
  PROVE  g[s] = f[k] + g[s \ {k}]
<1>0. \A t \in SUBSET S : g[t] \in Int
  BY FoldsAgree
<1> DEFINE G == {n \in Nat : \A t \in Upto(S, n) : \A j \in t : g[t] = f[j] + g[t \ {j}]}
<1>1. 0 \in G
  BY NoneLeft
<1>2. ASSUME NEW n \in Nat, n \in G PROVE n + 1 \in G
  <2> SUFFICES ASSUME NEW t \in Upto(S, n + 1), NEW j \in t PROVE g[t] = f[j] + g[t \ {j}]
    OBVIOUS
  <2> DEFINE x == CHOOSE y \in t : TRUE
  <2>1. t \in SUBSET S /\ x \in t
    BY DEF Upto
  <2>2. g[t] = f[x] + g[t \ {x}]
    BY <2>1 DEF Folded, Partial
  <2> HIDE DEF x
  <2>3. CASE x = j
    BY <2>2, <2>3
  <2>4. CASE x # j
    <3>1. /\ t \ {x} \in Upto(S, n) /\ j \in t \ {x}
          /\ t \ {j} \in Upto(S, n) /\ x \in t \ {j}
      BY <2>1, <2>4, OneLess
    <3>2. /\ g[t \ {x}] = f[j] + g[(t \ {x}) \ {j}]
          /\ g[t \ {j}] = f[x] + g[(t \ {j}) \ {x}]
      BY <1>2, <3>1
    <3>3. (t \ {x}) \ {j} = (t \ {j}) \ {x}
      OBVIOUS
    <3>4. /\ f[x] \in Int /\ f[j] \in Int /\ g[(t \ {j}) \ {x}] \in Int
      BY <1>0, <2>1
    <3>5. /\ g[t] = f[x] + (f[j] + g[(t \ {j}) \ {x}])
          /\ g[t \ {j}] = f[x] + g[(t \ {j}) \ {x}]
      BY <2>2, <3>2, <3>3
    <3> HIDE DEF G
    <3> QED BY <3>4, <3>5
  <2> QED BY <2>3, <2>4
<1>3. \A n \in Nat : n \in G
  <2> HIDE DEF G
  <2> QED BY <1>1, <1>2, Induction
<1>4. s \in Upto(S, Cardinality(S)) /\ Cardinality(S) \in Nat
  BY NoneLeft, FS_CardinalityType
<1> QED BY <1>3, <1>4

\* The laws of a sum.
LEMMA SumLaws ==
  ASSUME NEW S, IsFiniteSet(S), NEW f, \A i \in S : f[i] \in Int
  PROVE  /\ SumFunctionOnSet(f, {}) = 0
         /\ SumFunctionOnSet(f, S) \in Int
         /\ \A k \in S : SumFunctionOnSet(f, S) = f[k] + SumFunctionOnSet(f, S \ {k})
<1> DEFINE fold(T) == CHOOSE g : Folded(f, T, g)
<1>1. \A T \in SUBSET S : Folded(f, T, fold(T)) /\ SumFunctionOnSet(f, T) = fold(T)[T]
  <2> TAKE T \in SUBSET S
  <2>1. IsFiniteSet(T)
    BY FS_Subset
  <2>2. \E g : Folded(f, T, g)
    BY <2>1, FoldExists
  <2> QED BY <2>2, SumUnfolded
<1> HIDE DEF fold
<1>2. SumFunctionOnSet(f, {}) = 0
  <2>1. {} \in SUBSET S /\ {} \in SUBSET {}
    OBVIOUS
  <2>2. fold({}) = [s \in SUBSET {} |-> Partial(f, fold({}), s)]
    BY <1>1, <2>1 DEF Folded
  <2>3. fold({})[{}] = 0
    BY <2>1, <2>2 DEF Partial
  <2> QED BY <1>1, <2>1, <2>3
<1>3. \A T \in SUBSET S : SumFunctionOnSet(f, T) = fold(S)[T] /\ fold(S)[T] \in Int
  <2> TAKE T \in SUBSET S
  <2>1. S \in SUBSET S /\ T \in SUBSET T
    OBVIOUS
  <2>2. Folded(f, S, fold(S)) /\ Folded(f, T, fold(T)) /\ SumFunctionOnSet(f, T) = fold(T)[T]
    BY <1>1, <2>1
  <2>3. fold(T)[T] = fold(S)[T] /\ fold(S)[T] \in Int
    BY <2>1, <2>2, FoldsAgree
  <2> QED BY <2>2, <2>3
<1>4. ASSUME NEW k \in S PROVE SumFunctionOnSet(f, S) = f[k] + SumFunctionOnSet(f, S \ {k})
  <2>1. S \in SUBSET S /\ S \ {k} \in SUBSET S
    OBVIOUS
  <2>2. fold(S)[S] = f[k] + fold(S)[S \ {k}]
    BY <1>1, <2>1, FoldTakesAny
  <2> QED BY <1>3, <2>1, <2>2
<1>5. S \in SUBSET S
  OBVIOUS
<1> QED BY <1>2, <1>3, <1>4, <1>5

\* Induction over the subsets of a finite set.
LEMMA SetInduction ==
  ASSUME NEW S, IsFiniteSet(S), NEW G, {} \in G,
         \A T \in SUBSET S : \A k \in S \ T : T \in G => T \cup {k} \in G
  PROVE  S \in G
<1> DEFINE H == {n \in Nat : Upto(S, n) \subseteq G}
<1>0. {} \in G
  OBVIOUS
<1>1. 0 \in H
  BY <1>0, NoneLeft
<1>2. ASSUME NEW n \in Nat, n \in H PROVE n + 1 \in H
  <2>1. ASSUME NEW T \in Upto(S, n + 1), T # {} PROVE T \in G
    <3>1. PICK k \in T : TRUE
      BY <2>1
    <3>2. T \ {k} \in Upto(S, n)
      BY OneLess
    <3>3. T \ {k} \in SUBSET S /\ k \in S \ (T \ {k}) /\ T = (T \ {k}) \cup {k}
      BY DEF Upto
    <3>4. T \ {k} \in G
      BY <1>2, <3>2
    <3> QED BY <3>3, <3>4
  <2>2. Upto(S, n + 1) \subseteq G
    BY <1>0, <2>1
  <2> QED BY <2>2
<1>3. \A n \in Nat : n \in H
  <2> HIDE DEF H
  <2> QED BY <1>1, <1>2, Induction
<1>4. S \in Upto(S, Cardinality(S)) /\ Cardinality(S) \in Nat
  BY NoneLeft, FS_CardinalityType
<1> QED BY <1>3, <1>4

\* One more element adds its value.
LEMMA SumAdd ==
  ASSUME NEW S, IsFiniteSet(S), NEW f, \A i \in S : f[i] \in Int,
         NEW T \in SUBSET S, NEW k \in S \ T
  PROVE  /\ SumFunctionOnSet(f, T \cup {k}) = f[k] + SumFunctionOnSet(f, T)
         /\ SumFunctionOnSet(f, T) \in Int
<1>1. IsFiniteSet(T \cup {k}) /\ IsFiniteSet(T)
  <2>1. T \cup {k} \in SUBSET S /\ T \in SUBSET S
    OBVIOUS
  <2> QED BY <2>1, FS_Subset
<1>2. /\ \A i \in T \cup {k} : f[i] \in Int
      /\ k \in T \cup {k} /\ (T \cup {k}) \ {k} = T
  OBVIOUS
<1>3. \A j \in T \cup {k} :
        SumFunctionOnSet(f, T \cup {k}) = f[j] + SumFunctionOnSet(f, (T \cup {k}) \ {j})
  BY <1>1, <1>2, SumLaws
<1>4. SumFunctionOnSet(f, T) \in Int
  BY <1>1, <1>2, SumLaws
<1> QED BY <1>2, <1>3, <1>4

\* A sum depends on the values in it only.
LEMMA SumSame ==
  ASSUME NEW S, IsFiniteSet(S), NEW f, NEW g, \A i \in S : f[i] \in Int /\ g[i] = f[i]
  PROVE  SumFunctionOnSet(g, S) = SumFunctionOnSet(f, S)
<1> DEFINE G == {T \in SUBSET S : SumFunctionOnSet(g, T) = SumFunctionOnSet(f, T)}
<1>1. {} \in G
  <2>1. SumFunctionOnSet(f, {}) = 0 /\ SumFunctionOnSet(g, {}) = 0
    BY SumLaws
  <2> QED BY <2>1
<1>2. ASSUME NEW T \in SUBSET S, NEW k \in S \ T, T \in G PROVE T \cup {k} \in G
  <2>1. /\ SumFunctionOnSet(f, T \cup {k}) = f[k] + SumFunctionOnSet(f, T)
        /\ SumFunctionOnSet(g, T \cup {k}) = g[k] + SumFunctionOnSet(g, T)
    BY SumAdd
  <2> QED BY <1>2, <2>1
<1> HIDE DEF G
<1>3. S \in G
  BY <1>1, <1>2, SetInduction
<1> QED BY <1>3 DEF G

-----------------------------------------------------------------------------
(* The sums of a window                                                    *)

\* Rounding gives a number.
Rounding == \A x \in Int : Float(x) \in Int

\* What the values in a window put into the sum of the squares.
Squares(w) == [i \in Live(w) |-> Square(w.vals[i])]

\* A window of values; until it is full, the next value goes where the live ones end.
Filled(w) ==
  /\ w.vals \in [0 .. W - 1 -> Int] /\ w.head \in 0 .. W - 1 /\ w.count \in 0 .. W
  /\ w.count < W => w.head = w.count

\* A running sum s within d of the total t.
Near(s, t, d) == s \in Int /\ t \in Int /\ d \in Nat /\ Abs(s - t) <= d

\* The sums kept are near those of the values in the window.
Summed(w, d) ==
  /\ Filled(w)
  /\ Near(w.sum, Total(w), d.sum) /\ Near(w.sumSq, TotalSq(w), d.sumSq)

\* The inductive invariant behind SumsOfWindow.
RunningSums ==
  /\ win = [t \in Types |-> win[t]] /\ drift \in [Types -> [sum : Nat, sumSq : Nat]]
  /\ \A t \in Types : Summed(win[t], drift[t])

\* A window of n values.
LEMMA LiveFinite ==
  ASSUME NEW n \in Nat
  PROVE  IsFiniteSet(0 .. n - 1) /\ Cardinality(0 .. n - 1) = n
BY FS_Interval

\* The next position in a window.
LEMMA Advance ==
  ASSUME NEW n \in Nat \ {0}, NEW k \in 0 .. n - 1
  PROVE  (k + 1) % n = IF k + 1 = n THEN 0 ELSE k + 1
<1>1. ASSUME NEW x \in Int, 0 <= x, x < n PROVE x % n = x
  BY <1>1
<1>2. n % n = 0
  OBVIOUS
<1> QED BY <1>1, <1>2

\* Squares are numbers.
LEMMA SquareType ==
  ASSUME Rounding, NEW x \in Int
  PROVE  Square(x) \in Int
<1>1. x * x \in Int
  OBVIOUS
<1> QED BY <1>1 DEF Square, Rounding

\* The triangle inequality.
LEMMA Triangle ==
  ASSUME NEW a \in Int, NEW b \in Int, NEW c \in Int, NEW d \in Int, NEW e \in Int,
         Abs(b - a) <= d, Abs(c - b) <= e
  PROVE  Abs(c - a) <= d + e
BY DEF Abs

\* Rounding errors are natural numbers.
LEMMA ErrType ==
  ASSUME Rounding, NEW x \in Int
  PROVE  Float(x) \in Int /\ Err(x) \in Nat /\ Abs(Float(x) - x) <= Err(x)
<1>1. Float(x) \in Int
  BY DEF Rounding
<1>2. Abs(Float(x) - x) \in Nat
  BY <1>1 DEF Abs
<1> QED BY <1>1, <1>2 DEF Err

\* A running sum stays near when the value o in it, if the window is full, makes way
\* for the value v.
LEMMA StaysNear ==
  ASSUME Rounding, NEW w, NEW s, NEW r \in Int, NEW o \in Int, NEW v \in Int, NEW d,
         Near(s, IF Full(w) THEN o + r ELSE r, d)
  PROVE  Near(Float(Less(w, s, o) + v), v + r, d + Moved(w, s, o, v))
<1> DEFINE less == Less(w, s, o)
           e    == IF Full(w) THEN Err(s - o) ELSE 0
<1>1. s \in Int /\ d \in Nat
  BY DEF Near
<1>2. less \in Int /\ e \in Nat /\ Abs(less - r) <= d + e
  <2>1. CASE Full(w)
    <3>1. Abs(s - (o + r)) <= d /\ s - o \in Int
      BY <1>1, <2>1 DEF Near
    <3>2. Abs((s - o) - r) <= d
      BY <1>1, <3>1 DEF Abs
    <3>3. less = Float(s - o) /\ e = Err(s - o)
      BY <2>1 DEF Less
    <3>4. less \in Int /\ e \in Nat /\ Abs(less - (s - o)) <= e
      BY <3>1, <3>3, ErrType
    <3> DEFINE m == s - o
    <3>5. /\ m \in Int /\ Abs(m - r) <= d /\ Abs(less - m) <= e
          /\ less \in Int /\ e \in Nat /\ e \in Int /\ d \in Int
      BY <1>1, <3>1, <3>2, <3>4
    <3> HIDE DEF less, e, m
    <3>6. Abs(less - r) <= d + e
      BY <3>5, Triangle
    <3> QED BY <3>5, <3>6
  <2>2. CASE ~Full(w)
    <3>1. less = s /\ e = 0 /\ Abs(s - r) <= d
      BY <2>2 DEF Less, Near
    <3> QED BY <1>1, <3>1
  <2> QED BY <2>1, <2>2
<1>3. Moved(w, s, o, v) = e + Err(less + v)
  BY DEF Moved
<1> HIDE DEF less, e
<1>4. less + v \in Int /\ v + r \in Int
  BY <1>2
<1>5. Abs((less + v) - (v + r)) <= d + e
  BY <1>2, <1>4 DEF Abs
<1>6. /\ Float(less + v) \in Int /\ Err(less + v) \in Nat
      /\ Abs(Float(less + v) - (less + v)) <= Err(less + v)
  BY <1>4, ErrType
<1>7. d + e \in Int
  BY <1>1, <1>2
<1>8. Abs(Float(less + v) - (v + r)) <= (d + e) + Err(less + v)
  <2> DEFINE a == v + r
             b == less + v
             c == Float(b)
             f == Err(b)
             g == d + e
  <2>1. /\ a \in Int /\ b \in Int /\ c \in Int /\ f \in Int /\ g \in Int
        /\ Abs(b - a) <= g /\ Abs(c - b) <= f
    BY <1>4, <1>5, <1>6, <1>7
  <2> HIDE DEF a, b, c, f, g
  <2>2. Abs(c - a) <= g + f
    BY <2>1, Triangle
  <2> QED BY <2>2 DEF a, b, c, f, g
<1>9. d + Moved(w, s, o, v) = (d + e) + Err(less + v) /\ d + Moved(w, s, o, v) \in Nat
  BY <1>1, <1>2, <1>3, <1>6
<1> QED BY <1>4, <1>6, <1>8, <1>9 DEF Near, less

\* A value that goes into a window leaves its running sums near, by the rounding of the
\* additions: the oldest value is taken out of them exactly when it is overwritten.
LEMMA UpdateSummed ==
  ASSUME Rounding, NEW w, NEW d, Summed(w, d), NEW v \in Int,
         NEW e, e.sum = d.sum + Moved(w, w.sum, Old(w), v),
         e.sumSq = d.sumSq + Moved(w, w.sumSq, Square(Old(w)), Square(v))
  PROVE  Summed(UpdateWindow(w, v), e)
<1> DEFINE u == UpdateWindow(w, v)
           k == w.head
           o == w.vals[k]
           R == Live(w) \ {k}
           r == SumFunctionOnSet(w.vals, R)
           q == SumFunctionOnSet(Squares(w), R)
<1>1. /\ W \in Nat /\ W >= 2
      /\ w.vals \in [0 .. W - 1 -> Int] /\ k \in 0 .. W - 1 /\ w.count \in 0 .. W
      /\ w.count < W => k = w.count
      /\ Full(w) <=> w.count = W
  BY AnomalyAssumption DEF Summed, Filled, Full
<1>2. /\ u.vals = [w.vals EXCEPT ![k] = v]
      /\ u.head = (k + 1) % W
      /\ u.count = IF Full(w) THEN w.count ELSE w.count + 1
      /\ u.sum = Float(Less(w, w.sum, o) + v)
      /\ u.sumSq = Float(Less(w, w.sumSq, Square(o)) + Square(v))
  BY DEF UpdateWindow, Old
<1>3. /\ Live(u) = R \cup {k} /\ k \notin R /\ R \subseteq 0 .. W - 1
      /\ Full(w) => Live(w) = R \cup {k}
      /\ ~Full(w) => Live(w) = R
  <2>1. CASE Full(w)
    <3>1. Live(w) = 0 .. W - 1 /\ Live(u) = 0 .. W - 1
      BY <1>1, <1>2, <2>1 DEF Live
    <3> HIDE DEF u
    <3> QED BY <1>1, <2>1, <3>1
  <2>2. CASE ~Full(w)
    <3>1. k = w.count /\ Live(w) = 0 .. k - 1 /\ Live(u) = 0 .. k
      <4> HIDE DEF k, u
      <4>1. k = w.count /\ u.count = k + 1
        BY <1>1, <1>2, <2>2
      <4>2. (k + 1) - 1 = k
        BY <1>1
      <4> QED BY <4>1, <4>2 DEF Live
    <3>2. k \notin Live(w) /\ Live(w) \cup {k} = Live(u) /\ Live(w) \subseteq 0 .. W - 1
      <4> HIDE DEF k, u
      <4> QED BY <1>1, <3>1
    <3> QED BY <2>2, <3>2
  <2> QED BY <2>1, <2>2
<1>4. /\ u.vals \in [0 .. W - 1 -> Int] /\ u.vals[k] = v
      /\ \A i \in 0 .. W - 1 : i # k => u.vals[i] = w.vals[i]
      /\ u.head \in 0 .. W - 1 /\ u.count \in 0 .. W
      /\ u.count < W => u.head = u.count
  <2>1. u.vals \in [0 .. W - 1 -> Int] /\ u.vals[k] = v
        /\ \A i \in 0 .. W - 1 : i # k => u.vals[i] = w.vals[i]
    BY <1>1, <1>2
  <2>2. u.head = IF k + 1 = W THEN 0 ELSE k + 1
    <3> HIDE DEF k, u
    <3> QED BY <1>1, <1>2, Advance
  <2>3. u.head \in 0 .. W - 1 /\ u.count \in 0 .. W
        /\ (u.count < W => u.head = u.count)
    <3> HIDE DEF k, u
    <3> QED BY <1>1, <1>2, <2>2
  <2> QED BY <2>1, <2>3
<1>5. /\ o \in Int /\ Square(o) \in Int /\ Square(v) \in Int
  BY <1>1, SquareType
<1>6. \A i \in Live(w) : /\ w.vals[i] \in Int /\ Squares(w)[i] = Square(w.vals[i])
                         /\ Squares(w)[i] \in Int
  <2> TAKE i \in Live(w)
  <2>1. i \in 0 .. W - 1
    BY <1>1, <1>3
  <2>2. w.vals[i] \in Int
    BY <1>1, <2>1
  <2> QED BY <2>2, SquareType DEF Squares
<1> HIDE DEF u, k, o, R, r, q
<1>7. IsFiniteSet(R) /\ IsFiniteSet(R \cup {k}) /\ IsFiniteSet(Live(w))
  <2>1. R \cup {k} \in SUBSET (0 .. W - 1) /\ R \in SUBSET (0 .. W - 1)
        /\ Live(w) \in SUBSET (0 .. W - 1)
    BY <1>1, <1>3
  <2>2. IsFiniteSet(0 .. W - 1)
    BY <1>1, LiveFinite
  <2> QED BY <2>1, <2>2, FS_Subset
\* What is kept, in the old sums.
<1>8. /\ r \in Int /\ q \in Int
      /\ Total(w) = IF Full(w) THEN o + r ELSE r
      /\ TotalSq(w) = IF Full(w) THEN Square(o) + q ELSE q
  <2>1. Total(w) = SumFunctionOnSet(w.vals, Live(w))
        /\ TotalSq(w) = SumFunctionOnSet(Squares(w), Live(w))
    BY DEF Total, TotalSq, Squares
  <2>2. R \in SUBSET Live(w)
    BY DEF R
  <2>3. r \in Int /\ q \in Int
    BY <1>6, <1>7, <2>2, SumLaws DEF r, q
  <2>4. CASE Full(w)
    <3>1. Live(w) = R \cup {k} /\ k \in Live(w) \ R
      BY <1>3, <2>4
    <3>2. /\ SumFunctionOnSet(w.vals, Live(w)) = w.vals[k] + r
          /\ SumFunctionOnSet(Squares(w), Live(w)) = Squares(w)[k] + q
      BY <1>6, <1>7, <2>2, <3>1, SumAdd DEF r, q
    <3>3. w.vals[k] = o /\ Squares(w)[k] = Square(o)
      BY <1>6, <3>1 DEF o
    <3> QED BY <2>1, <2>3, <2>4, <3>2, <3>3
  <2>5. CASE ~Full(w)
    BY <1>3, <2>1, <2>3, <2>5 DEF r, q
  <2> QED BY <2>4, <2>5
\* What is kept and the new value, in the new sums.
<1>9. Total(u) = v + r /\ TotalSq(u) = Square(v) + q
  <2>1. \A i \in R \cup {k} : /\ u.vals[i] \in Int /\ Squares(u)[i] = Square(u.vals[i])
                              /\ Squares(u)[i] \in Int
    <3> TAKE i \in R \cup {k}
    <3>1. i \in 0 .. W - 1 /\ i \in Live(u)
      BY <1>1, <1>3
    <3>2. u.vals[i] \in Int
      BY <1>4, <3>1
    <3> QED BY <3>1, <3>2, SquareType DEF Squares
  <2>2. R \in SUBSET (R \cup {k}) /\ k \in (R \cup {k}) \ R
    BY <1>3
  <2>3. /\ SumFunctionOnSet(u.vals, R \cup {k}) = u.vals[k] + SumFunctionOnSet(u.vals, R)
        /\ SumFunctionOnSet(Squares(u), R \cup {k})
             = Squares(u)[k] + SumFunctionOnSet(Squares(u), R)
    BY <1>7, <2>1, <2>2, SumAdd
  <2>4. \A i \in R : /\ w.vals[i] \in Int /\ u.vals[i] = w.vals[i]
                     /\ Squares(w)[i] \in Int /\ Squares(u)[i] = Squares(w)[i]
    <3> TAKE i \in R
    <3>1. i \in Live(w) /\ i \in 0 .. W - 1 /\ i # k
      BY <1>3 DEF R
    <3>2. u.vals[i] = w.vals[i]
      BY <1>4, <3>1
    <3> QED BY <1>6, <2>1, <3>1, <3>2
  <2>5. SumFunctionOnSet(u.vals, R) = r /\ SumFunctionOnSet(Squares(u), R) = q
    BY <1>7, <2>4, SumSame DEF r, q
  <2>6. u.vals[k] = v /\ Squares(u)[k] = Square(v)
    BY <1>4, <2>1, <2>2
  <2> QED BY <1>3, <2>3, <2>5, <2>6 DEF Total, TotalSq, Squares
<1>10. Near(u.sum, Total(u), e.sum)
  <2>1. Near(w.sum, IF Full(w) THEN o + r ELSE r, d.sum)
    BY <1>8 DEF Summed
  <2>2. e.sum = d.sum + Moved(w, w.sum, o, v)
    BY DEF Old, o, k
  <2>3. Near(Float(Less(w, w.sum, o) + v), v + r, d.sum + Moved(w, w.sum, o, v))
    BY <1>5, <1>8, <2>1, StaysNear
  <2> QED BY <1>2, <1>9, <2>2, <2>3
<1>11. Near(u.sumSq, TotalSq(u), e.sumSq)
  <2>1. Near(w.sumSq, IF Full(w) THEN Square(o) + q ELSE q, d.sumSq)
    BY <1>8 DEF Summed
  <2>2. e.sumSq = d.sumSq + Moved(w, w.sumSq, Square(o), Square(v))
    BY DEF Old, o, k
  <2>3. Near(Float(Less(w, w.sumSq, Square(o)) + Square(v)), Square(v) + q,
             d.sumSq + Moved(w, w.sumSq, Square(o), Square(v)))
    BY <1>5, <1>8, <2>1, StaysNear
  <2> QED BY <1>2, <1>9, <2>2, <2>3
<1>12. Filled(u)
  BY <1>4 DEF Filled
<1> QED BY <1>10, <1>11, <1>12 DEF Summed, u

\* A window that was reset.
LEMMA EmptySummed == Summed(EmptyWindow, NoDrift) /\ NoDrift \in [sum : Nat, sumSq : Nat]
<1>1. W \in Nat /\ W >= 2
  BY AnomalyAssumption
<1>2. /\ EmptyWindow.vals = [i \in 0 .. W - 1 |-> 0] /\ EmptyWindow.head = 0
      /\ EmptyWindow.count = 0 /\ EmptyWindow.sum = 0 /\ EmptyWindow.sumSq = 0
      /\ NoDrift.sum = 0 /\ NoDrift.sumSq = 0 /\ NoDrift \in [sum : Nat, sumSq : Nat]
  BY DEF EmptyWindow, NoDrift
<1>3. Live(EmptyWindow) = {}
  BY <1>2 DEF Live
<1>4. \A f : SumFunctionOnSet(f, {}) = 0
  <2> TAKE f
  <2> QED BY SumLaws, FS_EmptySet
<1>5. Total(EmptyWindow) = 0 /\ TotalSq(EmptyWindow) = 0
  BY <1>3, <1>4 DEF Total, TotalSq
<1> QED BY <1>1, <1>2, <1>5 DEF Summed, Filled, Near, Abs

-----------------------------------------------------------------------------
(* Verdicts                                                                *)

\* The greatest element of a set of integers.
LEMMA GreatestIs ==
  ASSUME NEW S, S \subseteq Int, NEW m \in S, \A x \in S : m >= x
  PROVE  Max(S) = m
<1> DEFINE P(x) == x \in S /\ \A y \in S : x >= y
<1>1. Max(S) = CHOOSE x : P(x)
  BY DEF Max
<1>2. P(m)
  OBVIOUS
<1>3. P(Max(S))
  <2> HIDE DEF P
  <2> QED BY <1>1, <1>2
<1>4. Max(S) \in S /\ Max(S) >= m
  BY <1>3
<1> HIDE DEF P
<1>5. m >= Max(S) /\ m \in Int /\ Max(S) \in Int
  BY <1>4
<1> QED BY <1>4, <1>5

\* The order of the code's tests finds the highest level reached.
LEMMA VerdictIsHighest ==
  ASSUME NEW t, NEW w, NEW v, NEW score, Detect(t, w, v, score) # None
  PROVE  /\ Full(w) /\ score # Flat
         /\ Detect(t, w, v, score) = Max({None} \cup Reached(t, v, score))
<1> DEFINE wa == score >= sigma[t].warning
           cr == score >= sigma[t].critical
           em == Abs(v) > AbsMax[t] \/ score >= sigma[t].emergency
           S  == {None} \cup Reached(t, v, score)
           l  == Detect(t, w, v, score)
<1>1. Full(w) /\ score # Flat
  BY DEF Detect
<1>2. l = IF em THEN Emergency ELSE IF cr THEN Critical ELSE IF wa THEN Warning ELSE None
  BY <1>1 DEF Detect
<1>3. S = {None} \cup {x \in {Warning} : wa} \cup {x \in {Critical} : cr}
                 \cup {x \in {Emergency} : em}
  BY DEF Reached
<1> HIDE DEF wa, cr, em, S, l
<1>4. S \subseteq Int
  BY <1>3 DEF None, Warning, Critical, Emergency
<1>5. l \in S /\ \A x \in S : l >= x
  BY <1>2, <1>3 DEF None, Warning, Critical, Emergency
<1> QED BY <1>1, <1>4, <1>5, GreatestIs DEF l, S

\* What a step does to the windows.
LEMMA WindowStep ==
  ASSUME [Next]_vars
  PROVE  \/ win' = win /\ drift' = drift
         \/ \E t \in Types, v \in Samples :
              win' = [win EXCEPT ![t] = UpdateWindow(win[t], v)] /\ Drifts(t, win[t], v)
         \/ \E t \in Types : /\ win' = [win EXCEPT ![t] = EmptyWindow]
                             /\ drift' = [drift EXCEPT ![t] = NoDrift]
<1>1. CASE \E t \in Types, v \in Samples, score \in Scores \cup {Flat} : Take(t, v, score)
  BY <1>1 DEF Take
<1>2. CASE \E t \in Types : ResetWindow(t)
  BY <1>2 DEF ResetWindow
<1>3. CASE \/ \E t \in Types, s \in Sigmas : SetThreshold(t, s)
           \/ \E v \in Samples : Drop(v)
           \/ Callback \/ Start \/ Stop \/ StopDone \/ Shutdown \/ Tick \/ UNCHANGED vars
  BY <1>3 DEF vars, detector, history, Callback, Drop, SetThreshold, Start, Stop, StopDone,
     Shutdown, Tick
<1> QED BY <1>1, <1>2, <1>3 DEF Next, Sensor, Control

\* Running sums stay near through samples and resets.
LEMMA SumsInductive ==
  ASSUME Rounding, RunningSums, [Next]_vars
  PROVE  RunningSums'
<1>1. CASE win' = win /\ drift' = drift
  BY <1>1 DEF RunningSums
<1>2. ASSUME NEW t \in Types, NEW v \in Samples,
             win' = [win EXCEPT ![t] = UpdateWindow(win[t], v)], Drifts(t, win[t], v)
      PROVE  RunningSums'
  <2> DEFINE w == win[t]
             a == Moved(w, w.sum, Old(w), v)
             b == Moved(w, w.sumSq, Square(Old(w)), Square(v))
             e == [sum |-> drift[t].sum + a, sumSq |-> drift[t].sumSq + b]
  <2>1. Summed(w, drift[t]) /\ v \in Int
    BY AnomalyAssumption DEF RunningSums
  <2>2. drift' = [drift EXCEPT ![t] = e]
    BY <1>2 DEF Drifts
  <2>3. e.sum = drift[t].sum + a /\ e.sumSq = drift[t].sumSq + b
    BY DEF e
  <2> HIDE DEF e
  <2>4. Summed(UpdateWindow(w, v), e)
    BY <2>1, <2>3, UpdateSummed
  <2>5. e \in [sum : Nat, sumSq : Nat]
    <3>1. e.sum \in Nat /\ e.sumSq \in Nat
      BY <2>4 DEF Summed, Near
    <3> QED BY <3>1 DEF e
  <2> DEFINE u == UpdateWindow(w, v)
  <2>6. win' = [win EXCEPT ![t] = u] /\ Summed(u, e)
    BY <1>2, <2>4
  <2> HIDE DEF u, w
  <2> QED BY <2>2, <2>5, <2>6 DEF RunningSums
<1>3. ASSUME NEW t \in Types, win' = [win EXCEPT ![t] = EmptyWindow],
             drift' = [drift EXCEPT ![t] = NoDrift]
      PROVE  RunningSums'
  BY <1>3, EmptySummed DEF RunningSums
<1> QED BY <1>1, <1>2, <1>3, WindowStep

\* The invariant holds at the start.
LEMMA SumsInitial == Init => RunningSums
BY EmptySummed DEF Init, RunningSums

\* For every window size and history of samples, and whatever the rounding: the running
\* sums are those of the values in the window, but for the errors of the additions.
THEOREM SumsAlwaysOfWindow == Rounding => (Spec => []SumsOfWindow)
<1> SUFFICES ASSUME Rounding PROVE Spec => []SumsOfWindow
  OBVIOUS
<1>1. RunningSums /\ [Next]_vars => RunningSums'
  BY SumsInductive
<1>2. RunningSums => SumsOfWindow
  BY DEF RunningSums, Summed, Near, SumsOfWindow
<1> QED BY <1>1, <1>2, SumsInitial, PTL DEF Spec

-----------------------------------------------------------------------------
(* What an alert carries                                                   *)

\* An alert is published with the level its score gives; every other step clears it.
LEMMA AlertStep ==
  ASSUME win = [t \in Types |-> win[t]], AlertExplained, [Next]_vars
  PROVE  AlertExplained'
<1>1. ASSUME NEW t \in Types, NEW v \in Samples, NEW score \in Scores \cup {Flat},
             Take(t, v, score)
      PROVE  AlertExplained'
  <2> DEFINE l == Detect(t, win[t], v, score)
             w == win[t]
             u == UpdateWindow(w, v)
             E == [level |-> l, type |-> t, value |-> v, score |-> score, baseline |-> w]
  <2>1. /\ UNCHANGED sigma /\ win' = [win EXCEPT ![t] = u]
        /\ Publish(t, l, v, score, w)
    BY <1>1 DEF Take
  <2>2. CASE event' = NoEvent
    BY <2>2 DEF AlertExplained, NoEvent
  <2>3. CASE l # None /\ event' = E
    <3>1. Full(w) /\ score # Flat /\ l = Max({None} \cup Reached(t, v, score))
      BY <2>3, VerdictIsHighest
    <3> HIDE DEF l, w, u
    <3>2. /\ event'.level = l /\ event'.type = t /\ event'.value = v
          /\ event'.score = score /\ event'.baseline = w
      BY <2>3
    <3>3. Reached(event.type, event.value, event.score)' = Reached(t, v, score)
      BY <2>1, <3>2 DEF Reached
    <3>4. win'[t] = u
      BY <2>1
    <3>5. Full(event.baseline)' /\ UpdateWindow(event.baseline, event.value)' = u
      BY <3>1, <3>2 DEF Full, UpdateWindow, Less, Old, u
    <3> QED BY <3>1, <3>2, <3>3, <3>4, <3>5 DEF AlertExplained
  <2> QED BY <2>1, <2>2, <2>3 DEF Publish
<1>2. CASE UNCHANGED vars
  <2>1. UNCHANGED <<event, sigma, win>>
    BY <1>2 DEF vars, detector
  <2> QED BY <2>1 DEF AlertExplained, Reached, Full, UpdateWindow, Less, Old
<1>3. CASE event' = NoEvent
  BY <1>3 DEF AlertExplained, NoEvent
<1>4. \/ \E t \in Types, v \in Samples, score \in Scores \cup {Flat} : Take(t, v, score)
      \/ UNCHANGED vars
      \/ event' = NoEvent
  BY DEF Next, Sensor, Control, Callback, Drop, SetThreshold, ResetWindow, Start, Stop,
         StopDone, Shutdown, Tick
<1> QED BY <1>1, <1>2, <1>3, <1>4

\* For every window size, thresholds and samples, whatever the floats give: an alert has
\* the highest level its score reaches and carries the window before its sample.
THEOREM AlertsAlwaysExplained == Spec => []AlertExplained
<1> DEFINE Fun == win = [t \in Types |-> win[t]]
<1>1. Init => Fun /\ AlertExplained
  BY DEF Init, AlertExplained, NoEvent
<1>2. Fun /\ AlertExplained /\ [Next]_vars => (Fun /\ AlertExplained)'
  <2>1. Fun /\ [Next]_vars => Fun'
    BY WindowStep
  <2> QED BY <2>1, AlertStep
<1> QED BY <1>1, <1>2, PTL DEF Spec

-----------------------------------------------------------------------------
(* Types                                                                   *)

\* The status, the consumer and the callback.
LifeTypes ==
  /\ status \in {"INITIALIZED", "RUNNING", "STOPPED", "UNINITIALIZED"}
  /\ listening \in BOOLEAN /\ late \in BOOLEAN /\ stopping \in BOOLEAN

\* The verdicts, the time stamps and the samples; a callback past its check still has
\* a sample to take.
AlertTypes ==
  /\ lastLevel \in [Types -> Levels]
  /\ lastAlert \in [Types -> 0 .. ClockMod - 1] /\ lastMulti \in 0 .. ClockMod - 1
  /\ alertedAt \in [Types -> {Never} \cup 0 .. MaxTime]
  /\ time \in 0 .. MaxTime /\ taken \in 0 .. MaxSamples /\ (late => taken < MaxSamples)
  /\ event.level \in Levels

\* A window has the fields of the structure, and no others.
Shaped ==
  \A t \in Types : win[t] = [vals |-> win[t].vals, head |-> win[t].head,
                             count |-> win[t].count, sum |-> win[t].sum,
                             sumSq |-> win[t].sumSq]

LEMMA LifeTypesInductive ==
  ASSUME LifeTypes, [Next]_vars
  PROVE  LifeTypes'
<1>1. CASE \/ \E v \in Samples : Drop(v)
           \/ \E t \in Types, v \in Samples, score \in Scores \cup {Flat} : Take(t, v, score)
           \/ Callback
  BY <1>1 DEF LifeTypes, Drop, Take, Callback, lifecycle
<1>2. CASE \/ \E t \in Types : ResetWindow(t)
           \/ \E t \in Types, s \in Sigmas : SetThreshold(t, s)
           \/ Tick \/ UNCHANGED vars
  BY <1>2 DEF LifeTypes, ResetWindow, SetThreshold, Tick, vars, lifecycle
<1>3. CASE Start \/ Stop \/ StopDone \/ Shutdown
  BY <1>3 DEF LifeTypes, Start, Stop, StopDone, Shutdown
<1> QED BY <1>1, <1>2, <1>3 DEF Next, Sensor, Control

\* Every verdict is a level.
LEMMA VerdictIsLevel ==
  ASSUME NEW t, NEW w, NEW v, NEW score
  PROVE  Detect(t, w, v, score) \in Levels
BY DEF Detect, Levels, None, Warning, Critical, Emergency

\* The uptime is a value of its type.
LEMMA UptimeType ==
  ASSUME time \in Nat
  PROVE  Uptime \in 0 .. ClockMod - 1 /\ 0 \in 0 .. ClockMod - 1
BY AnomalyAssumption DEF Uptime

LEMMA AlertTypesInductive ==
  ASSUME AlertTypes, [Next]_vars
  PROVE  AlertTypes'
<1>0. /\ Uptime \in 0 .. ClockMod - 1 /\ 0 \in 0 .. ClockMod - 1
      /\ NoEvent.level \in Levels /\ None \in Levels
      /\ MaxTime \in Nat /\ MaxSamples \in Nat
  BY UptimeType, AnomalyAssumption DEF AlertTypes, NoEvent, Levels, None, Emergency
<1>1. ASSUME NEW t \in Types, NEW v \in Samples, NEW score \in Scores \cup {Flat},
             Take(t, v, score)
      PROVE  AlertTypes'
  <2> DEFINE level == Detect(t, win[t], v, score)
  <2>1. level \in Levels
    BY VerdictIsLevel
  <2> HIDE DEF level
  <2>2. /\ late /\ late' = FALSE /\ taken' = taken + 1 /\ UNCHANGED time
        /\ lastLevel' = [lastLevel EXCEPT ![t] = level]
        /\ Publish(t, level, v, score, win[t]) /\ CheckMultiDim(t)
    BY <1>1 DEF Take, level
  <2>3. /\ event'.level \in Levels
        /\ lastAlert' \in [Types -> 0 .. ClockMod - 1]
        /\ alertedAt' \in [Types -> {Never} \cup 0 .. MaxTime]
    <3>1. CASE /\ event' = [level |-> level, type |-> t, value |-> v, score |-> score,
                          baseline |-> win[t]]
               /\ lastAlert' = [lastAlert EXCEPT ![t] = Uptime]
               /\ alertedAt' = [alertedAt EXCEPT ![t] = time]
      BY <1>0, <2>1, <3>1 DEF AlertTypes
    <3>2. CASE event' = NoEvent /\ UNCHANGED <<lastAlert, alertedAt>>
      BY <1>0, <3>2 DEF AlertTypes
    <3> QED BY <2>2, <3>1, <3>2 DEF Publish
  <2>4. lastMulti' \in 0 .. ClockMod - 1
    BY <1>0, <2>2 DEF CheckMultiDim, AlertTypes
  <2>5. taken' \in 0 .. MaxSamples
    BY <1>0, <2>2 DEF AlertTypes
  <2>6. lastLevel' \in [Types -> Levels]
    BY <2>1, <2>2 DEF AlertTypes
  <2> QED BY <2>2, <2>3, <2>4, <2>5, <2>6 DEF AlertTypes
<1>2. CASE \E v \in Samples : Drop(v)
  <2>1. /\ late /\ late' = FALSE /\ taken' = taken + 1 /\ event' = NoEvent
        /\ UNCHANGED <<lastLevel, lastAlert, lastMulti, time, alertedAt>>
    BY <1>2 DEF Drop, detector, history
  <2> QED BY <1>0, <2>1 DEF AlertTypes
<1>3. CASE Callback
  <2>1. /\ taken < MaxSamples /\ event' = NoEvent
        /\ UNCHANGED <<lastLevel, lastAlert, lastMulti, time, taken, alertedAt>>
    BY <1>3 DEF Callback, detector, history
  <2> QED BY <1>0, <2>1 DEF AlertTypes
<1>4. ASSUME NEW t \in Types, ResetWindow(t)
      PROVE  AlertTypes'
  BY <1>0, <1>4 DEF ResetWindow, AlertTypes
<1>5. CASE Tick
  <2>1. /\ time < MaxTime /\ time' = time + 1 /\ event' = NoEvent
        /\ UNCHANGED <<late, lastLevel, lastAlert, lastMulti, taken, alertedAt>>
    BY <1>5 DEF Tick, detector, history
  <2> QED BY <1>0, <2>1 DEF AlertTypes
<1>6. CASE \/ \E t \in Types, s \in Sigmas : SetThreshold(t, s)
           \/ Start \/ Stop \/ StopDone \/ Shutdown \/ UNCHANGED vars
  <2>1. /\ event' \in {event, NoEvent}
        /\ UNCHANGED <<late, lastLevel, lastAlert, lastMulti, time, taken, alertedAt>>
    BY <1>6 DEF SetThreshold, Start, Stop, StopDone, Shutdown, vars, detector,
           history
  <2> QED BY <1>0, <2>1 DEF AlertTypes
<1> QED BY <1>1, <1>2, <1>3, <1>4, <1>5, <1>6 DEF Next, Sensor, Control

LEMMA SigmaInductive ==
  ASSUME sigma \in [Types -> Thresholds], [Next]_vars
  PROVE  sigma' \in [Types -> Thresholds]
<1>1. CASE \E t \in Types, s \in Sigmas : SetThreshold(t, s)
  BY <1>1, AnomalyAssumption DEF SetThreshold
<1>2. CASE UNCHANGED sigma
  BY <1>2
<1>3. UNCHANGED sigma \/ \E t \in Types, s \in Sigmas : SetThreshold(t, s)
  BY DEF Next, Sensor, Control, vars, detector, Callback, Drop, Take, ResetWindow, Start,
         Stop, StopDone, Shutdown, Tick
<1> QED BY <1>1, <1>2, <1>3

LEMMA ShapeInductive ==
  ASSUME Shaped, win = [t \in Types |-> win[t]], [Next]_vars
  PROVE  Shaped'
<1>1. CASE win' = win
  BY <1>1 DEF Shaped
<1>2. ASSUME NEW t \in Types, NEW v \in Samples,
             win' = [win EXCEPT ![t] = UpdateWindow(win[t], v)]
      PROVE  Shaped'
  <2> DEFINE w == UpdateWindow(win[t], v)
  <2>1. w = [vals |-> w.vals, head |-> w.head, count |-> w.count, sum |-> w.sum,
             sumSq |-> w.sumSq]
    BY DEF UpdateWindow
  <2> HIDE DEF w
  <2>2. win' = [win EXCEPT ![t] = w]
    BY <1>2 DEF w
  <2> QED BY <2>1, <2>2 DEF Shaped
<1>3. ASSUME NEW t \in Types, win' = [win EXCEPT ![t] = EmptyWindow]
      PROVE  Shaped'
  BY <1>3 DEF Shaped, EmptyWindow
<1> QED BY <1>1, <1>2, <1>3, WindowStep

\* For every size of window, clock and interval: the place of the next value stays within
\* the window, the sums are numbers, and the stamps are values of the 32-bit uptime.
THEOREM TypeCorrect == Rounding => (Spec => []TypeOK)
<1> SUFFICES ASSUME Rounding PROVE Spec => []TypeOK
  OBVIOUS
<1> DEFINE Typed == LifeTypes /\ AlertTypes /\ Shaped /\ sigma \in [Types -> Thresholds]
                    /\ RunningSums
<1>1. Init => Typed
  <2> SUFFICES ASSUME Init PROVE Typed
    OBVIOUS
  <2>1. RunningSums /\ sigma \in [Types -> Thresholds]
    BY SumsInitial, AnomalyAssumption DEF Init
  <2>2. LifeTypes
    BY DEF Init, LifeTypes
  <2>3. Shaped
    BY DEF Init, Shaped, EmptyWindow
  <2>4. AlertTypes
    BY AnomalyAssumption DEF Init, AlertTypes, NoEvent, Levels, None, Emergency
  <2> QED BY <2>1, <2>2, <2>3, <2>4
<1>2. Typed /\ [Next]_vars => Typed'
  <2>1. RunningSums => win = [t \in Types |-> win[t]]
    BY DEF RunningSums
  <2> QED BY <2>1, LifeTypesInductive, AlertTypesInductive, ShapeInductive,
             SigmaInductive, SumsInductive
<1>3. Typed => TypeOK
  <2> SUFFICES ASSUME Typed PROVE TypeOK
    OBVIOUS
  <2> DEFINE Windows == [vals : [0 .. W - 1 -> Int], head : 0 .. W - 1, count : 0 .. W,
                         sum : Int, sumSq : Int]
  <2>1. ASSUME NEW t \in Types PROVE win[t] \in Windows
    <3> DEFINE w == win[t]
    <3>1. Summed(w, drift[t])
          /\ w = [vals |-> w.vals, head |-> w.head, count |-> w.count, sum |-> w.sum,
                  sumSq |-> w.sumSq]
      BY DEF RunningSums, Shaped
    <3> QED BY <3>1 DEF Summed, Filled, Near
  <2>2. win \in [Types -> Windows]
    BY <2>1 DEF RunningSums
  <2> QED BY <2>2 DEF TypeOK, LifeTypes, AlertTypes, RunningSums
<1> QED BY <1>1, <1>2, <1>3, PTL DEF Spec
=============================================================================
