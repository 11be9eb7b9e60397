------------------------ MODULE CloudProviderProofs ------------------------
(* Theorems about CloudProvider, for every build and any number of         *)
(* readings.                                                               *)
EXTENDS CloudProvider, SequenceTheorems, TLAPS

-----------------------------------------------------------------------------
(* The calls of a start                                                    *)

\* What the properties need of the calls of a build: there is a broker among them
\* only at the end, and every field that differs from the default is among them.
LEMMA CallsOfBuild ==
  ASSUME NEW b \in Builds
  PROVE  /\ Len(Calls(b)) \in Nat
         /\ \A k \in 1 .. Len(Calls(b)) : Calls(b)[k] = "broker" => k = Len(Calls(b))
         /\ \A f \in Fields : \/ Own(b)[f] = Default[f]
                              \/ \E k \in 1 .. Len(Calls(b)) : Calls(b)[k] = f
<1>0. b.provider \in Providers
  BY DEF Builds
<1>1. CASE b.provider = "private"
  <2>1. Calls(b) = <<>> /\ Own(b) = Default
    BY <1>1 DEF Calls, Own
  <2> QED BY <2>1
<1>2. CASE b.provider = "aws"
  <2>1. /\ Calls(b) = <<"clientId", "auth", "address", "tls", "broker">>
        /\ Own(b) = [clientId |-> "own", auth |-> "none",
                     tls |-> IF b.tls THEN "own" ELSE "none", broker |-> "own"]
    BY <1>2 DEF Calls, Own
  <2> DEFINE calls == <<"clientId", "auth", "address", "tls", "broker">>
  <2>2. /\ Len(calls) = 5 /\ calls[1] = "clientId" /\ calls[2] = "auth"
        /\ calls[3] = "address" /\ calls[4] = "tls" /\ calls[5] = "broker"
    OBVIOUS
  <2> QED BY <2>1, <2>2 DEF Fields
<1>3. CASE b.provider \in {"aliyun", "tencent"}
  <2>1. /\ Calls(b) = <<"sign", "address", "clientId", "auth", "broker">>
        /\ Own(b) = [clientId |-> "own", auth |-> "own", tls |-> "none", broker |-> "own"]
    BY <1>3 DEF Calls, Own
  <2> DEFINE calls == <<"sign", "address", "clientId", "auth", "broker">>
  <2>2. /\ Len(calls) = 5 /\ calls[1] = "sign" /\ calls[2] = "address"
        /\ calls[3] = "clientId" /\ calls[4] = "auth" /\ calls[5] = "broker"
    OBVIOUS
  <2> QED BY <2>1, <2>2 DEF Fields, Default
<1> QED BY <1>0, <1>1, <1>2, <1>3 DEF Providers

\* The fields of an identity.
LEMMA Identities ==
  ASSUME NEW b \in Builds
  PROVE  /\ Default = [f \in Fields |-> Default[f]] /\ Own(b) = [f \in Fields |-> Own(b)[f]]
         /\ Default.broker = "default"
BY DEF Default, Own, Fields, Builds, Providers
-----------------------------------------------------------------------------
(* The identity                                                            *)

\* Call k of the start at hand has done its work.
Done(k) == k < setup \/ (k = setup /\ asking)

\* The identity in g_mqtt has only values of Kconfig and of the provider, those of
\* the calls that are done are the provider's, and the broker's stands for all.
Identity ==
  /\ build \in Builds
  /\ setup \in 0 .. Len(Calls(build)) /\ (asking => setup # 0 /\ Call \in Fields)
  /\ cfg = [f \in Fields |-> cfg[f]]
  /\ \A f \in Fields : cfg[f] \in {Default[f], Own(build)[f]}
  /\ \A k \in 1 .. Len(Calls(build)) :
       Done(k) /\ Calls(build)[k] \in Fields => cfg[Calls(build)[k]] = Own(build)[Calls(build)[k]]
  /\ cfg["broker"] = "own" => cfg = Own(build)
  /\ conn["broker"] = "own" => conn = Own(build)

\* A start that returned 0 left the provider's identity, and a session or an
\* attempt that has another one is about to be dropped.
Adopted ==
  /\ setup = 0 /\ result = "ok" => cfg = Own(build)
  /\ (session # "down" \/ w = "attempt") /\ conn # cfg => pending \/ w = "drop" \/ asking

\* Once every call is done the identity is the provider's.
LEMMA AllDone ==
  ASSUME Identity,
         \A k \in 1 .. Len(Calls(build)) :
           Calls(build)[k] \in Fields => cfg[Calls(build)[k]] = Own(build)[Calls(build)[k]]
  PROVE  cfg = Own(build)
<1>1. ASSUME NEW f \in Fields PROVE cfg[f] = Own(build)[f]
  BY <1>1, CallsOfBuild DEF Identity
<1> QED BY <1>1, Identities DEF Identity

\* The end of a call that has done its work.
LEMMA Advanced ==
  ASSUME Identity, Adopted, Advance, UNCHANGED <<build, cfg, conn>>, ~asking',
         setup # 0 => \/ Call \notin Fields
                      \/ asking
  PROVE  Identity' /\ (setup' = 0 /\ result' = "ok" => cfg' = Own(build'))
<1> DEFINE N == Len(Calls(build))
<1>0. N \in Nat /\ setup \in 0 .. N
  BY CallsOfBuild DEF Identity
<1>1. ASSUME NEW k \in 1 .. N, k <= setup, Calls(build)[k] \in Fields
      PROVE  cfg[Calls(build)[k]] = Own(build)[Calls(build)[k]]
  BY <1>0, <1>1 DEF Identity, Done, Call
<1>2. CASE setup < N
  <2>1. setup' = setup + 1
    BY <1>2 DEF Advance
  <2> QED BY <1>0, <1>1, <1>2, <2>1 DEF Identity, Done
<1>3. CASE ~(setup < N)
  <2>1. setup' = 0 /\ setup = N
    BY <1>0, <1>3 DEF Advance, Return
  <2>2. cfg = Own(build)
    BY <1>0, <1>1, <2>1, AllDone
  <2> QED BY <1>0, <2>1, <2>2 DEF Identity, Done
<1> QED BY <1>2, <1>3

\* A start that fails leaves what it has set.
LEMMA Failed ==
  ASSUME Identity, Return("failed"), UNCHANGED <<build, cfg, conn>>, ~asking'
  PROVE  Identity'
<1>1. Len(Calls(build)) \in Nat /\ setup' = 0
  BY CallsOfBuild DEF Identity, Return
<1> QED BY <1>1 DEF Identity, Done

\* The setter of the broker is the last call.
LEMMA SetKeeps ==
  ASSUME Identity, Set
  PROVE  Identity'
<1> DEFINE N == Len(Calls(build))
<1>1. /\ N \in Nat /\ setup \in 1 .. N /\ Call = Calls(build)[setup] /\ Call \in Fields
      /\ asking = FALSE \/ ~asking
  <2>1. setup # 0
    BY DEF Set, Call, Fields
  <2> QED BY <2>1, CallsOfBuild DEF Identity, Set, Call
<1>2. /\ cfg' = [cfg EXCEPT ![Call] = Own(build)[Call]] /\ asking' = TRUE
      /\ UNCHANGED <<build, setup, conn>>
  BY DEF Set, Mqtt!Change
<1>3. /\ cfg' = [f \in Fields |-> cfg'[f]]
      /\ \A f \in Fields : cfg'[f] = IF f = Call THEN Own(build)[f] ELSE cfg[f]
  BY <1>1, <1>2 DEF Identity
<1>4. \A f \in Fields : cfg'[f] \in {Default[f], Own(build)[f]}
  BY <1>3 DEF Identity
<1>5. ASSUME NEW k \in 1 .. N, k <= setup, Calls(build)[k] \in Fields
      PROVE  cfg'[Calls(build)[k]] = Own(build)[Calls(build)[k]]
  <2>1. CASE k = setup
    BY <1>1, <1>3, <1>5, <2>1
  <2>2. CASE k < setup
    BY <1>3, <1>5, <2>2 DEF Identity, Done
  <2> QED BY <1>1, <1>5, <2>1, <2>2
<1>6. cfg'["broker"] = "own" => cfg' = Own(build)
  <2> SUFFICES ASSUME cfg'["broker"] = "own" PROVE cfg' = Own(build)
    OBVIOUS
  <2>1. CASE Call = "broker"
    <3>1. setup = N
      <4>1. \A k \in 1 .. N : Calls(build)[k] = "broker" => k = N
        BY CallsOfBuild DEF Identity
      <4> QED BY <1>1, <2>1, <4>1
    <3>2. ASSUME NEW f \in Fields PROVE cfg'[f] = Own(build)[f]
      <4>1. CASE Own(build)[f] = Default[f]
        BY <1>4, <4>1
      <4>2. CASE \E k \in 1 .. N : Calls(build)[k] = f
        BY <1>1, <1>5, <3>1, <4>2
      <4> QED BY <4>1, <4>2, CallsOfBuild DEF Identity
    <3> QED BY <1>3, <3>2, Identities DEF Identity
  <2>2. CASE Call # "broker"
    <3>1. cfg["broker"] = "own"
      BY <1>3, <2>2 DEF Fields
    <3>2. cfg = Own(build)
      BY <3>1 DEF Identity
    <3> QED BY <1>3, <3>2 DEF Identity
  <2> QED BY <2>1, <2>2
<1> QED
  <2>1. \A k \in 1 .. N : k < setup' \/ (k = setup' /\ asking') => k <= setup
    BY <1>1, <1>2
  <2>2. Call' = Call
    BY <1>2 DEF Call
  <2>3. conn'["broker"] = "own" => conn' = Own(build')
    BY <1>2 DEF Identity
  <2>4. build' \in Builds /\ N' = N /\ Own(build') = Own(build) /\ Calls(build') = Calls(build)
    BY <1>2 DEF Identity
  <2>5. setup' \in 0 .. N /\ setup' # 0
    BY <1>1, <1>2
  <2> HIDE DEF N
  <2> QED BY <1>1, <1>2, <1>3, <1>4, <1>5, <1>6, <2>1, <2>2, <2>3, <2>4, <2>5
          DEF Identity, Done, N

\* What the MQTT module does to the identity and to the requests: only a copy
\* changes the identity in use, and a request stays until its session is dropped.
LEMMA SessionSteps ==
  ASSUME Mqtt!SessionWorker \/ Mqtt!AskToDrop \/ Mqtt!End
  PROVE  /\ cfg' = cfg /\ (conn' = conn \/ (conn' = cfg /\ Mqtt!Snapshot))
         /\ (session' # "down" \/ w' = "attempt") /\ ~Mqtt!Snapshot
              => session # "down" \/ w = "attempt"
         /\ (session' # "down" \/ w' = "attempt") /\ (pending \/ w = "drop")
              => pending' \/ w' = "drop"
<1>1. CASE Mqtt!Spawn \/ Mqtt!Exit
  BY <1>1 DEF Mqtt!Spawn, Mqtt!Exit
<1>2. CASE Mqtt!Top \/ Mqtt!Drop \/ Mqtt!Rest \/ Mqtt!Leave
  BY <1>2 DEF Mqtt!Top, Mqtt!Drop, Mqtt!Rest, Mqtt!Leave
<1>3. CASE Mqtt!Snapshot
  BY <1>3 DEF Mqtt!Snapshot
<1>4. CASE Mqtt!Attempt
  BY <1>4 DEF Mqtt!Attempt
<1>5. CASE Mqtt!Serve
  <2>1. pending => pending'
    BY <1>5, Zenon DEF Mqtt!Serve
  <2> QED BY <1>5, <2>1 DEF Mqtt!Serve
<1>6. CASE Mqtt!AskToDrop
  BY <1>6 DEF Mqtt!AskToDrop
<1>7. CASE Mqtt!End
  BY <1>7 DEF Mqtt!End
<1> QED
  BY <1>1, <1>2, <1>3, <1>4, <1>5, <1>6, <1>7 DEF Mqtt!SessionWorker

\* Every step keeps both.
LEMMA IdentityInductive ==
  ASSUME Identity, Adopted, [Next]_vars
  PROVE  Identity' /\ Adopted'
<1>0. Len(Calls(build)) \in Nat
  BY CallsOfBuild DEF Identity
<1>1. CASE Start
  <2>1. Advance /\ setup = 0 /\ ~asking /\ ~asking' /\ UNCHANGED <<build, cfg, mqtt>>
    BY <1>1 DEF Start, Identity, mqtt
  <2> QED BY <2>1, Advanced DEF Adopted, mqtt
<1>2. CASE Sign \/ Address \/ SetRefused
  <2>1. /\ ~asking /\ ~asking' /\ UNCHANGED <<build, cfg, mqtt>>
        /\ (Call \notin Fields /\ Advance) \/ Return("failed")
    BY <1>2 DEF Sign, Address, SetRefused, Identity, Fields, mqtt
  <2>2. CASE Call \notin Fields /\ Advance
    BY <2>1, <2>2, Advanced DEF Adopted, mqtt
  <2>3. CASE Return("failed")
    BY <2>1, <2>3, Failed DEF Adopted, mqtt, Return
  <2> QED BY <2>1, <2>2, <2>3
<1>3. CASE Set
  <2>1. asking' = TRUE /\ UNCHANGED <<setup, result, conn, pending, w, session>> /\ setup # 0
    BY <1>3 DEF Set, Call, Fields, Mqtt!Change
  <2> QED BY <1>3, <2>1, SetKeeps DEF Adopted, mqtt
<1>4. CASE RequestReconnect
  <2>1. /\ Advance /\ asking /\ ~asking' /\ pending' = TRUE
        /\ UNCHANGED <<build, cfg, conn, w, session>>
    BY <1>4 DEF RequestReconnect, Mqtt!AskToDrop
  <2> QED BY <2>1, Advanced DEF Adopted
<1>5. CASE Worker
  <2>0. /\ UNCHANGED <<build, setup, asking, result>>
        /\ Mqtt!SessionWorker \/ Mqtt!AskToDrop \/ Mqtt!End
    BY <1>5 DEF Worker, provider
  <2>1. cfg' = cfg /\ (conn' = conn \/ (conn' = cfg /\ Mqtt!Snapshot))
    BY <2>0, SessionSteps
  <2>2. Identity'
    BY <2>0, <2>1 DEF Identity, Done, Call
  <2>3. CASE conn' = cfg
    BY <2>0, <2>1, <2>2, <2>3 DEF Adopted
  <2>4. CASE conn' = conn
    <3>1. (session' # "down" \/ w' = "attempt") /\ ~Mqtt!Snapshot
            => session # "down" \/ w = "attempt"
      BY <2>0, SessionSteps
    <3>2. (session' # "down" \/ w' = "attempt") /\ (pending \/ w = "drop")
            => pending' \/ w' = "drop"
      BY <2>0, SessionSteps
    <3>3. Mqtt!Snapshot => conn' = cfg
      BY DEF Mqtt!Snapshot
    <3> QED BY <2>0, <2>1, <2>2, <2>4, <3>1, <3>2, <3>3 DEF Adopted
  <2> QED BY <2>1, <2>2, <2>3, <2>4
<1>6. CASE Register \/ PublishAll \/ (Ask /\ UNCHANGED mqtt) \/ UNCHANGED vars
  <2>1. UNCHANGED <<build, provider, mqtt>>
    BY <1>6 DEF Register, PublishAll, Ask, vars
  <2> QED BY <2>1 DEF Identity, Adopted, provider, mqtt, Done, Call
<1>7. CASE Ask /\ Mqtt!End
  <2>1. UNCHANGED <<build, provider, cfg, conn, pending, w>> /\ session' = "down"
    BY <1>7 DEF Ask, Mqtt!End
  <2> QED BY <2>1 DEF Identity, Adopted, provider, Done, Call
<1>8. Ask => UNCHANGED mqtt \/ Mqtt!End
  BY DEF Ask
<1> QED
  BY <1>1, <1>2, <1>3, <1>4, <1>5, <1>6, <1>7, <1>8 DEF Next, Provider

LEMMA IdentityAlways == Spec => [](Identity /\ Adopted)
<1>1. Init => Identity /\ Adopted
  <2> SUFFICES ASSUME Init PROVE Identity /\ Adopted
    OBVIOUS
  <2>1. Default["broker"] # "own" /\ Default = [f \in Fields |-> Default[f]]
    BY Identities DEF Init
  <2>2. cfg = Default /\ conn = cfg
    BY DEF Init, Mqtt!SessionBegin
  <2> QED BY <2>1, <2>2, CallsOfBuild DEF Init, Identity, Adopted, Done
<1>2. Identity /\ Adopted /\ [Next]_vars => (Identity /\ Adopted)'
  BY IdentityInductive
<1> QED BY <1>1, <1>2, PTL DEF Spec

\* For every build, whatever the worker does between two setters and wherever a
\* start fails, the provider's broker sees the provider's identity or nobody.
THEOREM AlwaysCompleteAtOwnBroker == Spec => []CompleteAtOwnBroker
<1>1. Identity => CompleteAtOwnBroker
  BY DEF Identity, CompleteAtOwnBroker
<1> QED BY <1>1, IdentityAlways, PTL

\* No setter's value is left behind by a reconnection taken for an earlier one.
THEOREM AlwaysOwnCloud == Spec => []OwnCloud
<1>1. Identity /\ Adopted => OwnCloud
  BY DEF Identity, Adopted, OwnCloud
<1> QED BY <1>1, IdentityAlways, PTL

-----------------------------------------------------------------------------
(* The registry                                                            *)

Registered ==
  /\ registry = <<>> \/ registry = <<build.provider>>
  /\ asked = <<>> \/ asked = <<build.provider>>
  /\ took \in Nat /\ refused \in Nat
  /\ took + refused + Len(asked) <= 1

\* The provider is in the registry once at most, and is asked for a reading once.
LEMMA RegisteredInductive ==
  ASSUME Registered, [Next]_vars
  PROVE  Registered'
<1>0. /\ Len(<<>>) = 0 /\ Len(<<build.provider>>) = 1 /\ Tail(<<build.provider>>) = <<>>
      /\ Append(<<>>, build.provider) = <<build.provider>>
      /\ <<build.provider>>[1] = build.provider /\ DOMAIN <<build.provider>> = {1}
  OBVIOUS
<1>1. CASE Register
  BY <1>0, <1>1 DEF Register, Registered, upload
<1>2. CASE PublishAll
  <2>1. asked' = registry /\ took' = 0 /\ refused' = 0 /\ UNCHANGED <<build, registry>>
    BY <1>2 DEF PublishAll
  <2>2. CASE registry = <<>>
    BY <1>0, <2>1, <2>2 DEF Registered
  <2>3. CASE registry = <<build.provider>>
    BY <1>0, <2>1, <2>3 DEF Registered
  <2> QED BY <2>2, <2>3 DEF Registered
<1>3. CASE Ask
  BY <1>0, <1>3 DEF Ask, Registered
<1>4. CASE Provider \/ Worker \/ UNCHANGED vars
  <2>1. UNCHANGED <<build, registry, asked, took, refused>>
    BY <1>4 DEF Provider, Worker, Start, Sign, Address, SetRefused, Set, RequestReconnect,
       vars, upload
  <2> QED BY <2>1 DEF Registered
<1> QED BY <1>1, <1>2, <1>3, <1>4 DEF Next

\* A reading is offered to the provider at most once, however often its module
\* registers it.
THEOREM AlwaysOfferedOnce == Spec => []OfferedOnce
<1>1. Init => Registered
  BY EmptySeq DEF Init, Registered
<1>2. Registered /\ [Next]_vars => Registered'
  BY RegisteredInductive
<1>3. Registered => OfferedOnce
  BY DEF Registered, OfferedOnce
<1> QED BY <1>1, <1>2, <1>3, PTL DEF Spec

-----------------------------------------------------------------------------
(* Types                                                                   *)

Kinds == {"default", "own", "none"}

\* What the MQTT module is given and what it does.
SessionTypes ==
  /\ cfg \in [Fields -> Kinds] /\ conn \in [Fields -> Kinds]
  /\ pending \in BOOLEAN
  /\ w \in {"off", "top", "drop", "act", "attempt", "exit"}
  /\ session \in {"down", "trying", "up"}

\* The identities of Kconfig and of every provider.
LEMMA IdentityTypes ==
  /\ Default \in [Fields -> Kinds]
  /\ \A b \in Builds : \A f \in Fields : Own(b)[f] \in Kinds
<1>1. Default \in [Fields -> Kinds]
  BY DEF Default, Fields, Kinds
<1>2. ASSUME NEW b \in Builds, NEW f \in Fields
      PROVE  Own(b)[f] \in Kinds
  <2>0. b.provider \in Providers
    BY DEF Builds
  <2>1. CASE b.provider = "private"
    BY <1>1, <2>1 DEF Own
  <2>2. CASE b.provider = "aws"
    BY <2>2 DEF Own, Fields, Kinds
  <2>3. CASE b.provider \in {"aliyun", "tencent"}
    BY <2>3 DEF Own, Fields, Kinds
  <2> QED BY <2>0, <2>1, <2>2, <2>3 DEF Providers
<1> QED BY <1>1, <1>2

\* The MQTT module keeps its types, whoever calls it.
LEMMA SessionTypesKept ==
  ASSUME SessionTypes, Mqtt!SessionWorker \/ Mqtt!AskToDrop \/ Mqtt!End
  PROVE  SessionTypes'
<1>1. cfg' = cfg /\ (conn' = conn \/ conn' = cfg)
  BY SessionSteps
<1>2. pending' \in BOOLEAN
  <2>1. CASE Mqtt!SessionWorker
    BY <2>1, Zenon DEF SessionTypes, Mqtt!SessionWorker, Mqtt!Spawn, Mqtt!Top, Mqtt!Drop,
       Mqtt!Rest, Mqtt!Snapshot, Mqtt!Attempt, Mqtt!Serve, Mqtt!Leave, Mqtt!Exit
  <2>2. CASE Mqtt!AskToDrop
    BY <2>2, Zenon DEF Mqtt!AskToDrop
  <2>3. CASE Mqtt!End
    BY <2>3 DEF SessionTypes, Mqtt!End
  <2> QED BY <2>1, <2>2, <2>3
<1>3. /\ w' \in {"off", "top", "drop", "act", "attempt", "exit"}
      /\ session' \in {"down", "trying", "up"}
  BY DEF SessionTypes, Mqtt!SessionWorker, Mqtt!Spawn, Mqtt!Top, Mqtt!Drop, Mqtt!Rest,
     Mqtt!Snapshot, Mqtt!Attempt, Mqtt!Serve, Mqtt!Leave, Mqtt!Exit, Mqtt!AskToDrop, Mqtt!End
<1> QED BY <1>1, <1>2, <1>3 DEF SessionTypes

\* What a start and the upload thread leave behind.
CallTypes ==
  /\ asking \in BOOLEAN /\ result \in {"none", "ok", "failed"}
  /\ reported \in Nat

LEMMA TypesInductive ==
  ASSUME Identity, SessionTypes, CallTypes, [Next]_vars
  PROVE  SessionTypes' /\ CallTypes'
<1>1. CASE Start \/ Sign \/ Address \/ SetRefused
  <2>1. /\ UNCHANGED <<mqtt, asking, reported>>
        /\ result' \in {result, "ok", "failed"}
    BY <1>1 DEF Start, Sign, Address, SetRefused, Advance, Return, upload
  <2> QED BY <2>1 DEF SessionTypes, CallTypes, mqtt
<1>2. CASE Set
  <2>1. /\ asking' = TRUE /\ UNCHANGED <<result, conn, pending, w, session, reported>>
        /\ Call \in Fields /\ cfg' = [cfg EXCEPT ![Call] = Own(build)[Call]]
    BY <1>2 DEF Set, Mqtt!Change, upload
  <2>2. Own(build)[Call] \in Kinds
    BY <2>1, IdentityTypes DEF Identity
  <2>3. cfg' \in [Fields -> Kinds]
    BY <2>1, <2>2 DEF SessionTypes
  <2> QED BY <2>1, <2>3 DEF SessionTypes, CallTypes
<1>3. CASE RequestReconnect
  <2>1. /\ Mqtt!AskToDrop /\ asking' = FALSE /\ UNCHANGED reported
        /\ result' \in {result, "ok"}
    BY <1>3 DEF RequestReconnect, Advance, Return, upload
  <2> QED BY <2>1, SessionTypesKept DEF CallTypes
<1>4. CASE Worker
  <2>1. (Mqtt!SessionWorker \/ Mqtt!AskToDrop \/ Mqtt!End) /\ UNCHANGED <<asking, result, reported>>
    BY <1>4 DEF Worker, provider, upload
  <2> QED BY <2>1, SessionTypesKept DEF CallTypes
<1>5. CASE Register \/ PublishAll \/ Ask \/ UNCHANGED vars
  <2>1. UNCHANGED <<asking, result>> /\ reported' \in {reported, reported + 1}
    BY <1>5 DEF Register, PublishAll, Ask, vars, provider, upload
  <2>2. UNCHANGED mqtt \/ Mqtt!End
    BY <1>5 DEF Register, PublishAll, Ask, vars
  <2>3. SessionTypes'
    BY <2>2, SessionTypesKept DEF SessionTypes, mqtt
  <2> QED BY <2>1, <2>3 DEF CallTypes
<1> QED BY <1>1, <1>2, <1>3, <1>4, <1>5 DEF Next, Provider

\* For every build: an identity never holds anything but values of Kconfig and of
\* a provider, and the setup never goes past the calls of its provider.
THEOREM TypeCorrect == Spec => []TypeOK
<1> DEFINE Typed == SessionTypes /\ CallTypes /\ Registered
<1>1. Init => Typed
  <2> SUFFICES ASSUME Init PROVE Typed
    OBVIOUS
  <2>1. cfg = Default /\ conn = cfg /\ pending = FALSE /\ w = "off" /\ session = "down"
    BY DEF Init, Mqtt!SessionBegin
  <2>2. SessionTypes
    BY <2>1, IdentityTypes DEF SessionTypes
  <2>3. Registered
    BY EmptySeq DEF Init, Registered
  <2>4. CallTypes
    BY DEF Init, CallTypes
  <2> QED BY <2>2, <2>3, <2>4
<1>2. Identity /\ Typed /\ [Next]_vars => Typed'
  BY TypesInductive, RegisteredInductive
<1>3. Identity /\ Typed => TypeOK
  <2> SUFFICES ASSUME Identity, Typed PROVE TypeOK
    OBVIOUS
  <2>1. build \in Builds /\ build.provider \in Providers
    BY DEF Identity, Builds
  <2>2. registry \in Seq(Providers) /\ asked \in Seq(Providers)
    <3>1. <<>> \in Seq(Providers) /\ <<build.provider>> \in Seq(Providers)
      BY <2>1
    <3> QED BY <3>1 DEF Registered
  <2>3. setup \in 0 .. Len(Calls(build))
    BY DEF Identity
  <2> QED
    BY <2>1, <2>2, <2>3 DEF SessionTypes, CallTypes, Registered, TypeOK, Kinds
<1> QED BY <1>1, <1>2, <1>3, IdentityAlways, PTL DEF Spec
=============================================================================
