--------------------------- MODULE CloudProvider ---------------------------
(***************************************************************************)
(* The provider registry (src/gateway/cloud_provider.c) and the one cloud  *)
(* provider a build has (cloud_private.c, cloud_aliyun.c, cloud_tencent.c  *)
(* or cloud_aws.c, chosen in Kconfig).  Starting a provider gives the MQTT *)
(* module its identity one setter at a time, each followed by a request to *)
(* reconnect, while the MQTT worker drops and makes connections and the    *)
(* upload thread reports readings on whatever session there is.            *)
(*                                                                         *)
(* A value is "default" (Kconfig), "own" (of the provider) or "none".  The *)
(* MQTT module is MqttSession, which ProtocolMqtt implements; it may be    *)
(* stopped and started at any time.                                        *)
(***************************************************************************)
EXTENDS Naturals, Sequences

CONSTANT Readings   \* bound: readings the upload thread reports

ASSUME ProviderAssumption == Readings \in Nat

VARIABLES
  build,     \* the build: its provider, AWS_TLS, the steps its values fail
  registry,  \* g_providers[0 .. g_provider_count - 1]
  setup,     \* the call of start at hand, 0 outside start
  asking,    \* its setter has written, the reconnection is still to be requested
  result,    \* what start last returned
  cfg,       \* the identity of g_mqtt: client_id, auth, TLS, broker
  conn,      \* the identity mqtt_do_connect copied last
  pending,   \* pending_disconnect
  w,         \* the MQTT worker
  session,   \* its session
  asked,     \* the providers publish_all has still to ask
  took,      \* success of publish_all
  refused,   \* fail of publish_all
  reported   \* history: readings reported

provider == <<setup, asking, result>>
mqtt     == <<cfg, conn, pending, w, session>>
upload   == <<asked, took, refused, reported>>
vars     == <<build, registry, provider, mqtt, upload>>

Providers == {"private", "aliyun", "tencent", "aws"}
MAX_CLOUD_PROVIDERS == 4
Fields == {"clientId", "auth", "tls", "broker"}

Mqtt == INSTANCE MqttSession WITH Values <- {"default", "own", "none"}

\* What the MQTT module has after its init.
Default ==
  [clientId |-> "default", auth |-> "none", tls |-> "none", broker |-> "default"]

\* Mutant: the broker is set before who connects to it.
CallsBrokerFirst(b) ==
  CASE b.provider \in {"aliyun", "tencent"} ->
         <<"sign", "address", "broker", "clientId", "auth">>
    [] b.provider = "aws" -> <<"address", "broker", "clientId", "auth", "tls">>
    [] b.provider = "private" -> <<>>

\* The calls a start makes, in order.  "sign" is the HMAC of the password,
\* "address" the check of the broker's name, the others are protocol_mqtt_set_*.
Calls(b) ==
  CASE b.provider \in {"aliyun", "tencent"} ->
         <<"sign", "address", "clientId", "auth", "broker">>
    [] b.provider = "aws" -> <<"clientId", "auth", "address", "tls", "broker">>
    [] b.provider = "private" -> <<>>

\* The identity a start is to leave behind.
Own(b) ==
  CASE b.provider = "private" -> Default
    [] b.provider = "aws" ->
         [clientId |-> "own", auth |-> "none", tls |-> IF b.tls THEN "own" ELSE "none",
          broker |-> "own"]
    [] b.provider \in {"aliyun", "tencent"} ->
         [clientId |-> "own", auth |-> "own", tls |-> "none", broker |-> "own"]

\* The calls that fail in every start of a build whose values do not fit them:
\* a name may be too long for a buffer, and the secret is empty by default.
Breakable(p) ==
  CASE p = "private" -> {}
    [] p = "aws" -> {"clientId", "address", "broker"}
    [] p \in {"aliyun", "tencent"} -> {"sign", "address", "clientId", "auth", "broker"}

Builds ==
  {b \in [provider : Providers, tls : BOOLEAN, wrong : SUBSET (Fields \cup {"sign", "address"})] :
    /\ b.tls => b.provider = "aws"
    /\ b.wrong \subseteq Breakable(b.provider)}

Init ==
  /\ build \in Builds
  /\ registry = <<>>
  /\ setup = 0 /\ asking = FALSE /\ result = "none"
  /\ cfg = Default /\ Mqtt!SessionBegin
  /\ asked = <<>> /\ took = 0 /\ refused = 0 /\ reported = 0

-----------------------------------------------------------------------------
(* The registry: init of the provider's module may come again after a      *)
(* shutdown, which leaves the registry alone.                              *)

RegisterTwice ==   \* Mutant: the name is not looked up.
  /\ Len(registry) < MAX_CLOUD_PROVIDERS
  /\ registry' = Append(registry, build.provider)
  /\ UNCHANGED <<build, provider, mqtt, upload>>

Register ==
  /\ Len(registry) < MAX_CLOUD_PROVIDERS
  /\ \A i \in DOMAIN registry : registry[i] # build.provider
  /\ registry' = Append(registry, build.provider)
  /\ UNCHANGED <<build, provider, mqtt, upload>>

-----------------------------------------------------------------------------
(* The start of the provider, on the thread of the module manager          *)

Return(r) == setup' = 0 /\ result' = r

\* The next call, or the end of the setup.
Advance ==
  IF setup < Len(Calls(build)) THEN setup' = setup + 1 /\ UNCHANGED result
                               ELSE Return("ok")

\* A provider of no calls has started at once; none looks at a status first.
Start ==
  /\ setup = 0 /\ registry # <<>>
  /\ Advance
  /\ UNCHANGED <<build, registry, asking, mqtt, upload>>

Call == IF setup = 0 THEN "none" ELSE Calls(build)[setup]

\* The signature: wrong without a secret or a crypto library, and able to fail.
Sign ==
  /\ Call = "sign"
  /\ \/ Call \notin build.wrong /\ Advance
     \/ Return("failed")
  /\ UNCHANGED <<build, registry, asking, mqtt, upload>>

Address ==
  /\ Call = "address"
  /\ IF Call \in build.wrong THEN Return("failed") ELSE Advance
  /\ UNCHANGED <<build, registry, asking, mqtt, upload>>

SetRefused ==
  /\ Call \in Fields \cap build.wrong /\ ~asking
  /\ Return("failed")
  /\ UNCHANGED <<build, registry, asking, mqtt, upload>>

\* A setter writes its value with the mutex ...
Set ==
  /\ Call \in Fields \ build.wrong /\ ~asking
  /\ Mqtt!Change(Call, Own(build)[Call])
  /\ asking' = TRUE
  /\ UNCHANGED <<build, registry, setup, result, upload>>

\* Mutant: set_broker does not ask for a reconnection.
RequestUnlessBroker ==
  /\ asking /\ asking' = FALSE
  /\ IF Call = "broker" THEN UNCHANGED mqtt ELSE Mqtt!AskToDrop
  /\ Advance
  /\ UNCHANGED <<build, registry, upload>>

\* ... and asks for the reconnection once it has given the mutex back.
RequestReconnect ==
  /\ asking /\ asking' = FALSE
  /\ Mqtt!AskToDrop
  /\ Advance
  /\ UNCHANGED <<build, registry, upload>>

-----------------------------------------------------------------------------
(* The MQTT module: its worker, stop, which asks it to drop the session, and *)
(* publishers other than the upload thread, whose writes may end it          *)

Worker ==
  /\ Mqtt!SessionWorker \/ Mqtt!AskToDrop \/ Mqtt!End
  /\ UNCHANGED <<build, registry, provider, upload>>

-----------------------------------------------------------------------------
(* The upload thread: cloud_provider_publish_all                           *)

PublishAll ==
  /\ asked = <<>> /\ reported < Readings
  /\ asked' = registry /\ took' = 0 /\ refused' = 0
  /\ reported' = reported + 1
  /\ UNCHANGED <<build, registry, provider, mqtt>>

\* The provider's publish: it needs a session, and may fail for its own reasons or
\* in the write, which ends the session.
Ask ==
  /\ asked # <<>> /\ asked' = Tail(asked)
  /\ \/ session = "up" /\ took' = took + 1 /\ UNCHANGED <<refused, mqtt>>
     \/ refused' = refused + 1 /\ (Mqtt!End \/ UNCHANGED mqtt) /\ UNCHANGED took
  /\ UNCHANGED <<build, registry, provider, reported>>

Provider == Start \/ Sign \/ Address \/ SetRefused \/ Set \/ RequestReconnect

Next == Register \/ Provider \/ Worker \/ PublishAll \/ Ask

Spec == Init /\ [][Next]_vars

-----------------------------------------------------------------------------
(* Properties                                                              *)

\* Every variable has its type.
TypeOK ==
  /\ build \in Builds
  /\ registry \in Seq(Providers)
  /\ setup \in 0 .. Len(Calls(build))
  /\ asking \in BOOLEAN
  /\ result \in {"none", "ok", "failed"}
  /\ cfg \in [Fields -> {"default", "own", "none"}]
  /\ conn \in [Fields -> {"default", "own", "none"}]
  /\ pending \in BOOLEAN
  /\ w \in {"off", "top", "drop", "act", "attempt", "exit"}
  /\ session \in {"down", "trying", "up"}
  /\ asked \in Seq(Providers)
  /\ {took, refused, reported} \subseteq Nat

\* The provider's broker is set last, so whatever the worker does between two
\* setters, and wherever a start fails, no connection reaches the broker of the
\* provider with an identity that is not complete.
CompleteAtOwnBroker ==
  conn.broker = "own" => conn = Own(build)

\* Once a start has succeeded and the worker has taken its last request, a
\* session is one of the provider's identity: no setter's value is left behind
\* by a reconnection the worker took for an earlier one.
OwnCloud ==
  result = "ok" /\ setup = 0 /\ ~pending /\ w # "drop" /\ session # "down"
    => conn = Own(build)

\* However often the provider's module is initialized, a reading is offered to
\* it once.
OfferedOnce == took + refused + Len(asked) <= 1

=============================================================================
