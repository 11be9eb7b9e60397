--------------------------- MODULE MCProtocolMqtt ---------------------------
(* Instances of ProtocolMqtt for TLC.                                      *)
EXTENDS ProtocolMqtt
=============================================================================
