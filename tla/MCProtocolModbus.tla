-------------------------- MODULE MCProtocolModbus --------------------------
(* Instances of ProtocolModbus for TLC.                                    *)
EXTENDS ProtocolModbus
=============================================================================
