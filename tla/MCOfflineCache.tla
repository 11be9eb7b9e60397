--------------------------- MODULE MCOfflineCache ---------------------------
(* Instances of OfflineCache for TLC: the slots' markers are model values,  *)
(* everything else is given by the .cfg of each run.                       *)
EXTENDS OfflineCache
=============================================================================
