---------------------------- MODULE MCCloudUpload ----------------------------
(* Instances of CloudUpload for TLC.                                       *)
EXTENDS CloudUpload
=============================================================================
