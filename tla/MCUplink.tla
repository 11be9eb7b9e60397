------------------------------ MODULE MCUplink ------------------------------
EXTENDS Uplink
=============================================================================
