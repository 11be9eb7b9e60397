-------------------------- MODULE MCCloudProvider --------------------------
EXTENDS CloudProvider
=============================================================================
