-------------------------- MODULE MCFieldSources --------------------------
EXTENDS FieldSources
=============================================================================
