---------------------------- MODULE MCIdlePause -----------------------------
EXTENDS IdlePause
=============================================================================
