---------------------------- MODULE MCHeartbeat ----------------------------
EXTENDS Heartbeat

CONSTANTS t1, t2, t3, t4, t5, t6
=============================================================================
