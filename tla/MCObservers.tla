---------------------------- MODULE MCObservers -----------------------------
EXTENDS Observers

CONSTANTS d0, v0, f1, f2, i1, i2
=============================================================================
