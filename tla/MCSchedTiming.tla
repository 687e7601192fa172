------------------------------ MODULE MCSchedTiming ------------------------------
EXTENDS SchedTiming
CONSTANTS t0, t1, t2, e0, e1, r0, NULL
ThreeThreads == {t0, t1, t2}
TwoEvents    == {e0, e1}
OneRegs      == {r0}
TscOrNone    == {SRC_NONE, SRC_TSC}
DelayRange   == 0 .. 2
=============================================================================
