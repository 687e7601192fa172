------------------------------ MODULE MCSched ------------------------------
EXTENDS Sched
CONSTANTS t0, t1, t2, e0, e1, r0, r1, NULL
ThreeThreads == {t0, t1, t2}
TwoEvents    == {e0, e1}
TwoRegs      == {r0, r1}
AllSources   == {SRC_NONE, SRC_TSC, SRC_APIC}
DelayRange   == 0 .. 2
=============================================================================
