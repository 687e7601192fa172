------------------------------ MODULE MCTimerQ ------------------------------
EXTENDS TimerQ
CONSTANTS e0, e1, e2
ThreeEvents == {e0, e1, e2}
=============================================================================
