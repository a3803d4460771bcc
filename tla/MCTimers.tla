------------------------------ MODULE MCTimers ------------------------------
EXTENDS Timers, TLC
================================================================================
