---------------------------- MODULE MCTimerWheel ----------------------------
(* Model checking of TimerWheel: the timers are interchangeable. *)
EXTENDS TimerWheelInv, TLC

TimerSymmetry == Permutations(Timer)
=============================================================================
