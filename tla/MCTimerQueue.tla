---------------------------- MODULE MCTimerQueue ----------------------------
(* A few tasks, a few seconds.                                             *)
EXTENDS TimerQueue
=============================================================================
