------------------------------ MODULE MCTimers ------------------------------
(* Instances of Timers for TLC with three listeners.                        *)
EXTENDS Timers
CONSTANTS l1, l2, l3
MCListeners == {l1, l2, l3}
=============================================================================
