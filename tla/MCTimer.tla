------------------------------ MODULE MCTimer ------------------------------
(* The limits given to ep_timer_execute, and that timers are alike.        *)
EXTENDS TimerHistory, TLC

Limits == {-1, 0, 1, 2}
Addresses == Permutations(Timer)
=============================================================================
