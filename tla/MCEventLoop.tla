---------------------------- MODULE MCEventLoop ----------------------------
(* EventLoop for TLC: waittimes, with -1 for no limit.                     *)
EXTENDS EventLoop

AnyHint == {-1, 1}

=============================================================================
