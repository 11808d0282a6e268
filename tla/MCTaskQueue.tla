---------------------------- MODULE MCTaskQueue ----------------------------
(***************************************************************************)
(* TaskQueueHistory for TLC: four addresses, so that a pass can stand      *)
(* before, on and behind tasks that its callbacks push and cancel, and an  *)
(* address is handed out again while a cursor may still hold it.           *)
(***************************************************************************)
EXTENDS TaskQueueHistory

(* The fairness of FairSpec: the loops run on and the callbacks return.    *)
HFairSpec == HSpec /\ WF_vars(Loop)
=============================================================================
