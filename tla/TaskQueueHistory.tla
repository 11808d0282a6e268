-------------------------- MODULE TaskQueueHistory --------------------------
(***************************************************************************)
(* TaskQueue with a memory of what a pass still owes.                      *)
(***************************************************************************)
EXTENDS TaskQueueFifo

(***************************************************************************)
(* The tasks the pass in progress still owes a call: those queued when it  *)
(* started that it has neither called nor seen cancelled.                  *)
(***************************************************************************)
VARIABLE due

HInit == Init /\ due = {}

HNext ==
  /\ Next
  /\ due' = CASE mode = "idle" /\ mode' \in {"run", "keep"} -> Linked
              [] ~inCb /\ inCb'                             -> due \ {pos'}
              [] OTHER                                      -> due \cap alloc'

HSpec == HInit /\ [][HNext]_<<vars, due>>

(***************************************************************************)
(* A pass calls every task that was queued when it started, unless a       *)
(* callback cancelled it on the way.                                       *)
(***************************************************************************)
PassServesAll ==
  [][(mode \in {"run", "keep"} /\ mode' = "idle") => due = {}]_<<vars, due>>
=============================================================================
