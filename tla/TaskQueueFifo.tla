--------------------------- MODULE TaskQueueFifo ---------------------------
(***************************************************************************)
(* The pointers of TaskQueue implement the queue of FifoTasks.             *)
(***************************************************************************)
EXTENDS TaskQueue, Sequences

ASSUME TaskFinite == IsFiniteSet(Task)

(* The tasks in the order list_for_each meets them: along the links from   *)
(* the head, and no more steps than there are tasks.                       *)
OrderOf(link) ==
  LET Visit[k \in 0 .. Cardinality(Task)] ==
        IF k = 0 THEN <<>>
        ELSE LET s == Visit[k - 1]
                 x == link[IF s = <<>> THEN ListHead ELSE s[Len(s)]]
             IN  IF x \in Task THEN Append(s, x) ELSE s
  IN  Visit[Cardinality(Task)]

Order == OrderOf(next)

TaskOrNone(x) == IF x \in Task THEN x ELSE NULL

(***************************************************************************)
(* The cursor of a pass: in a callback the loop has kept n (run) or will   *)
(* read the successor when the callback returns (keep).                    *)
(***************************************************************************)
Called == IF inCb THEN pos ELSE NULL

GoesOnWith ==
  CASE mode = "run" /\ inCb               -> TaskOrNone(n)
    [] mode \in {"run", "keep"} /\ ~inCb -> TaskOrNone(pos)
    [] OTHER                             -> NULL

Fifo == INSTANCE FifoTasks WITH
  NoTask <- NULL, queue <- Order, pass <- mode, cur <- Called, nxt <- GoesOnWith

(***************************************************************************)
(* Every step of the pointer-level queue is a step of the first-in         *)
(* first-out queue (or leaves it as it is): tasks are called in the order  *)
(* they were pushed, none twice in a run, none lost, whatever their        *)
(* callbacks push and cancel.                                              *)
(***************************************************************************)
ImplementsFifo == Fifo!Spec

(***************************************************************************)
(* The ring has no second cycle: the walk from the head meets every task   *)
(* that is linked.                                                         *)
(***************************************************************************)
RingWhole == {Order[i] : i \in DOMAIN Order} = Linked
=============================================================================
