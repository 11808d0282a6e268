----------------------------- MODULE TaskQueue -----------------------------
(***************************************************************************)
(* The task queue of libep (src/src/ep_task_queue.h) on the intrusive      *)
(* doubly linked list it is built from (src/src/list.h), at the level of   *)
(* the next and prev pointers.  The loop runs two of these queues: the     *)
(* nexttick queue with ep_task_queue_run and the everytick queue with      *)
(* ep_task_queue_run_keep.                                                 *)
(*                                                                         *)
(* A task's callback runs in the middle of those loops and may call        *)
(* ep_task_queue_push and ep_task_cancel itself, so a pass is not one step *)
(* but several: the loop's cursor (pos and, in ep_task_queue_run, the      *)
(* saved successor n) is part of the state, and between the call of a      *)
(* callback and its return any number of pushes and cancels may happen.    *)
(*                                                                         *)
(* A Task is the address of an ep_callback_t.  malloc may hand out any     *)
(* address that is not allocated, a freed one included; when it returns    *)
(* NULL the push changes nothing.                                          *)
(***************************************************************************)
EXTENDS Naturals, FiniteSets

CONSTANTS
  Task,         \* the addresses malloc can return for a task
  ListHead,     \* the list head inside ep_task_queue_t
  NULL,         \* the null pointer
  SafeCancels   \* TRUE: callbacks obey MayCancel below; FALSE: they cancel any queued task

ASSUME TaskAssumption ==
  /\ ListHead \notin Task
  /\ NULL \notin Task \cup {ListHead}
  /\ SafeCancels \in BOOLEAN

VARIABLES
  next,    \* next[x], prev[x]: the list_head fields of the head and of every task
  prev,
  alloc,   \* the tasks allocated and not yet freed
  mode,    \* the pass in progress: "run", "keep", "once", or "idle"
  inCb,    \* a callback has been called and has not returned
  pos,     \* the cursor of the pass
  n        \* the successor list_for_each_safe has saved ("run" only)

list == <<next, prev>>
cursor == <<mode, inCb, pos, n>>
vars == <<next, prev, alloc, mode, inCb, pos, n>>

Node == Task \cup {ListHead}
Mode == {"idle", "run", "keep", "once"}

(* The tasks that are on the list: list_del leaves NULL in next and prev.  *)
Linked == {t \in Task : next[t] # NULL}

-----------------------------------------------------------------------------
(* list.h                                                                  *)

(* Faults, here and below, are what the mutation runs put in the place of  *)
(* the definition that follows.  Fault: the new task is put in front.      *)
ListAddHead(t) ==
  /\ next' = [next EXCEPT ![ListHead] = t, ![t] = next[ListHead]]
  /\ prev' = [prev EXCEPT ![next[ListHead]] = t, ![t] = ListHead]

(* Fault: the head keeps its old prev.                                     *)
ListAddTailLosing(t) ==
  /\ next' = [next EXCEPT ![prev[ListHead]] = t, ![t] = ListHead]
  /\ prev' = [prev EXCEPT ![t] = prev[ListHead]]

ListAddTail(t) ==
  /\ next' = [next EXCEPT ![prev[ListHead]] = t, ![t] = ListHead]
  /\ prev' = [prev EXCEPT ![ListHead] = t, ![t] = prev[ListHead]]

(* Fault: the successor keeps its old prev.                                *)
ListDelForward(t) ==
  /\ next' = [next EXCEPT ![prev[t]] = next[t], ![t] = NULL]
  /\ prev' = [prev EXCEPT ![t] = NULL]

ListDel(t) ==
  /\ next' = [next EXCEPT ![prev[t]] = next[t], ![t] = NULL]
  /\ prev' = [prev EXCEPT ![next[t]] = prev[t], ![t] = NULL]

FollowingFirst == next[ListHead]  \* fault: the walk starts over
Following == next[pos]            \* list_for_each: pos = pos->next

StepUnsafe == pos' = next[pos] /\ n' = next[n]          \* fault: reads pos
StepSkipping == pos' = next[n] /\ n' = next[next[n]]    \* fault: skips n

(* list_for_each_safe: pos = n, n = pos->next.                             *)
SafeStep == pos' = n /\ n' = next[n]

FreeNothing(t) == UNCHANGED alloc  \* fault: leaks
Free(t) == alloc' = alloc \ {t}

-----------------------------------------------------------------------------
(* ep_task_queue.h                                                         *)

Init ==  \* ep_task_queue_init
  /\ next = [x \in Node |-> IF x = ListHead THEN ListHead ELSE NULL]
  /\ prev = [x \in Node |-> IF x = ListHead THEN ListHead ELSE NULL]
  /\ alloc = {}
  /\ mode = "idle"
  /\ inCb = FALSE
  /\ pos = ListHead
  /\ n = ListHead

(* The caller's code runs when no pass is in progress or inside a callback. *)
ClientRuns == mode = "idle" \/ inCb

Push(t) ==
  /\ ClientRuns
  /\ t \notin alloc
  /\ alloc' = alloc \cup {t}
  /\ ListAddTail(t)
  /\ UNCHANGED cursor

(***************************************************************************)
(* The contract the loops impose on a callback that cancels: not the node  *)
(* the loop reads when the callback returns, which is the saved successor  *)
(* in ep_task_queue_run and the running task in ep_task_queue_run_keep.    *)
(***************************************************************************)
MayCancel(t) ==
  SafeCancels => ~(inCb /\ \/ mode = "run" /\ t = n
                           \/ mode = "keep" /\ t = pos)

(* An id is good for ep_task_cancel while its task is on the list.         *)
Cancel(t) ==
  /\ ClientRuns
  /\ t \in Linked
  /\ MayCancel(t)
  /\ ListDel(t)
  /\ Free(t)
  /\ UNCHANGED cursor

(* list_for_each_safe and list_for_each: the initialisation of the loop.   *)
Start(m) ==
  /\ mode = "idle"
  /\ mode' = m
  /\ pos' = next[ListHead]
  /\ n' = IF m = "run" THEN next[pos'] ELSE ListHead
  /\ UNCHANGED <<list, alloc, inCb>>

StartRun == Start("run")
StartKeep == Start("keep")

(* ep_task_queue_run: the task leaves the list before its callback runs.   *)
RunCall ==
  /\ mode = "run" /\ ~inCb /\ pos # ListHead
  /\ ListDel(pos)
  /\ inCb' = TRUE
  /\ UNCHANGED <<alloc, mode, pos, n>>

(* ... and is freed after it; the loop goes on at the saved successor.     *)
RunReturn ==
  /\ mode = "run" /\ inCb
  /\ n \in alloc \cup {ListHead}      \* freed memory holds no successor
  /\ Free(pos)
  /\ inCb' = FALSE
  /\ SafeStep
  /\ UNCHANGED <<list, mode>>

(* Fault: the task is freed before its callback returns.                   *)
KeepCallFreeing ==
  /\ mode = "keep" /\ ~inCb /\ pos # ListHead
  /\ inCb' = TRUE
  /\ alloc' = alloc \ {pos}
  /\ UNCHANGED <<list, mode, pos, n>>

(* ep_task_queue_run_keep: the task stays on the list.                     *)
KeepCall ==
  /\ mode = "keep" /\ ~inCb /\ pos # ListHead
  /\ inCb' = TRUE
  /\ UNCHANGED <<list, alloc, mode, pos, n>>

KeepReturn ==
  /\ mode = "keep" /\ inCb
  /\ pos \in alloc                \* freed memory holds no successor
  /\ inCb' = FALSE
  /\ pos' = Following
  /\ UNCHANGED <<list, alloc, mode, n>>

Finish ==
  /\ mode \in {"run", "keep"} /\ ~inCb /\ pos = ListHead
  /\ mode' = "idle"
  /\ n' = ListHead
  /\ UNCHANGED <<list, alloc, inCb, pos>>

(* ep_task_queue_run_once: the first task only, and nothing when empty.    *)
OnceCall ==
  /\ mode = "idle" /\ next[ListHead] # ListHead
  /\ ListDel(next[ListHead])
  /\ mode' = "once"
  /\ inCb' = TRUE
  /\ pos' = next[ListHead]
  /\ UNCHANGED <<alloc, n>>

OnceReturn ==
  /\ mode = "once"
  /\ Free(pos)
  /\ mode' = "idle"
  /\ inCb' = FALSE
  /\ pos' = ListHead
  /\ UNCHANGED <<list, n>>

(* ep_task_queue_fini: every task on the list is unlinked and freed.       *)
Fini ==
  /\ mode = "idle"
  /\ alloc' = alloc \ Linked
  /\ next' = [x \in Node |-> IF x = ListHead THEN ListHead
                             ELSE IF x \in Linked THEN NULL ELSE next[x]]
  /\ prev' = [x \in Node |-> IF x = ListHead THEN ListHead
                             ELSE IF x \in Linked THEN NULL ELSE prev[x]]
  /\ UNCHANGED cursor

Loop ==
  \/ RunCall \/ RunReturn
  \/ KeepCall \/ KeepReturn
  \/ OnceReturn
  \/ Finish

Next ==
  \/ \E t \in Task : Push(t) \/ Cancel(t)
  \/ StartRun \/ StartKeep \/ OnceCall \/ Fini
  \/ Loop

Spec == Init /\ [][Next]_vars

(* The loops are straight-line code and the callbacks return.              *)
FairSpec == Spec /\ WF_vars(Loop)

-----------------------------------------------------------------------------
(* Properties                                                              *)

TypeOK ==
  /\ next \in [Node -> Node \cup {NULL}]
  /\ prev \in [Node -> Node \cup {NULL}]
  /\ alloc \subseteq Task
  /\ mode \in Mode
  /\ inCb \in BOOLEAN
  /\ pos \in Node
  /\ n \in Node

(***************************************************************************)
(* The list stays a doubly linked ring through any mix of pushes, cancels  *)
(* and passes: on the ring next and prev undo each other, and a task that  *)
(* list_del took off has neither pointer left.                             *)
(***************************************************************************)
Ring == Linked \cup {ListHead}

ListSound ==
  /\ \A x \in Ring : /\ next[x] \in Ring /\ prev[next[x]] = x
                     /\ prev[x] \in Ring /\ next[prev[x]] = x
  /\ \A t \in Task \ Linked : prev[t] = NULL

(***************************************************************************)
(* No task is leaked and none is freed while it is on the list: the        *)
(* allocated tasks are those on the list and, while ep_task_queue_run or   *)
(* ep_task_queue_run_once is inside a callback, the one that is running.   *)
(***************************************************************************)
Running == IF inCb /\ mode \in {"run", "once"} THEN {pos} ELSE {}

NoLeak ==
  /\ alloc = Linked \cup Running
  /\ Linked \cap Running = {}

(***************************************************************************)
(* "iterate over a list safe against removal of list entry": whatever the  *)
(* callback of a task removes, the successor ep_task_queue_run has saved   *)
(* is still allocated when list_for_each_safe goes on to it.               *)
(***************************************************************************)
SafeAgainstRemoval ==
  mode = "run" /\ inCb => n \in alloc \cup {ListHead}

(***************************************************************************)
(* When a callback returns, the loop that called it reads only memory that *)
(* is still allocated: the saved successor in ep_task_queue_run, the       *)
(* running task in ep_task_queue_run_keep.                                 *)
(***************************************************************************)
CursorAlive ==
  /\ SafeAgainstRemoval
  /\ mode = "keep" /\ inCb => pos \in alloc

(***************************************************************************)
(* Pushes and cancels made by callbacks do not derail a pass: a run pass   *)
(* always goes on at the oldest task that is still queued, and ends inside *)
(* a queue only where the task it called had no successor; a keep pass     *)
(* stands on a queued task.                                                *)
(***************************************************************************)
CursorOnRing ==
  /\ mode = "run" /\ ~inCb => pos \in {next[ListHead], ListHead} /\ n = next[pos]
  /\ mode = "run" /\ inCb => n \in {next[ListHead], ListHead}
  /\ mode = "keep" => pos \in Ring

(***************************************************************************)
(* A pass ends once its callbacks stop pushing tasks: either they push     *)
(* again and again, or every pass that starts comes to its end.            *)
(***************************************************************************)
CallbackPush == inCb /\ \E t \in Task : Push(t)

PassEnds == []<><<CallbackPush>>_vars \/ (mode # "idle" ~> mode = "idle")
=============================================================================
