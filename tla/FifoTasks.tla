----------------------------- MODULE FifoTasks -----------------------------
(***************************************************************************)
(* What a task queue of libep promises, without its pointers: tasks are    *)
(* called first in first out; ep_task_queue_run takes each task off the    *)
(* queue before it calls it, ep_task_queue_run_keep leaves it there; a     *)
(* pass goes on at the task that followed the called one.                  *)
(*                                                                         *)
(* TaskQueue implements this module; EventLoop is composed of two copies.  *)
(***************************************************************************)
EXTENDS Naturals, Sequences

SE == INSTANCE SequencesExt

CONSTANTS
  Task,    \* the task ids
  NoTask   \* no task, not one of them

VARIABLES
  queue,   \* the tasks on the queue, the oldest first
  pass,    \* the pass in progress: "run", "keep", "once", or "idle"
  cur,     \* the task whose callback is running
  nxt      \* the task the pass goes on with

vars == <<queue, pass, cur, nxt>>

Init ==
  /\ queue = <<>>
  /\ pass = "idle"
  /\ cur = NoTask
  /\ nxt = NoTask

Queued == {queue[i] : i \in DOMAIN queue}

First(q) == IF q = <<>> THEN NoTask ELSE Head(q)

(* The task after t on the queue.                                          *)
After(t) ==
  LET later == {i \in DOMAIN queue : i > 1 /\ queue[i - 1] = t}
  IN  IF later = {} THEN NoTask ELSE queue[CHOOSE i \in later : TRUE]

ClientRuns == pass = "idle" \/ cur # NoTask

Push(t) ==
  /\ ClientRuns
  /\ t \notin Queued \cup {cur}
  /\ queue' = Append(queue, t)
  /\ UNCHANGED <<pass, cur, nxt>>

Cancel(t) ==
  /\ ClientRuns
  /\ t \in Queued \ {cur, nxt}
  /\ \E i \in DOMAIN queue : queue[i] = t /\ queue' = SE!RemoveAt(queue, i)
  /\ UNCHANGED <<pass, cur, nxt>>

Start(p) ==
  /\ pass = "idle"
  /\ pass' = p
  /\ nxt' = First(queue)
  /\ UNCHANGED <<queue, cur>>

StartRun == Start("run")
StartKeep == Start("keep")

RunCall ==
  /\ pass = "run" /\ cur = NoTask /\ nxt # NoTask
  /\ queue' = Tail(queue)
  /\ cur' = nxt
  /\ nxt' = First(queue')
  /\ UNCHANGED pass

RunReturn ==
  /\ pass = "run" /\ cur # NoTask
  /\ cur' = NoTask
  /\ UNCHANGED <<queue, pass, nxt>>

KeepCall ==
  /\ pass = "keep" /\ cur = NoTask /\ nxt # NoTask
  /\ cur' = nxt
  /\ nxt' = NoTask
  /\ UNCHANGED <<queue, pass>>

KeepReturn ==
  /\ pass = "keep" /\ cur # NoTask
  /\ cur' = NoTask
  /\ nxt' = After(cur)
  /\ UNCHANGED <<queue, pass>>

Finish ==
  /\ pass \in {"run", "keep"} /\ cur = NoTask /\ nxt = NoTask
  /\ pass' = "idle"
  /\ UNCHANGED <<queue, cur, nxt>>

OnceCall ==
  /\ pass = "idle" /\ queue # <<>>
  /\ pass' = "once"
  /\ cur' = Head(queue)
  /\ queue' = Tail(queue)
  /\ UNCHANGED nxt

OnceReturn ==
  /\ pass = "once"
  /\ pass' = "idle"
  /\ cur' = NoTask
  /\ UNCHANGED <<queue, nxt>>

Fini ==
  /\ pass = "idle"
  /\ queue' = <<>>
  /\ UNCHANGED <<pass, cur, nxt>>

Loop ==
  \/ RunCall \/ RunReturn
  \/ KeepCall \/ KeepReturn
  \/ OnceReturn
  \/ Finish

Next ==
  \/ \E t \in Task : Push(t) \/ Cancel(t)
  \/ StartRun \/ StartKeep \/ OnceCall \/ Fini
  \/ Loop

Spec == Init /\ [][Next]_vars
=============================================================================
