------------------------------- MODULE Timer -------------------------------
(***************************************************************************)
(* The timers of libep (src/src/ep_timer.h) on the ordered list that       *)
(* skiplist.h implements.                                                  *)
(*                                                                         *)
(* ep_timer_execute cuts all due timers off the list at once and then      *)
(* walks them; each callback may set and clear timers before the walk goes *)
(* on, so the walk is part of the state: cur is the timer it is at, rest   *)
(* the ones behind it, left what remains of max_times.                     *)
(*                                                                         *)
(* A Timer is the address of an ep_timer_node_t.  The time of day is an    *)
(* argument: gettimeofday may go back as well as forward.  Scores are      *)
(* uint64_t and nearest_diff returns an int, with U64 and U32 standing for *)
(* 2^64 and 2^32.                                                          *)
(***************************************************************************)
EXTENDS Integers, Sequences

CONSTANTS
  Timer,    \* the addresses malloc can return for a timer
  NULL,     \* the null pointer
  U64,      \* how many values a uint64_t has
  U32,      \* how many values an int has
  Clock,    \* the times of day
  Delay,    \* the delays and periods that clients ask for
  MaxTimes  \* the limits they give to ep_timer_execute

ASSUME TimerAssumption ==
  /\ NULL \notin Timer
  /\ U64 \in Nat /\ U32 \in Nat /\ U32 > 1 /\ U64 % U32 = 0 /\ U64 > 0
  /\ Clock \subseteq 0 .. U64 - 1 /\ Delay \subseteq 0 .. U64 - 1
  /\ MaxTimes \subseteq Int

VARIABLES
  sl,      \* the timers on the skiplist, the nearest first
  score,   \* when each timer is due
  cur,     \* the timer the walk of ep_timer_execute is at
  rest,    \* the due timers it has yet to reach
  pc,      \* "call": in the callback of cur; "next": behind it; or "idle"
  left,    \* what remains of max_times
  alloc,   \* the timers allocated and not yet freed
  ms,      \* the period of each timer, 0 for one that runs once
  now      \* the time ep_timer_updatetime has read last

lst == <<sl, score, cur, rest>>
walk == <<pc, left>>
vars == <<sl, score, cur, rest, pc, left, alloc, ms, now>>

SL == INSTANCE OrderedList WITH
        Node <- Timer, Score <- 0 .. U64 - 1, items <- sl, node <- cur

Listed == SL!Listed
InWalk == ({cur} \ {NULL}) \cup SL!Extracted

(* uint64_t addition, and the conversion of a uint64_t to int.             *)
Add(a, b) == (a + b) % U64
ToInt(a) == LET r == a % U32 IN IF r >= U32 \div 2 THEN r - U32 ELSE r

-----------------------------------------------------------------------------
(* ep_timer_init leaves now as the memory was.                             *)
Init ==
  /\ SL!Init
  /\ pc = "idle"
  /\ left = 0
  /\ alloc = {}
  /\ ms = [t \in Timer |-> 0]
  /\ now \in Clock

(* The caller's code runs outside ep_timer_execute or in a callback.       *)
ClientRuns == pc \in {"idle", "call"}

UpdateTime(c) ==
  /\ ClientRuns
  /\ now' = c
  /\ UNCHANGED <<sl, score, cur, rest, walk, alloc, ms>>

(* The node of run_after (p = 0) and run_every (p = d), d after time c.    *)
Create(t, d, p, c) ==
  /\ ClientRuns
  /\ t \notin alloc
  /\ alloc' = alloc \cup {t}
  /\ ms' = [ms EXCEPT ![t] = p]
  /\ SL!Insert(t, Add(c, d))
  /\ UNCHANGED walk

RunAfter(t, d) == Create(t, d, 0, now) /\ UNCHANGED now
RunEvery(t, d) == Create(t, d, d, now) /\ UNCHANGED now

(* Fault: the time is read too late.                                       *)
SetTimeoutStale(t, d, c) == Create(t, d, 0, now) /\ now' = c

SetTimeout(t, d, c) == Create(t, d, 0, c) /\ now' = c

SetInterval(t, d, c) == Create(t, d, d, c) /\ now' = c

(***************************************************************************)
(* ep_timer_clear, cleartimeout and clearinterval.  What ep_timer_execute  *)
(* imposes on a callback that clears: not the timer that is running, which *)
(* it reads again and frees or reinserts, and not one that it has cut off  *)
(* the list, which skiplist_delete does not find.                          *)
(***************************************************************************)
MayClear(t) == t \notin InWalk

Clear(t) ==
  /\ ClientRuns
  /\ t \in alloc
  /\ MayClear(t)
  /\ IF t \in Listed THEN SL!Delete(t) ELSE UNCHANGED lst
  /\ alloc' = alloc \ {t}
  /\ UNCHANGED <<walk, ms, now>>

(* ep_timer_execute up to the first callback: all timers due at k.         *)
Execute(k, max) ==
  /\ pc = "idle"
  /\ SL!ExtractLte(k)
  /\ pc' = IF cur' = NULL THEN "idle" ELSE "call"
  /\ left' = IF cur' = NULL THEN left ELSE max
  /\ UNCHANGED <<alloc, ms>>

ExecuteAt(k, max) == Execute(k, max) /\ UNCHANGED now
ExecuteNow(c, max) == Execute(c, max) /\ now' = c

(* Faults: the interval goes to the front, or joins the walk; is freed.    *)
ReinsertInFront ==
  /\ sl' = <<cur>> \o sl
  /\ score' = [score EXCEPT ![cur] = Add(@, ms[cur])]
  /\ UNCHANGED <<cur, rest, alloc>>
ReinsertInWalk == rest' = Append(rest, cur) /\ UNCHANGED <<sl, score, cur, alloc>>
ReinsertFreed == SL!Insert(cur, Add(score[cur], ms[cur])) /\ alloc' = alloc \ {cur}

Reinsert == SL!Insert(cur, Add(score[cur], ms[cur])) /\ UNCHANGED alloc

DestroyNothing == UNCHANGED <<lst, alloc>>  \* fault: leaks
Destroy == alloc' = alloc \ {cur} /\ UNCHANGED lst

(* After a callback: an interval goes back on the list, a timeout is freed. *)
Return ==
  /\ pc = "call"
  /\ pc' = "next"
  /\ IF ms[cur] > 0 THEN Reinsert ELSE Destroy
  /\ UNCHANGED <<left, ms, now>>

SpentEarly == left \in {0, 1, 2}  \* fault: one callback too few

(* max_times >= 0 && --max_times <= 0: the walk breaks off after this one.  *)
Spent == left \in {0, 1}

Advance ==
  /\ pc = "next"
  /\ left' = IF left >= 0 THEN left - 1 ELSE left
  /\ IF Spent THEN SL!Abandon ELSE SL!NextExtracted
  /\ pc' = IF cur' = NULL THEN "idle" ELSE "call"
  /\ UNCHANGED <<alloc, ms, now>>

(* ep_timer_fini frees what is on the list.                                *)
Fini ==
  /\ pc = "idle"
  /\ SL!Clear
  /\ alloc' = alloc \ Listed
  /\ UNCHANGED <<walk, ms, now>>

(* ep_timer_nearest_diff with c for now: -1 stands for no timer.           *)
NearestDiff(c) ==
  ToInt(IF sl = <<>> THEN U64 - 1
        ELSE IF score[sl[1]] > c THEN score[sl[1]] - c ELSE 0)

Loop == Return \/ Advance

Next ==
  \/ \E c \in Clock : UpdateTime(c)
  \/ \E t \in Timer, d \in Delay : RunAfter(t, d) \/ RunEvery(t, d)
  \/ \E t \in Timer, d \in Delay, c \in Clock : SetTimeout(t, d, c) \/ SetInterval(t, d, c)
  \/ \E t \in Timer : Clear(t)
  \/ \E d \in Delay, max \in MaxTimes : ExecuteAt(Add(now, d), max)
  \/ \E c \in Clock, max \in MaxTimes : ExecuteNow(c, max)
  \/ Fini
  \/ Loop

Spec == Init /\ [][Next]_vars

(* ep_timer_execute is straight-line code and the callbacks return.        *)
FairSpec == Spec /\ WF_vars(Loop)

-----------------------------------------------------------------------------
(* Properties                                                              *)

TypeOK ==
  /\ sl \in Seq(Timer) /\ rest \in Seq(Timer)
  /\ score \in [Timer -> 0 .. U64 - 1]
  /\ cur \in Timer \cup {NULL}
  /\ pc \in {"idle", "call", "next"}
  /\ left \in Int
  /\ alloc \subseteq Timer
  /\ ms \in [Timer -> Delay \cup {0}]
  /\ now \in Clock

(***************************************************************************)
(* Timers are kept, and called, in the order in which they are due, though *)
(* intervals change their scores and callbacks set timers in the middle of *)
(* a walk.                                                                 *)
(***************************************************************************)
InOrder(s) == \A i, j \in DOMAIN s : i < j => score[s[i]] <= score[s[j]]

Sorted ==
  /\ InOrder(sl)
  /\ InOrder(rest)
  /\ pc = "call" => InOrder(<<cur>> \o rest)

(* No timer twice.                                                         *)
Once(s) == \A i, j \in DOMAIN s : s[i] = s[j] => i = j

(***************************************************************************)
(* Every timer the list or the walk leads to is allocated, and leads there *)
(* once: none is on the list twice, or both on the list and in the walk.   *)
(* The running one is on neither until it is reinserted.                   *)
(***************************************************************************)
BatchAlive ==
  /\ Listed \cup SL!Extracted \subseteq alloc
  /\ pc = "call" => cur \in alloc \ (Listed \cup SL!Extracted)
  /\ Listed \cap SL!Extracted = {}
  /\ Once(sl) /\ Once(rest)

(***************************************************************************)
(* Every walk comes to its end, whatever its callbacks do: timers set or   *)
(* reinserted during the walk, even those due at once, wait for the next.  *)
(***************************************************************************)
WalkEnds == pc # "idle" ~> pc = "idle"
=============================================================================
