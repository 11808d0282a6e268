---------------------------- MODULE TimerHistory ----------------------------
(***************************************************************************)
(* Timer with what its properties remember of the past.                    *)
(***************************************************************************)
EXTENDS Timer

VARIABLES
  due,      \* when each timer is really due: not wrapped, but U64 if that does not fit
  asked,    \* the time the walk in progress was given
  owed,     \* the timers due at that time that it has yet to call
  calls,    \* how often the walk has called each timer (2: more than once)
  overrun   \* a walk was given more due timers than its limit allows

ghosts == <<due, asked, owed, calls, overrun>>

HInit ==
  /\ Init
  /\ due = [t \in Timer |-> 0]
  /\ asked = 0
  /\ owed = {}
  /\ calls = [t \in Timer |-> 0]
  /\ overrun = FALSE

Exact(k) == IF k < U64 THEN k ELSE U64

(* A client's step, and when the timer it sets is due.                     *)
Client ==
  \/ \E t \in Timer, d \in Delay :
       /\ RunAfter(t, d) \/ RunEvery(t, d)
       /\ due' = [due EXCEPT ![t] = Exact(now + d)]
  \/ \E t \in Timer, d \in Delay, c \in Clock :
       /\ SetTimeout(t, d, c) \/ SetInterval(t, d, c)
       /\ due' = [due EXCEPT ![t] = Exact(c + d)]
  \/ (\/ \E c \in Clock : UpdateTime(c)
      \/ \E t \in Timer : Clear(t)
      \/ Fini) /\ UNCHANGED due

Begin(k, max) ==
  /\ asked' = k
  /\ owed' = {t \in Listed : score[t] <= k} \ {cur'}
  /\ calls' = [t \in Timer |-> IF t = cur' THEN 1 ELSE 0]
  /\ overrun' = (overrun \/ (rest' # <<>> /\ max \in 0 .. Len(rest')))
  /\ UNCHANGED due

HNext ==
  \/ Client /\ owed' = owed \cap alloc' /\ UNCHANGED <<asked, calls, overrun>>
  \/ \E d \in Delay, max \in MaxTimes :
       ExecuteAt(Add(now, d), max) /\ Begin(Add(now, d), max)
  \/ \E c \in Clock, max \in MaxTimes : ExecuteNow(c, max) /\ Begin(c, max)
  \/ /\ Return
     /\ due' = [due EXCEPT ![cur] = Exact(@ + ms[cur])]
     /\ UNCHANGED <<asked, owed, calls, overrun>>
  \/ /\ Advance
     /\ owed' = owed \ {cur'}
     /\ calls' = [t \in Timer |->
          IF t = cur' THEN IF calls[t] = 0 THEN 1 ELSE 2
          ELSE IF cur' = NULL THEN 0 ELSE calls[t]]
     /\ UNCHANGED <<due, asked, overrun>>

HSpec == HInit /\ [][HNext]_<<vars, ghosts>>
HFairSpec == HSpec /\ WF_vars(Loop)

(***************************************************************************)
(* No timer runs before the time it was set for, with one exception: a     *)
(* time that does not fit into a uint64_t has wrapped round.               *)
(***************************************************************************)
NeverEarly == pc = "call" => due[cur] <= asked \/ due[cur] = U64

(***************************************************************************)
(* One walk calls a timer at most once, an interval that is several        *)
(* periods behind included.                                                *)
(***************************************************************************)
OnceEach == \A t \in Timer : calls[t] <= 1

(***************************************************************************)
(* A walk that was not given more due timers than its limit calls all of   *)
(* them, except those its callbacks cleared.                               *)
(***************************************************************************)
DueServed == pc = "idle" /\ ~overrun => owed = {}

(***************************************************************************)
(* A timer that is allocated can still run, unless some walk ran into its  *)
(* limit: only then are timers lost that nobody cleared.                   *)
(***************************************************************************)
LostOnlyByOverrun == alloc \subseteq Listed \cup InWalk \/ overrun
=============================================================================
