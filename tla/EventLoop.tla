----------------------------- MODULE EventLoop -----------------------------
(***************************************************************************)
(* The event loop of libep (src/src/ep.h): two task queues, the timers and *)
(* the poll engine, and the order in which ep_iterate and ep_for_each go   *)
(* through them.  One thread runs everything: the client's own code,       *)
(* between two calls of the loop (pc = "user") or in the body of           *)
(* ep_for_each ("body"), and the callbacks, in the middle of a pass.  The  *)
(* world goes on beside it: time passes and things happen at descriptors.  *)
(*                                                                         *)
(* Callbacks do not call the loop themselves.  The time of day goes        *)
(* forward here; Timer lets it jump.                                       *)
(***************************************************************************)
EXTENDS Integers, Sequences, FiniteSets

CONSTANTS
  NextTask, EveryTask, Timer, Fd,  \* the ids each part hands out
  NULL,
  U64, U32,  \* see Timer
  Delay,     \* the delays and periods of timers
  Hint,      \* the waittime given to the loop, -1 for no limit
  Limit,     \* the limit of timer callbacks in one round: 128 in the code
  sz,        \* the size of the poll buffer
  MaxClock   \* bound: where time stops

Forever == -1
Clock == 0 .. MaxClock
Condition == {"IN"}

ASSUME EventLoopAssumption ==
  /\ NULL \notin NextTask \cup EveryTask \cup Timer
  /\ NULL \notin [fd : Fd, data : Fd, events : SUBSET {"READABLE"}]
  /\ U64 \in Nat /\ U32 \in Nat /\ U32 > 1 /\ U64 % U32 = 0
  /\ MaxClock \in Nat /\ MaxClock < U64 /\ Delay \subseteq 0 .. U64 - 1
  /\ Hint \subseteq Int /\ Limit \in Int /\ sz \in Nat \ {0}

VARIABLES
  nqueue, npass, ncur, nnxt,                       \* the nexttick queue
  equeue, epass, ecur, enxt,                       \* the everytick queue
  sl, score, cur, rest, tpc, left, alloc, ms, now, \* the timers
  open, interest, io, ee, ready, got,              \* the poll engine
  pc,     \* where the loop is
  style,  \* the call in progress: "iterate" or "for_each"
  hint,   \* its waittime argument
  until,  \* when the wait in progress times out
  clock   \* the time of day

nexttick  == <<nqueue, npass, ncur, nnxt>>
everytick == <<equeue, epass, ecur, enxt>>
timers    == <<sl, score, cur, rest, tpc, left, alloc, ms, now>>
poll      == <<open, interest, io, ee, ready, got>>
control   == <<pc, style, hint, until>>
vars == <<nexttick, everytick, timers, poll, control, clock>>

NT == INSTANCE FifoTasks WITH Task <- NextTask, NoTask <- NULL,
        queue <- nqueue, pass <- npass, cur <- ncur, nxt <- nnxt
ET == INSTANCE FifoTasks WITH Task <- EveryTask, NoTask <- NULL,
        queue <- equeue, pass <- epass, cur <- ecur, nxt <- enxt
T == INSTANCE Timer WITH pc <- tpc, MaxTimes <- {Limit}
P == INSTANCE Epoll WITH Data <- Fd, Event <- {"READABLE"}, NoEvent <- NULL

Init ==  \* ep_init
  /\ NT!Init /\ ET!Init /\ T!Init /\ P!Init
  /\ pc = "user"
  /\ style = "iterate"
  /\ hint = 0
  /\ until = 0
  /\ clock = 0

-----------------------------------------------------------------------------
(* The client: its own code and its callbacks.                             *)

InCallback == ncur # NULL \/ ecur # NULL \/ tpc = "call"
ClientRuns == pc \in {"user", "body"} \/ InCallback

NextTick(t) ==  \* ep_nexttick, and ep_cleartask on its id
  /\ ClientRuns
  /\ NT!Push(t) \/ NT!Cancel(t)
  /\ UNCHANGED <<everytick, timers, poll, control, clock>>

EveryTick(t) ==  \* ep_everytick, and ep_cleartask on its id
  /\ ClientRuns
  /\ ET!Push(t) \/ ET!Cancel(t)
  /\ UNCHANGED <<nexttick, timers, poll, control, clock>>

SetTimer(t, d) ==  \* ep_settimeout and ep_setinterval
  /\ ClientRuns
  /\ T!SetTimeout(t, d, clock) \/ T!SetInterval(t, d, clock)
  /\ UNCHANGED <<nexttick, everytick, poll, control, clock>>

ClearTimer(t) ==  \* ep_cleartimeout and ep_clearinterval
  /\ ClientRuns
  /\ T!Clear(t)
  /\ UNCHANGED <<nexttick, everytick, poll, control, clock>>

(* ep_add, ep_mod and ep_del, opening and closing, reading to the end.     *)
Descriptor(fd) ==
  /\ ClientRuns
  /\ \/ P!Open(fd) \/ P!Add(fd, {"READABLE"}, fd)
     \/ \E events \in {{}, {"READABLE"}} : P!Mod(fd, events, fd)
     \/ P!Del(fd) \/ P!Close(fd)
     \/ io[fd] # {} /\ P!Happens(fd, {})
  /\ UNCHANGED <<nexttick, everytick, timers, control, clock>>

-----------------------------------------------------------------------------
(* One round of the loop.                                                  *)

Enter(s, h) ==
  /\ NT!StartRun
  /\ pc' = "nexttick"
  /\ style' = s
  /\ hint' = h
  /\ UNCHANGED <<everytick, timers, until, clock>>

(* Fault: a round is done whether events are left or not.                  *)
IterateRound(h) ==
  /\ pc = "user"
  /\ Enter("iterate", h)
  /\ UNCHANGED poll

(* ep_iterate hands out an event the last wait has left, if there is one,  *)
(* and does a round otherwise.                                             *)
Iterate(h) ==
  /\ pc = "user"
  /\ P!Fetch
  /\ \/ ready > 0 /\ UNCHANGED <<nexttick, everytick, timers, control, clock>>
     \/ ready <= 0 /\ Enter("iterate", h)

(* ep_for_each does a round first, events left or not.                     *)
ForEach(h) ==
  /\ pc = "user"
  /\ Enter("for_each", h)
  /\ UNCHANGED poll

RunTask ==
  /\ pc = "nexttick"
  /\ NT!RunCall \/ NT!RunReturn
  /\ UNCHANGED <<everytick, timers, poll, control, clock>>

NextTickDone ==
  /\ pc = "nexttick"
  /\ NT!Finish
  /\ ET!StartKeep
  /\ pc' = "everytick"
  /\ UNCHANGED <<timers, poll, style, hint, until, clock>>

KeepTask ==
  /\ pc = "everytick"
  /\ ET!KeepCall \/ ET!KeepReturn
  /\ UNCHANGED <<nexttick, timers, poll, control, clock>>

(* Fault: the timers do not wait for the everytick pass to end.            *)
EveryTickHasty ==
  /\ pc = "everytick"
  /\ T!ExecuteNow(clock, Limit)
  /\ pc' = "timers"
  /\ UNCHANGED <<nexttick, everytick, poll, style, hint, until, clock>>

EveryTickDone ==
  /\ pc = "everytick"
  /\ ET!Finish
  /\ T!ExecuteNow(clock, Limit)
  /\ pc' = "timers"
  /\ UNCHANGED <<nexttick, poll, style, hint, until, clock>>

RunTimer ==
  /\ pc = "timers"
  /\ T!Return \/ T!Advance
  /\ UNCHANGED <<nexttick, everytick, poll, control, clock>>

(* Fault: the distance is taken from the last reading of the clock.        *)
WaitTimeStale ==
  LET w == T!NearestDiff(now)
  IN  IF w < 0 THEN hint ELSE IF hint < 0 \/ w < hint THEN w ELSE hint

(* Fault: without timers the hint is ignored.                              *)
WaitTimeTimersOnly ==
  LET w == T!NearestDiff(clock)
  IN  IF w < 0 THEN w ELSE IF hint < 0 \/ w < hint THEN w ELSE hint

(* Fault: no limit is less than any wait.                                  *)
WaitTimeSigned ==
  LET w == T!NearestDiff(clock)
  IN  IF w < 0 THEN hint ELSE IF w < hint THEN w ELSE hint

(* ep__waittime: the nearest timer or the hint, whichever comes first.     *)
WaitTime ==
  LET w == T!NearestDiff(clock)
  IN  IF w < 0 THEN hint ELSE IF hint < 0 \/ w < hint THEN w ELSE hint

Sleep ==
  /\ pc = "timers" /\ tpc = "idle"
  /\ T!UpdateTime(clock)
  /\ until' = IF WaitTime < 0 THEN Forever ELSE clock + WaitTime
  /\ pc' = "wait"
  /\ UNCHANGED <<nexttick, everytick, poll, style, hint, clock>>

Wake(p) ==
  /\ pc = "wait"
  /\ pc' = p
  /\ UNCHANGED <<nexttick, everytick, timers, style, hint, until, clock>>

WakeEvents ==
  /\ P!Triggered # {}
  /\ \E s \in P!Batches : P!Wait(s)
  /\ Wake("fetch")

(* Where the model's time stops, every wait that has a timeout times out.  *)
TimedOut == until # Forever /\ (clock >= until \/ clock = MaxClock)

WakeTimeout ==
  /\ P!Triggered = {} /\ TimedOut
  /\ P!Wait(<<>>)
  /\ Wake(IF style = "iterate" THEN "user" ELSE "fetch")

(* epoll_wait reports a signal only when it has no events to report.       *)
WakeSignal ==
  /\ P!Triggered = {}
  /\ P!WaitFails
  /\ Wake(IF style = "iterate" THEN "user" ELSE "fetch")

(* Fault: ep_for_each ends after one event.                                *)
FetchOnce ==
  /\ pc \in {"fetch", "body"}
  /\ P!Fetch
  /\ pc' = "user"
  /\ UNCHANGED <<nexttick, everytick, timers, style, hint, until, clock>>

(* The fetch behind the wait of ep_iterate, or the condition of the loop   *)
(* that ep_for_each is.                                                    *)
Fetch ==
  /\ pc \in {"fetch", "body"}
  /\ P!Fetch
  /\ pc' = IF style = "for_each" /\ ready > 0 THEN "body" ELSE "user"
  /\ UNCHANGED <<nexttick, everytick, timers, style, hint, until, clock>>

(* The body of ep_for_each breaks out of the loop.                         *)
Break ==
  /\ pc = "body"
  /\ pc' = "user"
  /\ UNCHANGED <<nexttick, everytick, timers, poll, style, hint, until, clock>>

Renew ==  \* ep_fini, and ep_init again
  /\ pc = "user"
  /\ NT!Fini /\ ET!Fini /\ T!Fini /\ P!Renew
  /\ UNCHANGED <<control, clock>>

-----------------------------------------------------------------------------
(* The world.                                                              *)

Tick ==
  /\ clock < MaxClock
  /\ clock' = clock + 1
  /\ UNCHANGED <<nexttick, everytick, timers, poll, control>>

Arrives(fd) ==
  /\ io[fd] = {}
  /\ P!Happens(fd, {"IN"})
  /\ UNCHANGED <<nexttick, everytick, timers, control, clock>>

Client ==
  \/ \E t \in NextTask : NextTick(t)
  \/ \E t \in EveryTask : EveryTick(t)
  \/ \E t \in Timer, d \in Delay : SetTimer(t, d)
  \/ \E t \in Timer : ClearTimer(t)
  \/ \E fd \in Fd : Descriptor(fd)
  \/ \E h \in Hint : Iterate(h) \/ ForEach(h)
  \/ Break \/ Renew

Loop ==
  \/ RunTask \/ NextTickDone
  \/ KeepTask \/ EveryTickDone
  \/ RunTimer \/ Sleep
  \/ WakeEvents \/ WakeTimeout
  \/ Fetch

Next == Client \/ Loop \/ WakeSignal \/ Tick \/ \E fd \in Fd : Arrives(fd)

Spec == Init /\ [][Next]_vars

(***************************************************************************)
(* The loop is straight-line code and its callbacks return, time goes on,  *)
(* and the client comes back to the loop.                                  *)
(***************************************************************************)
FairSpec ==
  /\ Spec
  /\ WF_vars(Loop)
  /\ WF_vars(Tick)
  /\ WF_vars(\E h \in Hint : Iterate(h) \/ ForEach(h))

-----------------------------------------------------------------------------
(* Properties                                                              *)

(* The types, and that each part is at work only when it is its turn.      *)
TypeOK ==
  /\ T!TypeOK /\ P!TypeOK
  /\ pc \in {"user", "nexttick", "everytick", "timers", "wait", "fetch", "body"}
  /\ npass = IF pc = "nexttick" THEN "run" ELSE "idle"
  /\ epass = IF pc = "everytick" THEN "keep" ELSE "idle"
  /\ tpc # "idle" => pc = "timers"

(***************************************************************************)
(* The loop never sleeps through a timer: its wait ends when the nearest   *)
(* timer is due, or at once if it is due already, and no later than the    *)
(* hint allows.  The exception is a timer 2^31 ms or more away, whose      *)
(* distance ep_timer_nearest_diff cannot return as an int.                 *)
(***************************************************************************)
SleepsInTime ==
  pc = "wait" =>
    /\ sl # <<>> /\ score[sl[1]] < now + U32 \div 2
         => until \in 0 .. (IF score[sl[1]] > now THEN score[sl[1]] ELSE now)
    /\ hint >= 0 => until \in 0 .. now + hint

(***************************************************************************)
(* Events that a wait has brought are not lost: they leave the buffer only *)
(* by being handed to the client, and nothing overwrites them, not even    *)
(* with as many others, unless the client left an ep_for_each early and    *)
(* starts another one, or gives the whole loop up.                         *)
(***************************************************************************)
EventsKept ==
  [][ready > 0 /\ (ready' # ready \/ ee' # ee)
       => \/ ready' = ready - 1 /\ ee' = ee /\ got' # NULL /\ got'.fd = ee[ready].fd
          \/ pc = "wait" /\ style = "for_each"
          \/ interest' = P!Nothing]_vars

(* Callbacks that post: with these again and again, a pass need not end.   *)
Posts == InCallback /\ (nqueue' # nqueue \/ equeue' # equeue)
EveryPosts == ecur # NULL /\ equeue' # equeue

(***************************************************************************)
(* A task given to ep_nexttick is called, or cancelled, unless the loop is *)
(* left to wait without limit again and again (it does not look at the     *)
(* queue before it sleeps) or everytick callbacks post for ever.           *)
(***************************************************************************)
NextTickServed ==
  []<>(pc = "wait" /\ hint < 0) \/ []<><<EveryPosts>>_vars
  \/ \A t \in NextTask : t \in NT!Queued ~> t \notin NT!Queued

(***************************************************************************)
(* A timer is called, or cleared, once its time has come: also by a loop   *)
(* that is told to wait without limit, and also if it is an interval that  *)
(* was called before or is already cut off the list, as long as no more    *)
(* than Limit are due at once and callbacks do not post for ever.          *)
(***************************************************************************)
TimerServed ==
  []<><<Posts>>_vars
  \/ \A t \in Timer : t \in alloc /\ score[t] <= MaxClock ~> t = cur \/ t \notin alloc

(***************************************************************************)
(* A descriptor at which something is the case is handed to the client, or *)
(* read or deleted by it, if callbacks do not post for ever and the client *)
(* does not break out of ep_for_each for ever.                             *)
(***************************************************************************)
EventServed ==
  []<><<Posts>>_vars \/ []<><<Break>>_vars
  \/ \A fd \in Fd : fd \in P!Triggered
                      ~> fd \notin P!Triggered \/ (got # NULL /\ got.fd = fd)
=============================================================================
