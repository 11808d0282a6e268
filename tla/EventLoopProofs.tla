-------------------------- MODULE EventLoopProofs --------------------------
(***************************************************************************)
(* Proofs about EventLoop, for any tasks, timers, descriptors, waittimes,  *)
(* buffer and clock: a round drives each of its parts only as that part    *)
(* allows, so that what is proved of the timers by themselves holds in the *)
(* loop; it does not oversleep; and it loses no events.                    *)
(***************************************************************************)
EXTENDS EventLoop, TLAPS

(* T with what is proved of it.  T and TP are instances of one module, but *)
(* the provers know their operators by two names: hence the lemmas Same... *)
TP == INSTANCE TimerProofs WITH pc <- tpc, MaxTimes <- {Limit}

(* The loop gives the timers constants they can work with.                 *)
LEMMA TimersAssumed == TP!TimerAssumption
BY EventLoopAssumption DEF TP!TimerAssumption, Clock

(* The loop starts with timers that have their invariant.                  *)
LEMMA TimersFirst == T!Init => TP!IInv
BY TimersAssumed, TP!InitIInv DEF T!Init, TP!Init, T!SL!Init, TP!SL!Init

(* The list operations of the two instances ...                            *)
LEMMA SameInsert ==
  ASSUME NEW t, NEW k
  PROVE T!SL!Insert(t, k) <=> TP!SL!Insert(t, k)
BY DEF T!SL!Insert, TP!SL!Insert, T!SL!Upto, TP!SL!Upto, T!SL!Listed, TP!SL!Listed,
   T!SL!Extracted, TP!SL!Extracted, T!SL!InsertAt, TP!SL!InsertAt

LEMMA SameDelete ==
  ASSUME NEW t
  PROVE T!SL!Delete(t) <=> TP!SL!Delete(t)
BY DEF T!SL!Delete, TP!SL!Delete, T!SL!Listed, TP!SL!Listed,
   T!SL!RemoveAt, TP!SL!RemoveAt

LEMMA SameExtract ==
  ASSUME NEW k
  PROVE T!SL!ExtractLte(k) <=> TP!SL!ExtractLte(k)
BY DEF T!SL!ExtractLte, TP!SL!ExtractLte, T!SL!Upto, TP!SL!Upto

(* ... and the timer operations.                                           *)
LEMMA SameSetTimeout ==
  ASSUME NEW t, NEW d, NEW c
  PROVE  /\ T!SetTimeout(t, d, c) <=> TP!SetTimeout(t, d, c)
         /\ T!SetInterval(t, d, c) <=> TP!SetInterval(t, d, c)
BY SameInsert DEF T!SetTimeout, T!SetInterval, TP!SetTimeout, TP!SetInterval,
   T!Create, TP!Create, T!ClientRuns, TP!ClientRuns, T!Add, TP!Add, T!walk, TP!walk

LEMMA SameClear ==
  ASSUME NEW t
  PROVE  T!Clear(t) <=> TP!Clear(t)
BY SameDelete DEF T!Clear, TP!Clear, T!MayClear, TP!MayClear, T!InWalk, TP!InWalk,
  T!Listed, TP!Listed, T!SL!Listed, TP!SL!Listed, T!SL!Extracted, TP!SL!Extracted,
  T!lst, TP!lst, T!walk, TP!walk, T!ClientRuns, TP!ClientRuns

LEMMA SameExecute ==
  ASSUME NEW c
  PROVE  T!ExecuteNow(c, Limit) <=> TP!ExecuteNow(c, Limit)
BY SameExtract DEF T!ExecuteNow, TP!ExecuteNow, T!Execute, TP!Execute

LEMMA SameWalk ==
  (T!Return \/ T!Advance) <=> TP!Loop
BY SameInsert DEF T!Return, TP!Return, T!Reinsert, TP!Reinsert, T!Destroy,
  TP!Destroy, T!lst, TP!lst,
  T!Advance, TP!Advance, T!Spent, TP!Spent, TP!Loop, T!SL!Abandon, TP!SL!Abandon,
  T!SL!NextExtracted, TP!SL!NextExtracted, T!Add, TP!Add

LEMMA SameFini == T!Fini <=> TP!Fini
BY DEF T!Fini, TP!Fini, T!SL!Clear, TP!SL!Clear, T!Listed, TP!Listed, T!SL!Listed,
  TP!SL!Listed,
  T!walk, TP!walk

LEMMA SameUpdate == ASSUME NEW c PROVE T!UpdateTime(c) <=> TP!UpdateTime(c)
BY DEF T!UpdateTime, TP!UpdateTime, T!ClientRuns, TP!ClientRuns, T!walk, TP!walk

(* Whatever the loop does is for the timers a step of theirs, or none.     *)
LEMMA TimersStep ==
  ASSUME clock \in Clock, [Next]_vars
  PROVE  [TP!Next]_timers
<1>1. ASSUME NEW t \in Timer, NEW d \in Delay, SetTimer(t, d) PROVE TP!Next
  BY <1>1, SameSetTimeout DEF SetTimer, TP!Next
<1>2. ASSUME NEW t \in Timer, ClearTimer(t) PROVE TP!Next
  BY <1>2, SameClear DEF ClearTimer, TP!Next
<1>3. ASSUME RunTimer PROVE TP!Next
  BY <1>3, SameWalk DEF RunTimer, TP!Next
<1>4. ASSUME EveryTickDone PROVE TP!Next
  BY <1>4, SameExecute DEF EveryTickDone, TP!Next
<1>5. ASSUME Sleep PROVE TP!Next
  BY <1>5, SameUpdate DEF Sleep, TP!Next
<1>6. ASSUME Renew PROVE TP!Next
  BY <1>6, SameFini DEF Renew, TP!Next
<1>7. ASSUME NEW t \in NextTask, NextTick(t) PROVE UNCHANGED timers
  BY <1>7 DEF NextTick
<1>8. ASSUME NEW t \in EveryTask, EveryTick(t) PROVE UNCHANGED timers
  BY <1>8 DEF EveryTick
<1>9. ASSUME NEW fd \in Fd, Descriptor(fd) PROVE UNCHANGED timers
  BY <1>9 DEF Descriptor
<1>10. ASSUME NEW h \in Hint, Iterate(h) \/ ForEach(h) PROVE UNCHANGED timers
  BY <1>10 DEF Iterate, ForEach, Enter
<1>11. ASSUME Break \/ RunTask \/ NextTickDone \/ KeepTask \/ Fetch
       PROVE  UNCHANGED timers
  BY <1>11 DEF Break, RunTask, NextTickDone, KeepTask, Fetch
<1>12. ASSUME WakeEvents \/ WakeTimeout \/ WakeSignal PROVE UNCHANGED timers
  BY <1>12 DEF WakeEvents, WakeTimeout, WakeSignal, Wake
<1>13. ASSUME Tick \/ \E fd \in Fd : Arrives(fd) PROVE UNCHANGED timers
  BY <1>13 DEF Tick, Arrives
<1>14. ASSUME UNCHANGED vars PROVE UNCHANGED timers
  BY <1>14 DEF vars
<1> QED
  BY <1>1, <1>2, <1>3, <1>4, <1>5, <1>6, <1>7, <1>8, <1>9, <1>10, <1>11, <1>12,
    <1>13, <1>14
  DEF Next, Client, Loop

(* Such a step keeps their invariant.                                      *)
LEMMA TimersKept ==
  ASSUME TP!IInv, [TP!Next]_timers
  PROVE  TP!IInv'
BY TimersAssumed, TP!NextIInv DEF timers, TP!vars

-----------------------------------------------------------------------------
(* The order of a round: who is at work in which phase.                    *)
Phases ==
  /\ pc \in {"user", "nexttick", "everytick", "timers", "wait", "fetch", "body"}
  /\ style \in {"iterate", "for_each"}
  /\ clock \in Clock
  /\ hint \in Int
  /\ npass = IF pc = "nexttick" THEN "run" ELSE "idle"
  /\ epass = IF pc = "everytick" THEN "keep" ELSE "idle"
  /\ tpc # "idle" => pc = "timers"
  /\ ncur # NULL => pc = "nexttick"
  /\ ecur # NULL => pc = "everytick"

(* Before ep_iterate does a round the buffer is empty, up to its wait.      *)
Drained ==
  style = "iterate" /\ pc \in {"nexttick", "everytick", "timers", "wait"} => ready <= 0

(* What the operations of the parts do to what Phases speaks of: the       *)
(* nexttick queue, ...                                                     *)
LEMMA NextTickPart ==
  /\ \A t : NT!Push(t) \/ NT!Cancel(t) => UNCHANGED <<npass, ncur>>
  /\ NT!StartRun => npass = "idle" /\ npass' = "run" /\ ncur' = ncur
  /\ NT!RunCall \/ NT!RunReturn => npass = "run" /\ npass' = npass
  /\ NT!Finish => npass' = "idle" /\ ncur = NULL /\ ncur' = NULL
  /\ NT!Fini => UNCHANGED <<npass, ncur>>
BY DEF NT!Push, NT!Cancel, NT!StartRun, NT!Start, NT!RunCall, NT!RunReturn,
  NT!Finish, NT!Fini

(* ... the everytick queue, ...                                            *)
LEMMA EveryTickPart ==
  /\ \A t : ET!Push(t) \/ ET!Cancel(t) => UNCHANGED <<epass, ecur>>
  /\ ET!StartKeep => epass = "idle" /\ epass' = "keep" /\ ecur' = ecur
  /\ ET!KeepCall \/ ET!KeepReturn => epass = "keep" /\ epass' = epass
  /\ ET!Finish => epass' = "idle" /\ ecur = NULL /\ ecur' = NULL
  /\ ET!Fini => UNCHANGED <<epass, ecur>>
BY DEF ET!Push, ET!Cancel, ET!StartKeep, ET!Start, ET!KeepCall, ET!KeepReturn,
  ET!Finish, ET!Fini

(* ... and the timers.                                                     *)
LEMMA TimersPart ==
  /\ \A t, d, c : T!SetTimeout(t, d, c) \/ T!SetInterval(t, d, c) => tpc' = tpc
  /\ \A t : T!Clear(t) => tpc' = tpc
  /\ \A c : T!UpdateTime(c) => tpc' = tpc /\ now' = c /\ UNCHANGED <<sl, score>>
  /\ T!Fini => tpc' = tpc
BY DEF T!SetTimeout, T!SetInterval, T!Create, T!Clear, T!UpdateTime, T!Fini, T!walk

(* A new loop is at rest, with an empty buffer.                            *)
LEMMA InitPhases == Init => Phases /\ Drained
BY EventLoopAssumption DEF Init, Phases, Drained, NT!Init, ET!Init, T!Init, P!Init,
  Clock

(* The client and its callbacks do not disturb the phases.                 *)
LEMMA ClientPhases ==
  ASSUME Phases, Client
  PROVE  Phases'
<1> USE DEF Phases
<1>1. ASSUME NEW t \in NextTask, NextTick(t) PROVE Phases'
  BY <1>1, NextTickPart DEF NextTick, everytick, timers, control
<1>2. ASSUME NEW t \in EveryTask, EveryTick(t) PROVE Phases'
  BY <1>2, EveryTickPart DEF EveryTick, nexttick, timers, control
<1>3. ASSUME NEW t \in Timer, NEW d \in Delay, SetTimer(t, d) PROVE Phases'
  BY <1>3, TimersPart DEF SetTimer, nexttick, everytick, control
<1>4. ASSUME NEW t \in Timer, ClearTimer(t) PROVE Phases'
  BY <1>4, TimersPart DEF ClearTimer, nexttick, everytick, control
<1>5. ASSUME NEW fd \in Fd, Descriptor(fd) PROVE Phases'
  BY <1>5 DEF Descriptor, nexttick, everytick, timers, control
<1>6. ASSUME NEW h \in Hint, NEW s \in {"iterate", "for_each"}, pc = "user", Enter(s, h)
      PROVE  Phases'
  BY <1>6, NextTickPart, EventLoopAssumption DEF Enter, everytick, timers
<1>7. ASSUME NEW h \in Hint, Iterate(h) \/ ForEach(h) PROVE Phases'
  BY <1>6, <1>7 DEF Iterate, ForEach, nexttick, everytick, timers, control
<1>8. ASSUME Break PROVE Phases'
  BY <1>8 DEF Break, nexttick, everytick, timers
<1>9. ASSUME Renew PROVE Phases'
  BY <1>9, NextTickPart, EveryTickPart, TimersPart DEF Renew, control
<1> QED
  BY <1>1, <1>2, <1>3, <1>4, <1>5, <1>7, <1>8, <1>9 DEF Client

(* The steps of a round take the phases one after the other.               *)
LEMMA LoopPhases ==
  ASSUME Phases, Loop \/ WakeSignal
  PROVE  Phases'
<1> USE DEF Phases
<1>1. ASSUME RunTask PROVE Phases'
  BY <1>1, NextTickPart DEF RunTask, everytick, timers, control
<1>2. ASSUME NextTickDone PROVE Phases'
  BY <1>2, NextTickPart, EveryTickPart DEF NextTickDone, timers
<1>3. ASSUME KeepTask PROVE Phases'
  BY <1>3, EveryTickPart DEF KeepTask, nexttick, timers, control
<1>4. ASSUME EveryTickDone PROVE Phases'
  BY <1>4, EveryTickPart DEF EveryTickDone, nexttick
<1>5. ASSUME RunTimer PROVE Phases'
  BY <1>5 DEF RunTimer, nexttick, everytick, control
<1>6. ASSUME Sleep PROVE Phases'
  BY <1>6, TimersPart DEF Sleep, nexttick, everytick
<1>7. ASSUME NEW p \in {"user", "fetch"}, Wake(p) PROVE Phases'
  BY <1>7 DEF Wake, nexttick, everytick, timers
<1>8. ASSUME WakeEvents \/ WakeTimeout \/ WakeSignal PROVE Phases'
  BY <1>7, <1>8 DEF WakeEvents, WakeTimeout, WakeSignal
<1>9. ASSUME Fetch PROVE Phases'
  BY <1>9 DEF Fetch, nexttick, everytick, timers
<1> QED
  BY <1>1, <1>2, <1>3, <1>4, <1>5, <1>6, <1>8, <1>9 DEF Loop

(* Nor does the world disturb them.                                        *)
LEMMA NextPhases == Phases /\ [Next]_vars => Phases'
<1> SUFFICES ASSUME Phases, [Next]_vars PROVE Phases'
  OBVIOUS
<1>1. ASSUME Tick PROVE Phases'
  BY <1>1, EventLoopAssumption DEF Phases, Tick, Clock, nexttick, everytick,
    timers, control
<1>2. ASSUME NEW fd \in Fd, Arrives(fd) PROVE Phases'
  BY <1>2 DEF Phases, Arrives, nexttick, everytick, timers, control
<1>3. ASSUME UNCHANGED vars PROVE Phases'
  BY <1>3 DEF Phases, vars, nexttick, everytick, timers, control
<1> QED
  BY <1>1, <1>2, <1>3, ClientPhases, LoopPhases DEF Next

-----------------------------------------------------------------------------
(* No code of the client runs while the loop sleeps.                       *)
LEMMA ClientGone ==
  ASSUME Phases, pc = "wait"
  PROVE  ~ ClientRuns
BY DEF Phases, ClientRuns, InCallback

(* Up to 2^31 ms, the conversion to int keeps a distance.                  *)
LEMMA RightDistance ==
  ASSUME NEW a \in Nat, a < U32 \div 2
  PROVE  T!ToInt(a) = a
<1>1. a < U32 /\ U32 \in Nat
  BY EventLoopAssumption
<1>2. a % U32 = a
  BY <1>1
<1> QED
  BY <1>2, <1>1 DEF T!ToInt

(* Beyond, it is some int.                                                 *)
LEMMA DistanceIsInt ==
  ASSUME NEW c \in Nat, score \in [Timer -> Nat], sl \in Seq(Timer)
  PROVE  T!NearestDiff(c) \in Int
<1> DEFINE a == IF sl = <<>> THEN U64 - 1 ELSE IF score[sl[1]] > c THEN score[sl[1]] - c ELSE 0
<1>1. a \in Int
  BY EventLoopAssumption
<1>2. a % U32 \in Int
  BY <1>1, EventLoopAssumption
<1>3. T!ToInt(a) \in Int
  BY <1>2, EventLoopAssumption DEF T!ToInt
<1> QED
  BY <1>3 DEF T!NearestDiff

(* A sleep that begins is not too long.                                    *)
LEMMA SleepIsInTime ==
  ASSUME Phases, TP!IInv, Sleep
  PROVE  SleepsInTime'
<1>0. /\ clock \in Nat /\ hint \in Int /\ score \in [Timer -> Nat] /\ sl \in Seq(Timer)
  BY EventLoopAssumption DEF Phases, Clock, TP!IInv, TP!TypeOK
<1>1. UNCHANGED <<sl, score, hint>> /\ now' = clock
      /\ until' = IF WaitTime < 0 THEN Forever ELSE clock + WaitTime
  BY TimersPart DEF Sleep
<1> DEFINE w == T!NearestDiff(clock)
<1>2. w \in Int
  BY <1>0, DistanceIsInt
<1> HIDE DEF w
<1>3. WaitTime = IF w < 0 THEN hint ELSE IF hint < 0 \/ w < hint THEN w ELSE hint
  BY DEF WaitTime, w
<1>4. hint >= 0 => until' \in 0 .. clock + hint
  BY <1>0, <1>1, <1>2, <1>3
<1>5. ASSUME sl # <<>>, score[sl[1]] < clock + U32 \div 2
      PROVE  until' \in 0 .. (IF score[sl[1]] > clock THEN score[sl[1]] ELSE clock)
  <2> DEFINE k == score[sl[1]]  a == IF k > clock THEN k - clock ELSE 0
  <2>1. k \in Nat
    BY <1>0, <1>5
  <2>2. U32 \div 2 \in Nat /\ 0 < U32 \div 2
    BY EventLoopAssumption
  <2>3. a \in Nat /\ a < U32 \div 2
    BY <2>1, <2>2, <1>0, <1>5
  <2>4. w = a
    BY <2>3, RightDistance, <1>5 DEF w, T!NearestDiff
  <2> QED
    BY <2>1, <2>4, <1>0, <1>1, <1>3
<1> QED
  BY <1>1, <1>4, <1>5 DEF SleepsInTime

(* Nothing it was computed from changes before it ends.                    *)
LEMMA NextSleeps == Phases /\ TP!IInv /\ SleepsInTime /\ [Next]_vars => SleepsInTime'
<1> SUFFICES ASSUME Phases, TP!IInv, SleepsInTime, [Next]_vars, pc' = "wait"
             PROVE  SleepsInTime'
  BY DEF SleepsInTime
<1>1. CASE Sleep
  BY <1>1, SleepIsInTime
<1>2. CASE UNCHANGED <<sl, score, now, until, hint, pc>>
  BY <1>2 DEF SleepsInTime
<1>3. ASSUME ~ Sleep
      PROVE  UNCHANGED <<sl, score, now, until, hint, pc>>
  <2>1. pc = "wait" \/ UNCHANGED vars \/ Tick \/ \E fd \in Fd : Arrives(fd)
    <3>1. pc = "wait" \/ ~Client
      BY DEF Client, NextTick, EveryTick, SetTimer, ClearTimer, Descriptor,
        Iterate, ForEach, Enter, Break, Renew, control
    <3>2. pc = "wait" \/ ~(Loop \/ WakeSignal)
      BY <1>3 DEF Loop, RunTask, NextTickDone, KeepTask, EveryTickDone, RunTimer,
        WakeEvents, WakeTimeout, WakeSignal, Wake, Fetch, control
    <3> QED
      BY <3>1, <3>2 DEF Next
  <2>2. ASSUME pc = "wait" PROVE ~ Client
    BY <2>2, ClientGone DEF Client, NextTick, EveryTick, SetTimer, ClearTimer,
      Descriptor, Iterate, ForEach, Break, Renew
  <2>3. ASSUME pc = "wait" PROVE ~ (Loop \/ WakeSignal)
    BY <2>3, <1>3 DEF Loop, RunTask, NextTickDone, KeepTask, EveryTickDone,
      RunTimer, WakeEvents, WakeTimeout, WakeSignal, Wake, Fetch
  <2> QED
    BY <2>1, <2>2, <2>3 DEF Next, Tick, Arrives, vars, timers, control
<1> QED
  BY <1>1, <1>2, <1>3

-----------------------------------------------------------------------------
(* What epoll_wait reports, and the invariant of the engine.               *)
Report == [fd : Fd, data : Fd, events : SUBSET Condition]

EngineInv == P!TypeOK /\ ee \in Seq(Report)

(* The engine at the beginning, ...                                        *)
LEMMA InitEngine == Init => EngineInv
<1> SUFFICES ASSUME P!Init PROVE EngineInv
  BY DEF Init
<1>1. DOMAIN interest = {}
  BY DEF P!Init, P!Nothing
<1> QED
  BY <1>1, EventLoopAssumption DEF EngineInv, P!Init, P!TypeOK, P!Registered,
    Condition

(* ... after ep_add and ep_mod, ...                                        *)
LEMMA RegisterKeeps ==
  ASSUME EngineInv, NEW fd \in open, NEW events \in {{}, {"READABLE"}},
         P!Register(fd, events, fd), UNCHANGED <<open, io, ee, ready, got>>
  PROVE  EngineInv'
<1>1. /\ DOMAIN interest' = DOMAIN interest \cup {fd}
      /\ interest'[fd].events = P!EpollEvents(events) /\ interest'[fd].data = fd
      /\ \A f \in DOMAIN interest \ {fd} : interest'[f] = interest[f]
  BY DEF P!Register, P!Registered
<1>2. P!EpollEvents(events) \subseteq {"IN", "OUT", "PRI"}
  BY DEF P!EpollEvents
<1> QED
  BY <1>1, <1>2 DEF EngineInv, P!TypeOK, P!Registered

(* ... after ep_del and close, ...                                         *)
LEMMA UnregisterKeeps ==
  ASSUME EngineInv, NEW fd, P!Unregister(fd), UNCHANGED <<ee, ready>>,
         open' \in {open, open \ {fd}}, io' \in [Fd -> SUBSET Condition]
  PROVE  EngineInv'
<1>1. /\ DOMAIN interest' = DOMAIN interest \ {fd}
      /\ \A f \in DOMAIN interest' : interest'[f] = interest[f]
  BY DEF P!Unregister, P!Registered
<1> QED
  BY <1>1 DEF EngineInv, P!TypeOK, P!Registered

(* ... after a wait with events, ...                                       *)
LEMMA WaitKeeps ==
  ASSUME EngineInv, NEW batch \in P!Batches, P!Wait(batch)
  PROVE  EngineInv'
<1>1. PICK k \in 0 .. sz : batch \in [1 .. k -> P!Triggered]
  BY DEF P!Batches
<1>2. Len(batch) = k /\ DOMAIN batch = 1 .. k
  BY <1>1, EventLoopAssumption
<1>3. \A i \in 1 .. k : /\ batch[i] \in Fd /\ interest[batch[i]].data \in Fd
                        /\ P!Pending(batch[i]) \subseteq Condition
  BY <1>1 DEF EngineInv, P!Triggered, P!Registered, P!TypeOK, P!Pending
<1>4. /\ ee' = [i \in 1 .. k |-> [fd |-> batch[i], data |-> interest[batch[i]].data,
                                  events |-> P!Pending(batch[i])]]
      /\ ready' = k /\ UNCHANGED <<open, interest, io>>
  BY <1>2 DEF P!Wait, P!kernel
<1>5. ee' \in [1 .. k -> Report]
  BY <1>3, <1>4 DEF Report
<1>6. ee' \in Seq(Report) /\ Len(ee') = k
  BY <1>5, EventLoopAssumption
<1> QED
  BY <1>4, <1>6, EventLoopAssumption DEF EngineInv, P!TypeOK, P!Registered

(* ... after one without, or a new start, ...                              *)
LEMMA NoneKeeps ==
  ASSUME EngineInv, P!Wait(<<>>) \/ P!WaitFails \/ P!Renew
  PROVE  EngineInv'
<1> USE EventLoopAssumption DEF EngineInv, P!TypeOK, P!Registered
<1>1. ASSUME P!Wait(<<>>) PROVE EngineInv'
  BY <1>1 DEF P!Wait, P!kernel
<1>2. ASSUME P!WaitFails PROVE EngineInv'
  BY <1>2 DEF P!WaitFails, P!kernel
<1>3. ASSUME P!Renew PROVE EngineInv'
  <2>1. DOMAIN interest' = {}
    BY <1>3 DEF P!Renew, P!Nothing
  <2> QED
    BY <1>3, <2>1 DEF P!Renew
<1> QED
  BY <1>1, <1>2, <1>3

(* ... and after a fetch, which takes one event, if there is one.          *)
LEMMA Fetched ==
  ASSUME EngineInv, P!Fetch
  PROVE  /\ EngineInv'
         /\ ee' = ee
         /\ ready > 0 => ready' = ready - 1 /\ got' # NULL /\ got'.fd = ee[ready].fd
         /\ ready <= 0 => ready' = ready
<1>1. ready \in Int /\ ready <= Len(ee) /\ Len(ee) \in Nat /\ ready >= -1
  BY DEF EngineInv, P!TypeOK
<1>2. /\ UNCHANGED <<open, interest, io, ee>>
      /\ ready' = IF ready > 0 THEN ready - 1 ELSE ready
  BY DEF P!Fetch, P!kernel
<1>3. EngineInv'
  BY <1>1, <1>2 DEF EngineInv, P!TypeOK, P!Registered
<1>4. ASSUME ready > 0 PROVE got' # NULL /\ got'.fd = ee[ready].fd
  <2>1. ee[ready] \in Report
    BY <1>1, <1>4 DEF EngineInv
  <2>2. P!EpEvents(ee[ready].events) \in SUBSET {"READABLE"}
    BY <2>1 DEF Report, Condition, P!EpEvents
  <2>3. got' = [ee[ready] EXCEPT !.events = P!EpEvents(ee[ready].events)]
    BY <1>4 DEF P!Fetch
  <2>4. got' \in [fd : Fd, data : Fd, events : SUBSET {"READABLE"}] /\ got'.fd = ee[ready].fd
    BY <2>1, <2>2, <2>3 DEF Report
  <2> QED
    BY <2>4, EventLoopAssumption
<1> QED
  BY <1>1, <1>2, <1>3, <1>4

(* What the client does at a descriptor leaves the buffer alone.           *)
LEMMA DescriptorKeeps ==
  ASSUME EngineInv, NEW fd \in Fd, Descriptor(fd)
  PROVE  EngineInv' /\ ready' = ready /\ ee' = ee
<1>1. ASSUME P!Open(fd) PROVE EngineInv' /\ ready' = ready /\ ee' = ee
  BY <1>1 DEF P!Open, EngineInv, P!TypeOK, P!Registered
<1>2. ASSUME P!Add(fd, {"READABLE"}, fd) PROVE EngineInv' /\ ready' = ready /\ ee' = ee
  BY <1>2, RegisterKeeps DEF P!Add
<1>3. ASSUME NEW events \in {{}, {"READABLE"}}, P!Mod(fd, events, fd)
      PROVE  EngineInv' /\ ready' = ready /\ ee' = ee
  BY <1>3, RegisterKeeps DEF P!Mod, EngineInv, P!TypeOK
<1>4. ASSUME P!Del(fd) PROVE EngineInv' /\ ready' = ready /\ ee' = ee
  <2>1. io' \in [Fd -> SUBSET Condition]
    BY <1>4 DEF P!Del, EngineInv, P!TypeOK
  <2> QED
    BY <1>4, <2>1, UnregisterKeeps DEF P!Del
<1>5. ASSUME P!Close(fd) PROVE EngineInv' /\ ready' = ready /\ ee' = ee
  <2>1. io' \in [Fd -> SUBSET Condition]
    BY <1>5 DEF P!Close, EngineInv, P!TypeOK
  <2> QED
    BY <1>5, <2>1, UnregisterKeeps DEF P!Close
<1>6. ASSUME P!Happens(fd, {}) PROVE EngineInv' /\ ready' = ready /\ ee' = ee
  BY <1>6 DEF P!Happens, EngineInv, P!TypeOK, P!Registered
<1> QED
  BY <1>1, <1>2, <1>3, <1>4, <1>5, <1>6 DEF Descriptor

(* EventsKept of a step.                                                   *)
EventKept ==
  ready > 0 /\ (ready' # ready \/ ee' # ee)
    => \/ ready' = ready - 1 /\ ee' = ee /\ got' # NULL /\ got'.fd = ee[ready].fd
       \/ pc = "wait" /\ style = "for_each"
       \/ interest' = P!Nothing

(* Neither does what does not concern the engine.                          *)
LEMMA SamePoll ==
  ASSUME UNCHANGED poll
  PROVE  (EngineInv => EngineInv') /\ ready' = ready /\ ee' = ee
BY DEF poll, EngineInv, P!TypeOK, P!Registered

(* No step of the loop loses an event: iterate begins a round only when    *)
(* the buffer is empty, and it is still empty when the round comes to its  *)
(* wait.                                                                   *)
LEMMA EngineStep ==
  ASSUME Phases, Drained, EngineInv, [Next]_vars
  PROVE  EngineInv' /\ Drained' /\ EventKept
<1> DEFINE Goal == EngineInv' /\ Drained' /\ EventKept
<1>0. ready \in Int
  BY DEF EngineInv, P!TypeOK
<1> USE DEF Phases, Drained
<1>1. ASSUME UNCHANGED <<poll, pc, style>> PROVE Goal
  BY <1>1, SamePoll DEF EventKept
<1>2. ASSUME NEW fd \in Fd, Descriptor(fd) PROVE Goal
  BY <1>2, DescriptorKeeps DEF Descriptor, control, EventKept
<1>3. ASSUME NEW h \in Hint, Iterate(h) PROVE Goal
  BY <1>0, <1>3, Fetched DEF Iterate, Enter, control, EventKept
<1>4. ASSUME NEW h \in Hint, ForEach(h) PROVE Goal
  BY <1>4, SamePoll DEF ForEach, Enter, EventKept
<1>5. ASSUME Break PROVE Goal
  BY <1>5, SamePoll DEF Break, EventKept
<1>6. ASSUME Renew PROVE Goal
  BY <1>6, NoneKeeps DEF Renew, P!Renew, control, EventKept
<1>7. ASSUME NextTickDone \/ EveryTickDone \/ Sleep PROVE Goal
  BY <1>7, SamePoll DEF NextTickDone, EveryTickDone, Sleep, EventKept
<1>8. ASSUME WakeEvents PROVE Goal
  <2>1. EngineInv' /\ pc' = "fetch" /\ pc = "wait"
    BY <1>8, WaitKeeps DEF WakeEvents, Wake
  <2> QED
    BY <1>0, <2>1 DEF EventKept
<1>9. ASSUME WakeTimeout \/ WakeSignal PROVE Goal
  <2>1. EngineInv' /\ pc' \in {"fetch", "user"} /\ pc = "wait"
    BY <1>9, NoneKeeps DEF WakeTimeout, WakeSignal, Wake
  <2> QED
    BY <1>0, <2>1 DEF EventKept
<1>10. ASSUME Fetch PROVE Goal
  <2>1. pc' \in {"body", "user"}
    BY <1>10 DEF Fetch
  <2> QED
    BY <1>0, <1>10, <2>1, Fetched DEF Fetch, EventKept
<1>11. ASSUME NEW fd \in Fd, Arrives(fd) PROVE Goal
  <2>1. EngineInv' /\ ready' = ready /\ ee' = ee
    BY <1>11 DEF Arrives, P!Happens, EngineInv, P!TypeOK, P!Registered, Condition
  <2> QED
    BY <1>11, <2>1 DEF Arrives, control, EventKept
<1>12. ASSUME \/ \E t \in NextTask : NextTick(t)
              \/ \E t \in EveryTask : EveryTick(t)
              \/ \E t \in Timer, d \in Delay : SetTimer(t, d)
              \/ \E t \in Timer : ClearTimer(t)
              \/ RunTask \/ KeepTask \/ RunTimer \/ Tick \/ UNCHANGED vars
       PROVE  UNCHANGED <<poll, pc, style>>
  BY <1>12 DEF NextTick, EveryTick, SetTimer, ClearTimer, RunTask, KeepTask,
    RunTimer, Tick,
     vars, control
<1> QED
  BY <1>1, <1>2, <1>3, <1>4, <1>5, <1>6, <1>7, <1>8, <1>9, <1>10, <1>11, <1>12
  DEF Next, Client, Loop

-----------------------------------------------------------------------------
(***************************************************************************)
(* The inductive invariant of the loop.  That an event is not lost needs   *)
(* Drained, which needs to know that a callback does not change what is in *)
(* the buffer; that a sleep stays in time needs Phases, since the client   *)
(* could set a nearer timer if it ran during the sleep.                    *)
(***************************************************************************)
IInv == TP!IInv /\ Phases /\ Drained /\ EngineInv /\ SleepsInTime

(* IInv holds in every state of the loop.                                  *)
THEOREM LoopInvariance == Spec => []IInv
<1>1. Init => IInv
  BY InitPhases, InitEngine, TimersFirst DEF IInv, Init, SleepsInTime
<1>2. IInv /\ [Next]_vars => IInv'
  <2> SUFFICES ASSUME IInv, [Next]_vars PROVE IInv'
    OBVIOUS
  <2>1. TP!IInv'
    BY TimersStep, TimersKept DEF IInv, Phases
  <2> QED
    BY <2>1, NextPhases, NextSleeps, EngineStep DEF IInv
<1> QED
  BY <1>1, <1>2, PTL DEF Spec

(* The types, and that each part is at work only when it is its turn.      *)
THEOREM LoopTypeCorrect == Spec => []TypeOK
<1>1. IInv => TypeOK
  BY DEF IInv, TypeOK, Phases, EngineInv, TP!IInv, TP!TypeOK, T!TypeOK
<1> QED
  BY <1>1, LoopInvariance, PTL

(***************************************************************************)
(* The wait of ep_iterate and ep_for_each ends no later than the nearest   *)
(* timer is due, if it is less than 2^31 ms away, and no later than the    *)
(* hint allows.                                                            *)
(***************************************************************************)
THEOREM LoopSleepsInTime == Spec => []SleepsInTime
<1>1. IInv => SleepsInTime
  BY DEF IInv
<1> QED
  BY <1>1, LoopInvariance, PTL

(***************************************************************************)
(* Events that a wait has brought leave the buffer only by being handed to *)
(* the client and are not overwritten, unless it leaves an ep_for_each     *)
(* early and starts another one, or gives the whole loop up.               *)
(***************************************************************************)
THEOREM LoopKeepsEvents == Spec => EventsKept
<1>1. IInv /\ [Next]_vars =>
        [ready > 0 /\ (ready' # ready \/ ee' # ee)
           => \/ ready' = ready - 1 /\ ee' = ee /\ got' # NULL /\ got'.fd = ee[ready].fd
              \/ pc = "wait" /\ style = "for_each"
              \/ interest' = P!Nothing]_vars
  BY EngineStep DEF IInv, EventKept
<1> QED
  BY <1>1, LoopInvariance, PTL DEF Spec, EventsKept

-----------------------------------------------------------------------------
(* What the loop does to the nexttick queue is a step of FifoTasks, ...    *)
LEMMA NextTickStep ==
  ASSUME [Next]_vars
  PROVE  [NT!Next]_nexttick
<1> USE DEF NT!Next, NT!Loop
<1>1. ASSUME NEW t \in NextTask, NextTick(t) PROVE NT!Next
  BY <1>1 DEF NextTick
<1>2. ASSUME NEW h \in Hint, Iterate(h) \/ ForEach(h) PROVE [NT!Next]_nexttick
  BY <1>2 DEF Iterate, ForEach, Enter
<1>3. ASSUME RunTask \/ NextTickDone \/ Renew PROVE NT!Next
  BY <1>3 DEF RunTask, NextTickDone, Renew
<1>4. ASSUME \/ \E t \in EveryTask : EveryTick(t)
             \/ \E t \in Timer, d \in Delay : SetTimer(t, d)
             \/ \E t \in Timer : ClearTimer(t)
             \/ \E fd \in Fd : Descriptor(fd) \/ Arrives(fd)
             \/ Break \/ Tick \/ UNCHANGED vars
      PROVE  UNCHANGED nexttick
  BY <1>4 DEF EveryTick, SetTimer, ClearTimer, Descriptor, Arrives, Break, Tick, vars
<1>5. ASSUME KeepTask \/ EveryTickDone \/ RunTimer \/ Sleep \/ Fetch
      PROVE  UNCHANGED nexttick
  BY <1>5 DEF KeepTask, EveryTickDone, RunTimer, Sleep, Fetch
<1>6. ASSUME WakeEvents \/ WakeTimeout \/ WakeSignal PROVE UNCHANGED nexttick
  BY <1>6 DEF WakeEvents, WakeTimeout, WakeSignal, Wake
<1> QED
  BY <1>1, <1>2, <1>3, <1>4, <1>5, <1>6 DEF Next, Client, Loop

(* ... and what it does to the everytick queue is one, too.                *)
LEMMA EveryTickStep ==
  ASSUME [Next]_vars
  PROVE  [ET!Next]_everytick
<1> USE DEF ET!Next, ET!Loop
<1>1. ASSUME NEW t \in EveryTask, EveryTick(t) PROVE ET!Next
  BY <1>1 DEF EveryTick
<1>2. ASSUME NEW h \in Hint, Iterate(h) \/ ForEach(h) PROVE UNCHANGED everytick
  BY <1>2 DEF Iterate, ForEach, Enter
<1>3. ASSUME NextTickDone \/ KeepTask \/ EveryTickDone \/ Renew PROVE ET!Next
  BY <1>3 DEF NextTickDone, KeepTask, EveryTickDone, Renew
<1>4. ASSUME \/ \E t \in NextTask : NextTick(t)
             \/ \E t \in Timer, d \in Delay : SetTimer(t, d)
             \/ \E t \in Timer : ClearTimer(t)
             \/ \E fd \in Fd : Descriptor(fd) \/ Arrives(fd)
             \/ Break \/ Tick \/ UNCHANGED vars
      PROVE  UNCHANGED everytick
  BY <1>4 DEF NextTick, SetTimer, ClearTimer, Descriptor, Arrives, Break, Tick, vars
<1>5. ASSUME RunTask \/ RunTimer \/ Sleep \/ Fetch
      PROVE  UNCHANGED everytick
  BY <1>5 DEF RunTask, RunTimer, Sleep, Fetch
<1>6. ASSUME WakeEvents \/ WakeTimeout \/ WakeSignal PROVE UNCHANGED everytick
  BY <1>6 DEF WakeEvents, WakeTimeout, WakeSignal, Wake
<1> QED
  BY <1>1, <1>2, <1>3, <1>4, <1>5, <1>6 DEF Next, Client, Loop

(***************************************************************************)
(* The composition: seen by itself, each of the two queues in the loop     *)
(* behaves as FifoTasks says, and the timers as Timer says, whatever the   *)
(* callbacks of one part do to another in the middle of its pass.          *)
(***************************************************************************)
THEOREM LoopIsComposed == Spec => NT!Spec /\ ET!Spec /\ TP!Spec
<1>1. Init => NT!Init /\ ET!Init /\ TP!Init
  BY DEF Init, T!Init, TP!Init, T!SL!Init, TP!SL!Init
<1>2. IInv /\ [Next]_vars =>
        [NT!Next]_(NT!vars) /\ [ET!Next]_(ET!vars) /\ [TP!Next]_(TP!vars)
  BY NextTickStep, EveryTickStep, TimersStep
  DEF IInv, Phases, NT!vars, ET!vars, TP!vars, nexttick, everytick, timers
<1> QED
  BY <1>1, <1>2, LoopInvariance, PTL DEF Spec, NT!Spec, ET!Spec, TP!Spec

(***************************************************************************)
(* In the loop, too, the first timer on the list is the nearest, which is  *)
(* what ep__waittime relies on, and no callback can set or clear timers so *)
(* that the walk would meet one that is freed.                             *)
(***************************************************************************)
THEOREM TimersInLoop == Spec => [](TP!Sorted /\ TP!BatchAlive)
<1>1. IInv => TP!Sorted /\ TP!BatchAlive
  BY DEF IInv, TP!IInv
<1> QED
  BY <1>1, LoopInvariance, PTL
=============================================================================
