------------------------- MODULE TimerHistoryProofs -------------------------
(***************************************************************************)
(* Proofs about TimerHistory: which timers ep_timer_execute calls, when    *)
(* and how often, for any number of timers, any clock and any limit.       *)
(***************************************************************************)
EXTENDS TimerHistory, TimerProofs

(* The types of the ghosts.                                                *)
HTypeOK ==
  /\ due \in [Timer -> 0 .. U64]
  /\ asked \in Nat
  /\ overrun \in BOOLEAN

(* The score is the time a timer is really due, unless it has wrapped.     *)
DueIsScore == \A t \in alloc : due[t] = score[t] \/ due[t] = U64

(* What the walk has yet to call is due at the time it was given.          *)
BatchDue ==
  /\ \A t \in Elements(rest) : score[t] <= asked
  /\ pc = "call" => score[cur] <= asked

(* What the walk has yet to reach has not been called by it.               *)
Uncalled ==
  /\ calls \in [Timer -> {0, 1}]
  /\ \A t \in Elements(rest) : calls[t] = 0

(***************************************************************************)
(* The limit left exceeds what is left of the walk, unless it was given    *)
(* too many: the walk is broken off only with nothing behind it.           *)
(***************************************************************************)
RoomLeft ==
  pc # "idle" /\ ~overrun => left < 0 \/ rest = <<>> \/ left > Len(rest)

(* The walk owes a call to exactly the timers it has yet to reach.         *)
OwedInBatch == overrun \/ owed = Elements(rest)

(***************************************************************************)
(* Between the steps of a walk no timer is lost; behind a callback the     *)
(* running one is on the list again or freed.                              *)
(***************************************************************************)
NoneLost ==
  /\ alloc \subseteq Elements(sl) \cup InWalk \/ overrun
  /\ pc = "next" => alloc \subseteq Elements(sl) \cup Elements(rest) \/ overrun

(* The inductive invariant of the specification with ghosts.               *)
HInv ==
  IInv /\ HTypeOK /\ DueIsScore /\ BatchDue /\ Uncalled /\ RoomLeft /\ OwedInBatch /\ NoneLost

-----------------------------------------------------------------------------
(* InWalk in the terms of the lemmas.                                      *)
LEMMA InWalkIs ==
  ASSUME IInv
  PROVE  InWalk = ({cur} \ {NULL}) \cup Elements(rest)
BY Facts DEF InWalk

(* Nothing is set, due or owed at first.                                   *)
LEMMA HInitInv == HInit => HInv
<1> SUFFICES ASSUME HInit PROVE HInv
  OBVIOUS
<1>1. IInv
  BY InitIInv DEF HInit
<1>2. /\ due = [t \in Timer |-> 0] /\ asked = 0 /\ owed = {}
      /\ calls = [t \in Timer |-> 0] /\ overrun = FALSE
      /\ sl = <<>> /\ rest = <<>> /\ pc = "idle" /\ alloc = {}
  BY DEF HInit, Init, SL!Init
<1>3. Elements(rest) = {} /\ DOMAIN <<>> = {}
  BY <1>2 DEF Elements
<1>4. HTypeOK
  <2>1. 0 \in 0 .. U64
    BY TimerAssumption
  <2> QED
    BY <1>2, <2>1 DEF HTypeOK
<1>5. DueIsScore /\ BatchDue /\ Uncalled /\ RoomLeft /\ OwedInBatch /\ NoneLost
  BY <1>2, <1>3 DEF DueIsScore, BatchDue, Uncalled, RoomLeft, OwedInBatch, NoneLost
<1> QED
  BY <1>1, <1>4, <1>5 DEF HInv

(* The exact time and the score, which is the same modulo U64.             *)
LEMMA ExactIs ==
  ASSUME NEW k \in Nat
  PROVE  Exact(k) \in 0 .. U64 /\ (Exact(k) = k % U64 \/ Exact(k) = U64)
BY TimerAssumption DEF Exact

(* Actions that set a timer.                                               *)
LEMMA HCreateInv ==
  ASSUME HInv, NEW t \in Timer, NEW d \in Delay, NEW p \in Delay \cup {0}, NEW c \in Clock,
         Create(t, d, p, c), now' \in Clock, due' = [due EXCEPT ![t] = Exact(c + d)],
         owed' = owed \cap alloc', UNCHANGED <<asked, calls, overrun>>
  PROVE  HInv'
<1> DEFINE k == Add(c, d)  e == Exact(c + d)
<1>0. IInv /\ IInv'
  BY CreateIInv DEF HInv
<1>1. c + d \in Nat
  BY TimerAssumption
<1>2. k \in Nat /\ e \in 0 .. U64 /\ (e = k \/ e = U64)
  BY <1>1, ExactIs, TimerAssumption DEF Add
<1> HIDE DEF e, k
<1>3. /\ t \notin alloc /\ alloc' = alloc \cup {t} /\ pc' = pc /\ left' = left
      /\ pc \in {"idle", "call"}
      /\ score' = [score EXCEPT ![t] = k] /\ due' = [due EXCEPT ![t] = e]
      /\ Elements(sl') = Elements(sl) \cup {t}
      /\ rest' = rest /\ cur' = cur
  BY <1>0, CreateFacts DEF k, e
<1>4. /\ score \in [Timer -> Nat] /\ alloc \subseteq Timer /\ Elements(rest) \subseteq alloc
      /\ pc = "call" => cur \in alloc
  BY <1>0, Facts, AliveFacts DEF IInv, TypeOK
<1>5. HTypeOK'
  BY <1>2, <1>3 DEF HInv, HTypeOK
<1>6. DueIsScore'
  BY <1>2, <1>3, <1>4 DEF HInv, HTypeOK, DueIsScore
<1>7. BatchDue'
  <2>1. Elements(rest') = Elements(rest)
    BY <1>3
  <2>2. \A x \in alloc : score'[x] = score[x]
    BY <1>3, <1>4
  <2> QED
    BY <1>3, <1>4, <2>1, <2>2 DEF HInv, BatchDue
<1>8. Uncalled' /\ RoomLeft'
  BY <1>3 DEF HInv, Uncalled, RoomLeft
<1>9. OwedInBatch'
  BY <1>3, <1>4 DEF HInv, OwedInBatch
<1>10. NoneLost'
  BY <1>0, <1>3, InWalkIs DEF HInv, NoneLost, InWalk, SL!Extracted
<1> QED
  BY <1>0, <1>5, <1>6, <1>7, <1>8, <1>9, <1>10 DEF HInv

(* A timer that is cleared is not in the walk, which owes it nothing.      *)
LEMMA HClearInv ==
  ASSUME HInv, NEW t \in Timer, Clear(t), due' = due,
         owed' = owed \cap alloc', UNCHANGED <<asked, calls, overrun>>
  PROVE  HInv'
<1>1. IInv /\ IInv'
  BY ClearIInv DEF HInv
<1>2. /\ alloc' = alloc \ {t} /\ pc' = pc /\ pc \in {"idle", "call"} /\ left' = left
      /\ Elements(sl') = Elements(sl) \ {t}
      /\ score' = score /\ rest' = rest /\ cur' = cur
      /\ t \notin Elements(rest) /\ (pc = "call" => t # cur)
  BY <1>1, ClearFacts
<1>3. Elements(rest) \subseteq alloc
  BY <1>1, AliveFacts
<1>4. HTypeOK' /\ DueIsScore' /\ BatchDue' /\ Uncalled' /\ RoomLeft'
  BY <1>2 DEF HInv, HTypeOK, DueIsScore, BatchDue, Uncalled, RoomLeft
<1>5. OwedInBatch'
  BY <1>2, <1>3 DEF HInv, OwedInBatch
<1>6. NoneLost'
  BY <1>1, <1>2, InWalkIs DEF HInv, NoneLost, InWalk, SL!Extracted
<1> QED
  BY <1>1, <1>4, <1>5, <1>6 DEF HInv

(* ep_timer_fini runs outside of walks.                                    *)
LEMMA HFiniInv ==
  ASSUME HInv, Fini, due' = due,
         owed' = owed \cap alloc', UNCHANGED <<asked, calls, overrun>>
  PROVE  HInv'
<1>1. IInv /\ IInv'
  BY FiniIInv DEF HInv
<1>2. /\ pc = "idle" /\ pc' = pc /\ left' = left /\ UNCHANGED <<score, cur, rest>>
      /\ alloc' = alloc \ Elements(sl) /\ sl' = <<>>
  BY <1>1, Facts DEF Fini, SL!Clear, walk
<1>3. /\ Elements(rest) \subseteq alloc /\ Elements(sl) \cap Elements(rest) = {}
      /\ InWalk = ({cur} \ {NULL}) \cup Elements(rest)
  BY <1>1, AliveFacts, InWalkIs
<1>4. HTypeOK' /\ DueIsScore' /\ BatchDue' /\ Uncalled' /\ RoomLeft'
  BY <1>2 DEF HInv, HTypeOK, DueIsScore, BatchDue, Uncalled, RoomLeft
<1>5. OwedInBatch'
  BY <1>2, <1>3 DEF HInv, OwedInBatch
<1>6. NoneLost'
  BY <1>2, <1>3 DEF HInv, NoneLost, InWalk, SL!Extracted
<1> QED
  BY <1>1, <1>4, <1>5, <1>6 DEF HInv

(* All that callers and callbacks do.                                      *)
LEMMA HClientInv ==
  ASSUME HInv, Client, owed' = owed \cap alloc', UNCHANGED <<asked, calls, overrun>>
  PROVE  HInv'
<1>0. now \in Clock
  BY DEF HInv, IInv, TypeOK
<1>1. ASSUME NEW t \in Timer, NEW d \in Delay, RunAfter(t, d) \/ RunEvery(t, d),
             due' = [due EXCEPT ![t] = Exact(now + d)]
      PROVE  HInv'
  <2>1. now' \in Clock
    BY <1>0, <1>1 DEF RunAfter, RunEvery
  <2>2. 0 \in Delay \cup {0} /\ d \in Delay \cup {0}
    OBVIOUS
  <2> QED
    BY <1>0, <1>1, <2>1, <2>2, HCreateInv DEF RunAfter, RunEvery
<1>2. ASSUME NEW t \in Timer, NEW d \in Delay, NEW c \in Clock,
             SetTimeout(t, d, c) \/ SetInterval(t, d, c),
             due' = [due EXCEPT ![t] = Exact(c + d)]
      PROVE  HInv'
  <2>1. now' \in Clock
    BY <1>2 DEF SetTimeout, SetInterval
  <2>2. 0 \in Delay \cup {0} /\ d \in Delay \cup {0}
    OBVIOUS
  <2> QED
    BY <1>2, <2>1, <2>2, HCreateInv DEF SetTimeout, SetInterval
<1>3. ASSUME NEW c \in Clock, UpdateTime(c), due' = due
      PROVE  HInv'
  <2>1. UNCHANGED <<sl, score, cur, rest, walk, alloc, ms>> /\ now' \in Clock
    BY <1>3 DEF UpdateTime
  <2>2. IInv'
    BY <2>1, StutterIInv DEF HInv
  <2>3. Elements(rest) \subseteq alloc
    BY AliveFacts DEF HInv
  <2>4. HTypeOK' /\ DueIsScore' /\ BatchDue' /\ Uncalled' /\ RoomLeft' /\ NoneLost'
    BY <1>3, <2>1 DEF HInv, HTypeOK, DueIsScore, BatchDue, Uncalled, RoomLeft, NoneLost,
                      InWalk, SL!Extracted, walk
  <2>5. OwedInBatch'
    BY <2>1, <2>3 DEF HInv, OwedInBatch
  <2> QED
    BY <2>2, <2>4, <2>5 DEF HInv
<1> QED
  BY <1>1, <1>2, <1>3, HClearInv, HFiniInv DEF Client

(***************************************************************************)
(* A walk begins: it owes a call to the timers due now, which are those it *)
(* has cut off the list.                                                   *)
(***************************************************************************)
LEMMA HExecuteInv ==
  ASSUME HInv, NEW k \in Nat, NEW max \in MaxTimes, Execute(k, max), Begin(k, max), now' \in Clock
  PROVE  HInv'
<1>1. IInv /\ IInv'
  BY ExecuteIInv DEF HInv
<1>2. /\ pc = "idle" /\ pc' = IF cur' = NULL THEN "idle" ELSE "call"
      /\ left' = IF cur' = NULL THEN left ELSE max
      /\ alloc' = alloc /\ SL!ExtractLte(k)
  BY DEF Execute
<1>3. /\ score' = score
      /\ Elements(sl) = Elements(sl') \cup Elements(rest') \cup ({cur'} \ {NULL})
      /\ \A x \in Elements(sl') : score[x] > k
      /\ \A x \in Elements(rest') \cup ({cur'} \ {NULL}) : score[x] <= k
      /\ cur' # NULL => cur' \notin Elements(sl') \cup Elements(rest')
      /\ cur' = NULL => rest' = <<>>
      /\ rest' \in Seq(Timer) /\ Elements(rest') \subseteq Elements(sl)
  BY <1>1, <1>2, ExtractFacts, Facts
<1>4. /\ asked' = k /\ owed' = {t \in Elements(sl) : score[t] <= k} \ {cur'}
      /\ calls' = [t \in Timer |-> IF t = cur' THEN 1 ELSE 0]
      /\ overrun' = (overrun \/ (rest' # <<>> /\ max \in 0 .. Len(rest')))
      /\ due' = due
  BY <1>1, Facts DEF Begin
<1>5. /\ score \in [Timer -> Nat] /\ Elements(sl) \subseteq Timer
      /\ rest = <<>> /\ cur = NULL
  BY <1>1, <1>2, Facts DEF IInv, WalkPlaced
<1>6. HTypeOK' /\ DueIsScore'
  <2>1. overrun' \in BOOLEAN
    BY <1>4
  <2> QED
    BY <1>2, <1>3, <1>4, <2>1 DEF HInv, HTypeOK, DueIsScore
<1>7. BatchDue'
  BY <1>2, <1>3, <1>4 DEF BatchDue
<1>8. Uncalled'
  <2>1. cur' \notin Elements(rest')
    <3>1. NULL \notin Elements(rest')
      BY <1>3, <1>5, TimerAssumption
    <3> QED
      BY <1>3, <3>1
  <2> QED
    BY <1>3, <1>4, <1>5, <2>1 DEF Uncalled
<1>9. RoomLeft'
  <2> SUFFICES ASSUME pc' # "idle", ~overrun', rest' # <<>>, ~(left' < 0)
               PROVE  left' > Len(rest')
    BY DEF RoomLeft
  <2>1. left' = max /\ max \in Int /\ Len(rest') \in Nat
    BY <1>2, <1>3, LenProperties, TimerAssumption
  <2>2. max \notin 0 .. Len(rest')
    BY <1>4
  <2> QED
    BY <2>1, <2>2
<1>10. OwedInBatch'
  <2>1. \A t \in Elements(sl) : score[t] \in Nat
    BY <1>5
  <2>2. \A t \in owed' : t \in Elements(rest')
    BY <1>3, <1>4, <2>1
  <2>3. \A t \in Elements(rest') : t \in owed'
    <3>1. \A t \in Elements(rest') : t # cur'
      BY <1>3, <1>5, TimerAssumption
    <3> QED
      BY <1>3, <1>4, <3>1
  <2> QED
    BY <2>2, <2>3 DEF OwedInBatch
<1>11. NoneLost'
  <2>1. InWalk = {}
    BY <1>5, <1>1, InWalkIs DEF SL!Extracted, InWalk
  <2>2. InWalk' = ({cur'} \ {NULL}) \cup Elements(rest')
    BY DEF InWalk, SL!Extracted, Elements
  <2>3. alloc \subseteq Elements(sl) \/ overrun
    BY <2>1 DEF HInv, NoneLost
  <2> QED
    BY <1>2, <1>3, <1>4, <2>2, <2>3 DEF NoneLost
<1> QED
  BY <1>1, <1>6, <1>7, <1>8, <1>9, <1>10, <1>11 DEF HInv

(* Behind a callback.                                                      *)
LEMMA HReturnInv ==
  ASSUME HInv, Return, due' = [due EXCEPT ![cur] = Exact(@ + ms[cur])],
         UNCHANGED <<asked, owed, calls, overrun>>
  PROVE  HInv'
<1>1. IInv /\ IInv'
  BY ReturnIInv DEF HInv
<1>2. /\ pc = "call" /\ pc' = "next" /\ left' = left /\ cur \in Timer
      /\ cur' = cur /\ rest' = rest
  BY <1>1, ReinsertFacts DEF Return, Destroy, lst, IInv, WalkPlaced
<1>3. /\ score \in [Timer -> Nat] /\ due \in [Timer -> 0 .. U64] /\ alloc \subseteq Timer
      /\ ms[cur] \in Delay \cup {0}
      /\ Elements(rest) \subseteq alloc /\ cur \in alloc /\ cur \notin Elements(rest)
  BY <1>1, <1>2, Facts, AliveFacts DEF HInv, HTypeOK, IInv, TypeOK
<1>4. score[cur] \in Nat /\ due[cur] \in 0 .. U64 /\ ms[cur] \in Nat /\ U64 \in Nat
  <2>1. \A d \in Delay \cup {0} : d \in Nat
    BY TimerAssumption
  <2>2. U64 \in Nat
    BY TimerAssumption
  <2> QED
    BY <1>2, <1>3, <2>1, <2>2
<1> DEFINE e == Exact(due[cur] + ms[cur])
<1>5. due' = [due EXCEPT ![cur] = e]
  OBVIOUS
<1>6. /\ e \in 0 .. U64
      /\ due[cur] = score[cur] => e = Add(score[cur], ms[cur]) \/ e = U64
      /\ due[cur] = U64 => e = U64
  <2>1. due[cur] + ms[cur] \in Nat
    BY <1>4
  <2>2. e \in 0 .. U64 /\ (e = (due[cur] + ms[cur]) % U64 \/ e = U64)
    BY <2>1, ExactIs
  <2>3. due[cur] = U64 => ~(due[cur] + ms[cur] < U64)
    BY <1>4
  <2>4. due[cur] = U64 => e = U64
    BY <2>3 DEF Exact
  <2> QED
    BY <2>2, <2>4 DEF Add
<1> HIDE DEF e
<1>7. HTypeOK'
  BY <1>3, <1>5, <1>6 DEF HInv, HTypeOK
<1>8. /\ \A t \in alloc' : t \in alloc /\ (t # cur => score'[t] = score[t])
      /\ cur \in alloc' => score'[cur] = Add(score[cur], ms[cur])
      /\ \A t \in Elements(rest) : score'[t] = score[t]
      /\ alloc' \subseteq Elements(sl') \cup Elements(rest') \/ overrun
  <2>1. alloc \subseteq Elements(sl) \cup {cur} \cup Elements(rest) \/ overrun
    BY <1>1, InWalkIs DEF HInv, NoneLost
  <2>2. CASE ms[cur] > 0
    <3>1. /\ alloc' = alloc /\ score' = [score EXCEPT ![cur] = Add(score[cur], ms[cur])]
          /\ Elements(sl') = Elements(sl) \cup {cur}
      BY <1>1, <2>2, ReinsertFacts
    <3> QED
      BY <1>2, <1>3, <2>1, <3>1
  <2>3. CASE ~(ms[cur] > 0)
    <3>1. alloc' = alloc \ {cur} /\ score' = score /\ sl' = sl
      BY <2>3 DEF Return, Destroy, lst
    <3> QED
      BY <1>2, <1>3, <2>1, <3>1
  <2> QED
    BY <2>2, <2>3
<1>9. DueIsScore'
  <2> SUFFICES ASSUME NEW t \in alloc'
               PROVE  due'[t] = score'[t] \/ due'[t] = U64
    BY DEF DueIsScore
  <2>1. t \in alloc /\ (due[t] = score[t] \/ due[t] = U64)
    BY <1>8 DEF HInv, DueIsScore
  <2>2. CASE t = cur
    BY <1>3, <1>5, <1>6, <1>8, <2>1, <2>2
  <2>3. CASE t # cur
    BY <1>3, <1>5, <1>8, <2>1, <2>3
  <2> QED
    BY <2>2, <2>3
<1>10. BatchDue'
  BY <1>2, <1>8 DEF HInv, BatchDue
<1>11. Uncalled' /\ RoomLeft' /\ OwedInBatch'
  BY <1>2 DEF HInv, Uncalled, RoomLeft, OwedInBatch
<1>12. NoneLost'
  <2>1. Elements(rest') \subseteq InWalk'
    BY DEF InWalk, SL!Extracted, Elements
  <2> QED
    BY <1>8, <2>1 DEF NoneLost
<1> QED
  BY <1>1, <1>7, <1>9, <1>10, <1>11, <1>12 DEF HInv

(* The walk goes on: with room left it is not broken off.                  *)
LEMMA HAdvanceInv ==
  ASSUME HInv, Advance, owed' = owed \ {cur'},
         calls' = [t \in Timer |->
           IF t = cur' THEN IF calls[t] = 0 THEN 1 ELSE 2
           ELSE IF cur' = NULL THEN 0 ELSE calls[t]],
         UNCHANGED <<due, asked, overrun>>
  PROVE  HInv'
<1>1. IInv /\ IInv'
  BY AdvanceIInv DEF HInv
<1>2. /\ pc = "next" /\ alloc' = alloc /\ cur \in Timer /\ cur # NULL
      /\ pc' = IF cur' = NULL THEN "idle" ELSE "call"
      /\ left' = (IF left >= 0 THEN left - 1 ELSE left) /\ left \in Int
      /\ UNCHANGED <<sl, score>>
  BY <1>1, TimerAssumption DEF Advance, SL!Abandon, SL!NextExtracted, IInv, TypeOK, WalkPlaced
<1>3. /\ alloc \subseteq Elements(sl) \cup Elements(rest) \/ overrun
      /\ Elements(rest) \subseteq Timer /\ rest \in Seq(Timer)
      /\ calls \in [Timer -> {0, 1}] /\ \A t \in Elements(rest) : calls[t] = 0
  BY <1>1, <1>2, Facts DEF HInv, NoneLost, Uncalled
<1>4. HTypeOK' /\ DueIsScore'
  BY <1>2 DEF HInv, HTypeOK, DueIsScore
<1>5. InWalk' = ({cur'} \ {NULL}) \cup Elements(rest')
  BY DEF InWalk, SL!Extracted, Elements
<1>6. CASE cur' = NULL /\ rest' = <<>> /\ (Spent \/ rest = <<>>)
  <2>1. Elements(rest') = {}
    BY <1>6 DEF Elements
  <2>2. overrun \/ Elements(rest) = {}
    <3>1. CASE rest = <<>>
      BY <3>1 DEF Elements
    <3>2. CASE rest # <<>> /\ ~overrun
      <4>1. left < 0 \/ left > Len(rest)
        BY <1>2, <3>2 DEF HInv, RoomLeft
      <4>2. Len(rest) \in Nat \ {0} /\ left \in {0, 1}
        BY <1>3, <1>6, <3>2, EmptySeq DEF Spent
      <4> QED
        BY <4>1, <4>2
    <3> QED
      BY <3>1, <3>2
  <2>3. Uncalled'
    <3>1. NULL \notin Timer
      BY TimerAssumption
    <3> QED
      BY <1>6, <2>1, <3>1 DEF Uncalled
  <2>4. BatchDue' /\ RoomLeft'
    BY <1>2, <1>6, <2>1 DEF BatchDue, RoomLeft
  <2>5. OwedInBatch'
    BY <2>1, <2>2 DEF HInv, OwedInBatch
  <2>6. NoneLost'
    BY <1>2, <1>3, <1>6, <2>2 DEF NoneLost
  <2> QED
    BY <1>1, <1>4, <2>3, <2>4, <2>5, <2>6 DEF HInv
<1>7. CASE ~Spent /\ rest # <<>> /\ cur' = Head(rest) /\ rest' = Tail(rest)
  <2>1. /\ cur' \in Elements(rest) /\ cur' # NULL
        /\ Elements(rest') = Elements(rest) \ {cur'}
        /\ Len(rest) \in Nat \ {0} /\ Len(rest') = Len(rest) - 1
    BY <1>1, <1>3, <1>7, HeadFacts, Facts, TimerAssumption, HeadTailProperties, EmptySeq
  <2>2. Uncalled'
    BY <1>3, <2>1 DEF Uncalled
  <2>3. BatchDue'
    BY <1>2, <2>1 DEF HInv, BatchDue
  <2>4. RoomLeft'
    <3>1. overrun \/ left < 0 \/ left > Len(rest)
      BY <1>2, <1>7 DEF HInv, RoomLeft
    <3>2. overrun \/ left' < 0 \/ left' > Len(rest')
      BY <1>2, <2>1, <3>1
    <3> QED
      BY <3>2 DEF RoomLeft
  <2>5. OwedInBatch'
    BY <2>1 DEF HInv, OwedInBatch
  <2>6. NoneLost'
    BY <1>2, <1>3, <1>5, <2>1 DEF NoneLost
  <2> QED
    BY <1>1, <1>4, <2>2, <2>3, <2>4, <2>5, <2>6 DEF HInv
<1> QED
  BY <1>2, <1>6, <1>7 DEF Advance, SL!Abandon, SL!NextExtracted

(* Every step keeps the invariant.                                         *)
LEMMA HNextInv == HInv /\ [HNext]_<<vars, ghosts>> => HInv'
<1> SUFFICES ASSUME HInv, [HNext]_<<vars, ghosts>> PROVE HInv'
  OBVIOUS
<1>0. now \in Clock
  BY DEF HInv, IInv, TypeOK
<1>1. ASSUME NEW d \in Delay, NEW max \in MaxTimes,
             ExecuteAt(Add(now, d), max), Begin(Add(now, d), max)
      PROVE  HInv'
  <2>1. Add(now, d) \in Nat /\ now' \in Clock
    BY <1>0, <1>1, SumInRange, TimerAssumption DEF ExecuteAt
  <2> QED
    BY <1>1, <2>1, HExecuteInv DEF ExecuteAt
<1>2. ASSUME NEW c \in Clock, NEW max \in MaxTimes, ExecuteNow(c, max), Begin(c, max)
      PROVE  HInv'
  <2>1. c \in Nat /\ now' \in Clock
    BY <1>2, TimerAssumption DEF ExecuteNow
  <2> QED
    BY <1>2, <2>1, HExecuteInv DEF ExecuteNow
<1>3. ASSUME UNCHANGED <<vars, ghosts>> PROVE HInv'
  <2>1. IInv'
    BY <1>0, <1>3, StutterIInv DEF HInv, vars, walk
  <2> QED
    BY <1>3, <2>1 DEF HInv, HTypeOK, DueIsScore, BatchDue, Uncalled, RoomLeft, OwedInBatch,
                      NoneLost, InWalk, SL!Extracted, vars, ghosts
<1> QED
  BY <1>1, <1>2, <1>3, HClientInv, HReturnInv, HAdvanceInv DEF HNext

(* In every reachable state of ep_timer.h with ghosts the invariant holds. *)
THEOREM HistoryInvariance == HSpec => []HInv
<1> QED
  BY HInitInv, HNextInv, PTL DEF HSpec

(***************************************************************************)
(* ep_timer_execute calls no timer before the time it was set for, unless  *)
(* that time did not fit into a uint64_t.                                  *)
(***************************************************************************)
THEOREM NoneEarly == HSpec => []NeverEarly
<1>1. HInv => NeverEarly
  <2> SUFFICES ASSUME HInv, pc = "call" PROVE due[cur] <= asked \/ due[cur] = U64
    BY DEF NeverEarly
  <2>1. cur \in alloc
    BY AliveFacts DEF HInv
  <2> QED
    BY <2>1 DEF HInv, DueIsScore, BatchDue
<1> QED
  BY <1>1, HistoryInvariance, PTL

(***************************************************************************)
(* One ep_timer_execute calls a timer at most once, intervals included,    *)
(* though it reinserts them while it walks.                                *)
(***************************************************************************)
THEOREM EachCalledOnce == HSpec => []OnceEach
<1>1. HInv => OnceEach
  BY DEF HInv, Uncalled, OnceEach
<1> QED
  BY <1>1, HistoryInvariance, PTL

(***************************************************************************)
(* An ep_timer_execute with no more due timers than its max_times calls    *)
(* every one of them that its callbacks do not clear.                      *)
(***************************************************************************)
THEOREM AllDueServed == HSpec => []DueServed
<1>1. HInv => DueServed
  <2>1. HInv /\ pc = "idle" => Elements(rest) = {}
    BY DEF HInv, IInv, WalkPlaced, Elements
  <2> QED
    BY <2>1 DEF HInv, OwedInBatch, DueServed
<1> QED
  BY <1>1, HistoryInvariance, PTL

(***************************************************************************)
(* A timer that is allocated is on the list or in the walk, and so can     *)
(* still run, unless some ep_timer_execute broke off at its max_times.     *)
(***************************************************************************)
THEOREM NoneLostButOverrun == HSpec => []LostOnlyByOverrun
<1>1. HInv => LostOnlyByOverrun
  BY Facts DEF HInv, NoneLost, LostOnlyByOverrun
<1> QED
  BY <1>1, HistoryInvariance, PTL
=============================================================================
