-------------------------- MODULE TaskQueueProofs --------------------------
(***************************************************************************)
(* Proofs about the task queue, for any number of addresses: first that    *)
(* its list stays sound, then that the ring is one ring, that the tasks    *)
(* along it are the queue of FifoTasks, and that a pass serves all.        *)
(*                                                                         *)
(* The list lemmas say what list_add_tail and list_del do to a sound list; *)
(* IInv adds to the invariants what ties the cursor of a pass to the list. *)
(***************************************************************************)
EXTENDS TaskQueueHistory, TLAPS, SequenceTheorems, FiniteSetTheorems,
        WellFoundedInduction

(* Where the cursor can be, beyond CursorOnRing.                           *)
CursorPlaced ==
  /\ mode = "idle" => ~inCb
  /\ mode = "once" => inCb
  /\ mode = "keep" /\ inCb => pos \in Linked

IInv == TypeOK /\ ListSound /\ NoLeak /\ CursorOnRing /\ CursorPlaced

-----------------------------------------------------------------------------
(* list_add_tail puts an unlinked task on the list and moves nothing else: *)
(* the first task stays the first unless the list was empty.               *)
LEMMA ListAddTailSound ==
  ASSUME TypeOK, ListSound, NEW t \in Task \ Linked, ListAddTail(t)
  PROVE  /\ next' \in [Node -> Node \cup {NULL}]
         /\ prev' \in [Node -> Node \cup {NULL}]
         /\ Linked' = Linked \cup {t}
         /\ ListSound'
         /\ next[ListHead] # ListHead => next'[ListHead] = next[ListHead]
<1> USE TaskAssumption DEF Node
<1>1. /\ next \in [Node -> Node \cup {NULL}]
      /\ prev \in [Node -> Node \cup {NULL}]
  BY DEF TypeOK
<1>2. PICK l \in Ring : l = prev[ListHead] /\ next[l] = ListHead
  BY DEF ListSound, Ring
<1>3. l # t /\ t # ListHead /\ t \in Node /\ l \in Node
  BY <1>2 DEF Ring, Linked
<1>4. /\ next' = [next EXCEPT ![l] = t, ![t] = ListHead]
      /\ prev' = [prev EXCEPT ![ListHead] = t, ![t] = l]
  BY <1>2 DEF ListAddTail
<1>5. /\ next' \in [Node -> Node \cup {NULL}]
      /\ prev' \in [Node -> Node \cup {NULL}]
  BY <1>1, <1>3, <1>4
<1>6. \A x \in Node : next'[x] = IF x = t THEN ListHead ELSE IF x = l THEN t ELSE next[x]
  BY <1>1, <1>3, <1>4
<1>7. \A x \in Node : prev'[x] = IF x = t THEN l ELSE IF x = ListHead THEN t ELSE prev[x]
  BY <1>1, <1>3, <1>4
<1>8. Linked' = Linked \cup {t}
  BY <1>2, <1>3, <1>6 DEF Linked, Ring
<1>9. ListSound'
  <2>1. \A x \in Ring : /\ next[x] \in Ring /\ prev[next[x]] = x
                        /\ prev[x] \in Ring /\ next[prev[x]] = x
    BY DEF ListSound
  <2>2. Ring' = Ring \cup {t} /\ Ring \subseteq Node /\ t \notin Ring
    BY <1>3, <1>8 DEF Ring, Linked
  <2>3. ASSUME NEW x \in Ring'
        PROVE  next'[x] \in Ring' /\ prev'[next'[x]] = x
    <3>1. CASE x = t
      BY <3>1, <1>3, <1>6, <1>7, <2>2 DEF Ring
    <3>2. CASE x = l
      BY <3>2, <1>3, <1>6, <1>7, <2>2
    <3>3. CASE x # t /\ x # l
      <4>1. x \in Ring /\ next[x] \in Ring /\ next[x] # t /\ prev[next[x]] = x
        BY <3>3, <2>1, <2>2
      <4>2. next[x] # ListHead
        BY <4>1, <3>3, <1>2
      <4> QED
        BY <4>1, <4>2, <3>3, <1>6, <1>7, <2>2
    <3> QED
      BY <3>1, <3>2, <3>3
  <2>4. ASSUME NEW x \in Ring'
        PROVE  prev'[x] \in Ring' /\ next'[prev'[x]] = x
    <3>1. CASE x = t
      BY <3>1, <1>2, <1>3, <1>6, <1>7, <2>2
    <3>2. CASE x = ListHead
      BY <3>2, <1>3, <1>6, <1>7, <2>2
    <3>3. CASE x # t /\ x # ListHead
      <4>1. x \in Ring /\ prev[x] \in Ring /\ prev[x] # t /\ next[prev[x]] = x
        BY <3>3, <2>1, <2>2
      <4>2. prev[x] # l
        BY <4>1, <3>3, <1>2
      <4> QED
        BY <4>1, <4>2, <3>3, <1>6, <1>7, <2>2
    <3> QED
      BY <3>1, <3>2, <3>3
  <2>5. \A u \in Task \ Linked' : prev'[u] = NULL
    BY <1>3, <1>7, <1>8 DEF ListSound
  <2> QED
    BY <2>3, <2>4, <2>5 DEF ListSound
<1>10. next[ListHead] # ListHead => next'[ListHead] = next[ListHead]
  <2>1. SUFFICES ASSUME next[ListHead] # ListHead
                 PROVE  l # ListHead
    BY <1>3, <1>6
  <2> QED
    BY <2>1, <1>2
<1> QED
  BY <1>5, <1>8, <1>9, <1>10

(* list_del takes a linked task off the list and joins its neighbours.     *)
LEMMA ListDelSound ==
  ASSUME TypeOK, ListSound, NEW t \in Linked, ListDel(t)
  PROVE  /\ next' \in [Node -> Node \cup {NULL}]
         /\ prev' \in [Node -> Node \cup {NULL}]
         /\ Linked' = Linked \ {t}
         /\ ListSound'
         /\ next'[ListHead] = IF next[ListHead] = t THEN next[t] ELSE next[ListHead]
<1> USE TaskAssumption DEF Node
<1>1. /\ next \in [Node -> Node \cup {NULL}]
      /\ prev \in [Node -> Node \cup {NULL}]
  BY DEF TypeOK
<1>2. \A x \in Ring : /\ next[x] \in Ring /\ prev[next[x]] = x
                      /\ prev[x] \in Ring /\ next[prev[x]] = x
  BY DEF ListSound
<1>3. t \in Ring /\ t \in Node /\ t # ListHead /\ Ring \subseteq Node /\ NULL \notin Ring
  BY DEF Ring, Linked
<1>4. PICK p \in Ring, s \in Ring :
        /\ p = prev[t] /\ s = next[t] /\ next[p] = t /\ prev[s] = t
  BY <1>2, <1>3
<1>5. /\ next' = [next EXCEPT ![p] = s, ![t] = NULL]
      /\ prev' = [prev EXCEPT ![s] = p, ![t] = NULL]
  BY <1>4 DEF ListDel
<1>6. /\ next' \in [Node -> Node \cup {NULL}]
      /\ prev' \in [Node -> Node \cup {NULL}]
  BY <1>1, <1>3, <1>4, <1>5
<1>7. \A x \in Node : next'[x] = IF x = t THEN NULL ELSE IF x = p THEN s ELSE next[x]
  BY <1>1, <1>3, <1>5
<1>8. \A x \in Node : prev'[x] = IF x = t THEN NULL ELSE IF x = s THEN p ELSE prev[x]
  BY <1>1, <1>3, <1>5
<1>9. Linked' = Linked \ {t}
  BY <1>3, <1>4, <1>7 DEF Linked, Ring
<1>10. Ring' = Ring \ {t}
  BY <1>3, <1>9 DEF Ring
<1>11. ListSound'
  <2>1. ASSUME NEW x \in Ring'
        PROVE  next'[x] \in Ring' /\ prev'[next'[x]] = x
    <3>1. x \in Ring /\ x # t /\ next[x] \in Ring /\ prev[next[x]] = x
      BY <1>2, <1>10
    <3>2. CASE x = p
      <4>1. s # t
        BY <3>1, <3>2, <1>4
      <4> QED
        BY <4>1, <3>1, <3>2, <1>3, <1>7, <1>8, <1>10
    <3>3. CASE x # p
      <4>1. next[x] # t /\ next[x] # s
        BY <3>1, <3>3, <1>4
      <4> QED
        BY <4>1, <3>1, <3>3, <1>3, <1>7, <1>8, <1>10
    <3> QED
      BY <3>2, <3>3
  <2>2. ASSUME NEW x \in Ring'
        PROVE  prev'[x] \in Ring' /\ next'[prev'[x]] = x
    <3>1. x \in Ring /\ x # t /\ prev[x] \in Ring /\ next[prev[x]] = x
      BY <1>2, <1>10
    <3>2. CASE x = s
      <4>1. p # t
        BY <3>1, <3>2, <1>4
      <4> QED
        BY <4>1, <3>1, <3>2, <1>3, <1>7, <1>8, <1>10
    <3>3. CASE x # s
      <4>1. prev[x] # t /\ prev[x] # p
        BY <3>1, <3>3, <1>4
      <4> QED
        BY <4>1, <3>1, <3>3, <1>3, <1>7, <1>8, <1>10
    <3> QED
      BY <3>2, <3>3
  <2>3. \A u \in Task \ Linked' : prev'[u] = NULL
    BY <1>3, <1>4, <1>8, <1>9 DEF ListSound, Ring
  <2> QED
    BY <2>1, <2>2, <2>3 DEF ListSound
<1>12. next'[ListHead] = IF next[ListHead] = t THEN next[t] ELSE next[ListHead]
  <2>1. ListHead \in Ring /\ next[ListHead] = t => ListHead = p
    BY <1>2, <1>4
  <2> QED
    BY <2>1, <1>3, <1>4, <1>7 DEF Ring
<1> QED
  BY <1>6, <1>9, <1>11, <1>12

-----------------------------------------------------------------------------
(* The empty queue of ep_task_queue_init satisfies the invariant.          *)
LEMMA InitIInv == Init => IInv
<1> SUFFICES ASSUME Init PROVE IInv
  OBVIOUS
<1> USE TaskAssumption DEF Init, Node
<1>1. Linked = {} /\ Ring = {ListHead} /\ Running = {}
  BY DEF Linked, Ring, Running
<1>2. TypeOK
  BY DEF TypeOK, Mode
<1>3. ListSound
  BY <1>1 DEF ListSound
<1> QED
  BY <1>1, <1>2, <1>3 DEF IInv, NoLeak, CursorOnRing, CursorPlaced

(* Between two steps the first task and the one a pass stands on are nodes *)
(* of the ring.                                                            *)
LEMMA RingFacts ==
  ASSUME IInv
  PROVE  /\ Ring \subseteq Node /\ ListHead \in Ring /\ next[ListHead] \in Ring
         /\ \A x \in Ring : next[x] \in Ring
         /\ mode = "run" => n \in Ring
<1>1. /\ Ring \subseteq Node /\ ListHead \in Ring /\ next[ListHead] \in Ring
      /\ \A x \in Ring : next[x] \in Ring
  BY DEF IInv, ListSound, Ring, Linked, Node
<1>2. ASSUME mode = "run" PROVE n \in Ring
  <2>1. CASE inCb
    BY <1>1, <1>2, <2>1 DEF IInv, CursorOnRing
  <2>2. CASE ~inCb
    BY <1>1, <1>2, <2>2 DEF IInv, CursorOnRing
  <2> QED
    BY <2>1, <2>2
<1> QED
  BY <1>1, <1>2

(* A push puts the task behind everything a cursor can point at.           *)
LEMMA PushIInv ==
  ASSUME IInv, NEW t \in Task, Push(t)
  PROVE  IInv'
<1> USE TaskAssumption
<1>1. t \in Task \ Linked
  BY DEF Push, IInv, NoLeak
<1>2. /\ next' \in [Node -> Node \cup {NULL}] /\ prev' \in [Node -> Node \cup {NULL}]
      /\ Linked' = Linked \cup {t} /\ ListSound'
      /\ next[ListHead] # ListHead => next'[ListHead] = next[ListHead]
  BY <1>1, ListAddTailSound DEF IInv, Push
<1>3. alloc' = alloc \cup {t} /\ t \notin alloc /\ ClientRuns
      /\ mode' = mode /\ inCb' = inCb /\ pos' = pos /\ n' = n
  BY DEF Push, cursor
<1>4. TypeOK'
  BY <1>2, <1>3 DEF IInv, TypeOK
<1>5. NoLeak'
  <2>1. Running' = Running
    BY <1>3 DEF Running
  <2> QED
    BY <2>1, <1>2, <1>3 DEF IInv, NoLeak
<1>6. CursorOnRing'
  <2>1. mode = "run" /\ inCb => n \in {next'[ListHead], ListHead}
    BY <1>2 DEF IInv, CursorOnRing
  <2> QED
    BY <2>1, <1>2, <1>3 DEF IInv, CursorOnRing, Ring, ClientRuns
<1>7. CursorPlaced'
  BY <1>2, <1>3 DEF IInv, CursorPlaced
<1> QED
  BY <1>2, <1>4, <1>5, <1>6, <1>7 DEF IInv

(* A cancel that MayCancel allows leaves the node the loop goes on at.     *)
LEMMA CancelIInv ==
  ASSUME SafeCancels, IInv, NEW t \in Task, Cancel(t)
  PROVE  IInv'
<1> USE TaskAssumption
<1>1. t \in Linked /\ ClientRuns
      /\ ~(inCb /\ mode = "run" /\ t = n) /\ ~(inCb /\ mode = "keep" /\ t = pos)
  BY DEF Cancel, MayCancel
<1>2. /\ next' \in [Node -> Node \cup {NULL}] /\ prev' \in [Node -> Node \cup {NULL}]
      /\ Linked' = Linked \ {t} /\ ListSound'
      /\ next'[ListHead] = IF next[ListHead] = t THEN next[t] ELSE next[ListHead]
  BY <1>1, ListDelSound DEF IInv, Cancel
<1>3. alloc' = alloc \ {t}
      /\ mode' = mode /\ inCb' = inCb /\ pos' = pos /\ n' = n
  BY DEF Cancel, Free, cursor
<1>4. TypeOK'
  BY <1>2, <1>3 DEF IInv, TypeOK
<1>5. NoLeak'
  <2>1. Running' = Running /\ t \notin Running
    BY <1>1, <1>3 DEF Running, IInv, NoLeak
  <2> QED
    BY <2>1, <1>2, <1>3 DEF IInv, NoLeak
<1>6. CursorOnRing'
  <2>1. mode = "run" /\ inCb => n \in {next'[ListHead], ListHead}
    BY <1>1, <1>2 DEF IInv, CursorOnRing
  <2>2. mode = "keep" => pos \in (Linked \ {t}) \cup {ListHead}
    BY <1>1 DEF IInv, CursorOnRing, CursorPlaced, Ring, ClientRuns
  <2> QED
    BY <2>1, <2>2, <1>1, <1>2, <1>3 DEF CursorOnRing, Ring, ClientRuns
<1>7. CursorPlaced'
  BY <1>1, <1>2, <1>3 DEF IInv, CursorPlaced
<1> QED
  BY <1>2, <1>4, <1>5, <1>6, <1>7 DEF IInv

(* Taking the first task off the list to call it (run and run_once).       *)
LEMMA TakeFirst ==
  ASSUME IInv, ~inCb, next[ListHead] # ListHead,
         ListDel(next[ListHead]),
         alloc' = alloc, inCb' = TRUE, pos' = next[ListHead],
         mode' \in {"run", "once"}
  PROVE  /\ next' \in [Node -> Node \cup {NULL}] /\ prev' \in [Node -> Node \cup {NULL}]
         /\ ListSound' /\ NoLeak'
         /\ pos' \in Node /\ next'[ListHead] = next[next[ListHead]]
<1> DEFINE t == next[ListHead]
<1>1. t \in Linked /\ t \in Node
  BY RingFacts DEF Ring
<1>2. /\ next' \in [Node -> Node \cup {NULL}] /\ prev' \in [Node -> Node \cup {NULL}]
      /\ Linked' = Linked \ {t} /\ ListSound'
      /\ next'[ListHead] = next[t]
  BY <1>1, ListDelSound DEF IInv
<1>3. Running = {} /\ Running' = {t}
  BY DEF Running
<1>4. NoLeak'
  BY <1>1, <1>2, <1>3 DEF IInv, NoLeak
<1> QED
  BY <1>1, <1>2, <1>4

-----------------------------------------------------------------------------
(* A step that only moves the cursor of a keep pass, or ends a pass.       *)
LEMMA CursorMoves ==
  ASSUME IInv, next' = next, prev' = prev, alloc' = alloc,
         mode \in {"run", "keep", "idle"}, inCb => mode = "keep",
         inCb' \in BOOLEAN, pos' \in Ring, n' \in Node,
         \/ mode' = "keep" /\ (inCb' => pos' \in Linked)
         \/ mode' = "idle" /\ ~inCb'
  PROVE  IInv'
<1>1. Linked' = Linked /\ Ring' = Ring /\ Running = {} /\ Running' = {}
  BY DEF Linked, Ring, Running
<1>2. TypeOK'
  BY RingFacts DEF IInv, TypeOK, Mode
<1>3. ListSound'
  BY <1>1 DEF IInv, ListSound
<1>4. NoLeak'
  BY <1>1 DEF IInv, NoLeak
<1>5. CursorOnRing' /\ CursorPlaced'
  BY <1>1 DEF CursorOnRing, CursorPlaced
<1> QED
  BY <1>2, <1>3, <1>4, <1>5 DEF IInv

(* Every step of a pass keeps the invariant.                               *)
LEMMA LoopIInv == ASSUME IInv, Loop PROVE IInv'
<1> USE TaskAssumption
<1> USE RingFacts
<1>1. CASE RunCall
  <2>1. next[ListHead] = pos /\ pos # ListHead /\ ~inCb /\ mode = "run" /\ n = next[pos]
    BY <1>1 DEF RunCall, IInv, CursorOnRing
  <2>2. ListDel(pos) /\ inCb' = TRUE /\ alloc' = alloc /\ mode' = mode /\ pos' = pos /\ n' = n
    BY <1>1 DEF RunCall
  <2>3. /\ next' \in [Node -> Node \cup {NULL}] /\ prev' \in [Node -> Node \cup {NULL}]
        /\ ListSound' /\ NoLeak'
        /\ pos' \in Node /\ next'[ListHead] = next[next[ListHead]]
    BY <2>1, <2>2, TakeFirst
  <2>4. TypeOK'
    BY <2>2, <2>3 DEF IInv, TypeOK
  <2>5. CursorOnRing' /\ CursorPlaced'
    BY <2>1, <2>2, <2>3 DEF CursorOnRing, CursorPlaced
  <2> QED
    BY <2>3, <2>4, <2>5 DEF IInv
<1>2. CASE RunReturn
  <2>1. mode = "run" /\ inCb /\ n \in {next[ListHead], ListHead} /\ n \in Ring
    BY <1>2 DEF RunReturn, IInv, CursorOnRing
  <2>2. /\ alloc' = alloc \ {pos} /\ inCb' = FALSE /\ pos' = n /\ n' = next[n]
        /\ next' = next /\ prev' = prev /\ mode' = mode
    BY <1>2 DEF RunReturn, Free, SafeStep, list
  <2>3. Linked' = Linked /\ Ring' = Ring /\ Running = {pos} /\ Running' = {}
    BY <2>1, <2>2 DEF Linked, Ring, Running
  <2>4. TypeOK'
    BY <2>1, <2>2 DEF IInv, TypeOK
  <2>5. ListSound'
    BY <2>2, <2>3 DEF IInv, ListSound
  <2>6. NoLeak'
    BY <2>2, <2>3 DEF IInv, NoLeak
  <2>7. CursorOnRing' /\ CursorPlaced'
    BY <2>1, <2>2 DEF CursorOnRing, CursorPlaced
  <2> QED
    BY <2>4, <2>5, <2>6, <2>7 DEF IInv
<1>3. CASE KeepCall
  <2>1. /\ mode = "keep" /\ ~inCb /\ pos \in Linked
        /\ inCb' = TRUE /\ mode' = mode /\ pos' = pos /\ n' = n /\ n \in Node
        /\ next' = next /\ prev' = prev /\ alloc' = alloc
    BY <1>3 DEF KeepCall, list, IInv, TypeOK, CursorOnRing, Ring
  <2>2. pos' \in Ring /\ pos' \in Linked'
    BY <2>1 DEF Ring, Linked
  <2>3. inCb' \in BOOLEAN /\ ~inCb
    BY <2>1
  <2> QED
    BY <2>1, <2>2, <2>3, CursorMoves
<1>4. CASE KeepReturn
  <2>1. /\ mode = "keep" /\ pos \in Linked
        /\ inCb' = FALSE /\ mode' = mode /\ pos' = next[pos] /\ n' = n /\ n \in Node
        /\ next' = next /\ prev' = prev /\ alloc' = alloc
    BY <1>4 DEF KeepReturn, Following, list, IInv, TypeOK, CursorPlaced
  <2>2. pos' \in Ring
    BY <2>1 DEF Ring
  <2>3. inCb' \in BOOLEAN /\ ~inCb'
    BY <2>1
  <2> QED
    BY <2>1, <2>2, <2>3, CursorMoves
<1>5. CASE Finish
  <2>1. /\ mode \in {"run", "keep"} /\ inCb = FALSE /\ pos = ListHead
        /\ inCb' = inCb /\ mode' = "idle" /\ pos' = pos /\ n' = ListHead
        /\ next' = next /\ prev' = prev /\ alloc' = alloc
    BY <1>5 DEF Finish, list, IInv, TypeOK
  <2> QED
    BY <2>1, CursorMoves
<1>6. CASE OnceReturn
  <2>1. /\ mode = "once" /\ inCb /\ mode' = "idle" /\ inCb' = FALSE /\ alloc' = alloc \ {pos}
        /\ next' = next /\ prev' = prev /\ pos' = ListHead /\ n' = n
    BY <1>6 DEF OnceReturn, Free, list, IInv, CursorPlaced
  <2>2. Linked' = Linked /\ Ring' = Ring /\ Running = {pos} /\ Running' = {}
    BY <2>1 DEF Linked, Ring, Running
  <2>3. TypeOK'
    BY <2>1 DEF IInv, TypeOK, Mode, Node
  <2>4. ListSound' /\ NoLeak'
    BY <2>1, <2>2 DEF IInv, ListSound, NoLeak
  <2>5. CursorOnRing' /\ CursorPlaced'
    BY <2>1 DEF CursorOnRing, CursorPlaced
  <2> QED
    BY <2>3, <2>4, <2>5 DEF IInv
<1> QED
  BY <1>1, <1>2, <1>3, <1>4, <1>5, <1>6 DEF Loop

(* Every step of the queue, its loops' and its clients', keeps it.         *)
LEMMA NextIInv == ASSUME SafeCancels, IInv, [Next]_vars PROVE IInv'
<1> USE TaskAssumption
<1>1. ASSUME NEW t \in Task, Push(t) PROVE IInv'
  BY <1>1, PushIInv
<1>2. ASSUME NEW t \in Task, Cancel(t) PROVE IInv'
  BY <1>2, CancelIInv
<1>3. ASSUME NEW m \in {"run", "keep"}, Start(m) PROVE IInv'
  <2>1. /\ mode = "idle" /\ ~inCb /\ mode' = m /\ pos' = next[ListHead]
        /\ n' = IF m = "run" THEN next[pos'] ELSE ListHead
        /\ next' = next /\ prev' = prev /\ alloc' = alloc /\ inCb' = inCb
    BY <1>3 DEF Start, list, IInv, CursorPlaced
  <2>2. Linked' = Linked /\ Ring' = Ring /\ Running = {} /\ Running' = {}
    BY <2>1 DEF Linked, Ring, Running
  <2>3. pos' \in Ring /\ n' \in Ring /\ Ring \subseteq Node
    BY <2>1, RingFacts
  <2>4. TypeOK'
    BY <2>1, <2>3 DEF IInv, TypeOK, Mode
  <2>5. ListSound'
    BY <2>1, <2>2 DEF IInv, ListSound
  <2>6. NoLeak'
    BY <2>1, <2>2 DEF IInv, NoLeak
  <2>7. CursorOnRing' /\ CursorPlaced'
    BY <2>1, <2>2, <2>3 DEF CursorOnRing, CursorPlaced
  <2> QED
    BY <2>4, <2>5, <2>6, <2>7 DEF IInv
<1>4. CASE OnceCall
  <2>1. /\ ~inCb /\ next[ListHead] # ListHead /\ ListDel(next[ListHead])
        /\ alloc' = alloc /\ inCb' = TRUE /\ pos' = next[ListHead] /\ n' = n /\ mode' = "once"
    BY <1>4 DEF OnceCall, IInv, CursorPlaced
  <2>2. /\ next' \in [Node -> Node \cup {NULL}] /\ prev' \in [Node -> Node \cup {NULL}]
        /\ ListSound' /\ NoLeak' /\ pos' \in Node
    BY <2>1, TakeFirst
  <2>3. TypeOK'
    BY <2>1, <2>2 DEF IInv, TypeOK, Mode
  <2>4. CursorOnRing' /\ CursorPlaced'
    BY <2>1 DEF CursorOnRing, CursorPlaced
  <2> QED
    BY <2>2, <2>3, <2>4 DEF IInv
<1>5. CASE Fini
  <2>1. /\ mode = "idle" /\ ~inCb /\ alloc' = alloc \ Linked
        /\ mode' = mode /\ inCb' = inCb /\ pos' = pos /\ n' = n
    BY <1>5 DEF Fini, cursor, IInv, CursorPlaced
  <2>2. /\ next' \in [Node -> Node \cup {NULL}] /\ prev' \in [Node -> Node \cup {NULL}]
        /\ next'[ListHead] = ListHead /\ prev'[ListHead] = ListHead
        /\ \A t \in Task : next'[t] = NULL /\ prev'[t] = NULL
    BY <1>5 DEF Fini, IInv, TypeOK, ListSound, Linked, Node
  <2>3. Linked' = {} /\ Ring' = {ListHead} /\ Running = {} /\ Running' = {}
    BY <2>1, <2>2 DEF Linked, Ring, Running
  <2>4. TypeOK'
    BY <2>1, <2>2 DEF IInv, TypeOK
  <2>5. ListSound'
    BY <2>2, <2>3 DEF ListSound
  <2>6. NoLeak'
    BY <2>1, <2>3 DEF IInv, NoLeak
  <2>7. CursorOnRing' /\ CursorPlaced'
    BY <2>1 DEF CursorOnRing, CursorPlaced
  <2> QED
    BY <2>4, <2>5, <2>6, <2>7 DEF IInv
<1>6. CASE Loop
  BY <1>6, LoopIInv
<1>7. CASE UNCHANGED vars
  BY <1>7 DEF vars, IInv, TypeOK, ListSound, NoLeak, CursorOnRing, CursorPlaced,
              Ring, Linked, Running
<1> QED
  BY <1>1, <1>2, <1>3, <1>4, <1>5, <1>6, <1>7 DEF Next, StartRun, StartKeep

(***************************************************************************)
(* With callbacks that respect MayCancel, IInv is an invariant of the task *)
(* queue.                                                                  *)
(***************************************************************************)
THEOREM Invariance == ASSUME SafeCancels PROVE Spec => []IInv
<1>1. IInv /\ [Next]_vars => IInv'
  BY NextIInv
<1> QED
  BY <1>1, InitIInv, PTL DEF Spec

(* The state of the queue is always well typed.                            *)
THEOREM TypeCorrect == ASSUME SafeCancels PROVE Spec => []TypeOK
<1>1. IInv => TypeOK
  BY DEF IInv
<1> QED
  BY <1>1, Invariance, PTL

(* The list is a doubly linked ring after any mix of pushes, cancels and   *)
(* passes.                                                                 *)
THEOREM ListIsSound == ASSUME SafeCancels PROVE Spec => []ListSound
<1>1. IInv => ListSound
  BY DEF IInv
<1> QED
  BY <1>1, Invariance, PTL

(* Every allocated task is on the list or running; none is both.           *)
THEOREM NothingLeaks == ASSUME SafeCancels PROVE Spec => []NoLeak
<1>1. IInv => NoLeak
  BY DEF IInv
<1> QED
  BY <1>1, Invariance, PTL

(* The cursor of a pass survives what the callbacks push and cancel.       *)
THEOREM CursorStaysOnRing == ASSUME SafeCancels PROVE Spec => []CursorOnRing
<1>1. IInv => CursorOnRing
  BY DEF IInv
<1> QED
  BY <1>1, Invariance, PTL

(* The loops never read freed memory when a callback returns.              *)
THEOREM CursorStaysAlive == ASSUME SafeCancels PROVE Spec => []CursorAlive
<1>1. IInv => CursorAlive
  <2> SUFFICES ASSUME IInv PROVE CursorAlive
    OBVIOUS
  <2>1. Linked \subseteq alloc
    BY DEF IInv, NoLeak
  <2>2. SafeAgainstRemoval
    BY <2>1, RingFacts DEF SafeAgainstRemoval, Ring
  <2> QED
    BY <2>1, <2>2 DEF CursorAlive, IInv, CursorPlaced
<1> QED
  BY <1>1, Invariance, PTL

-----------------------------------------------------------------------------
(* The ring as a sequence                                                  *)

Elements(s) == {s[i] : i \in DOMAIN s}
Once(s) == \A i, j \in DOMAIN s : i # j => s[i] # s[j]

(* What follows position i of a ring that holds q behind its head.         *)
Behind(q, i) == IF i < Len(q) THEN q[i + 1] ELSE ListHead

(* The links lead from the head along q and back to the head.              *)
Along(link, q) ==
  /\ link[ListHead] = Behind(q, 0)
  /\ \A i \in 1 .. Len(q) : link[q[i]] = Behind(q, i)

(* ... and the tasks of q are those that are on it, each there once.       *)
Walk(link, on, q) ==
  q \in Seq(Task) /\ Once(q) /\ Elements(q) = on /\ Along(link, q)

-----------------------------------------------------------------------------
(* A sequence without repetitions is no longer than there are tasks.       *)
LEMMA OnceIsShort ==
  ASSUME NEW q \in Seq(Task), Once(q)
  PROVE  Len(q) <= Cardinality(Task) /\ Cardinality(Task) \in Nat
<1>1. Len(q) \in Nat /\ DOMAIN q = 1 .. Len(q) /\ q \in [1 .. Len(q) -> Task]
  BY LenProperties
<1>2. q \in Injection(1 .. Len(q), Task)
  BY <1>1 DEF Injection, IsInjective, Once
<1>3. Cardinality(1 .. Len(q)) <= Cardinality(Task)
  BY <1>2, TaskFinite, FS_Injection
<1>4. Cardinality(1 .. Len(q)) = Len(q)
  BY <1>1, FS_Interval
<1>5. Cardinality(Task) \in Nat
  BY TaskFinite, FS_CardinalityType
<1> QED
  BY <1>3, <1>4, <1>5

(***************************************************************************)
(* OrderOf is a recursive function: the prefixes of q satisfy its          *)
(* equation, and whatever satisfies it agrees with them (where it did not  *)
(* for the first time the step before would be wrong).                     *)
(***************************************************************************)
LEMMA OrderIs ==
  ASSUME NEW link, NEW q \in Seq(Task), Once(q), Along(link, q)
  PROVE  OrderOf(link) = q
<1> DEFINE C == Cardinality(Task)
           Step(s) == LET x == link[IF s = <<>> THEN ListHead ELSE s[Len(s)]]
                      IN  IF x \in Task THEN Append(s, x) ELSE s
           Body(v) == [k \in 0 .. C |-> IF k = 0 THEN <<>> ELSE Step(v[k - 1])]
           First(k) == SubSeq(q, 1, IF k <= Len(q) THEN k ELSE Len(q))
           w == [k \in 0 .. C |-> First(k)]
           V == CHOOSE v : v = Body(v)
<1>1. C \in Nat /\ Len(q) \in 0 .. C
  BY OnceIsShort, LenProperties
<1> HIDE DEF C
<1>2. First(0) = <<>>
  BY <1>1, SubSeqEmpty
<1>3. ASSUME NEW k \in 1 .. C PROVE First(k) = Step(First(k - 1))
  <2>1. CASE k <= Len(q)
    <3> DEFINE s == SubSeq(q, 1, k - 1)
    <3>1. First(k - 1) = s /\ First(k) = SubSeq(q, 1, k)
      BY <2>1, <1>1
    <3>2. s \in Seq(Task) /\ Len(s) = k - 1 /\ \A i \in 1 .. k - 1 : s[i] = q[i]
      <4>1. \A i \in 1 .. k - 1 : q[i] \in Task
        BY <2>1, <1>1, ElementOfSeq
      <4> QED
        BY <4>1, SubSeqProperties
    <3>3. q[k] \in Task /\ SubSeq(q, 1, k) = s \o <<q[k]>>
      BY <2>1, <1>1, SubSeqRecursiveSecond, ElementOfSeq
    <3> HIDE DEF s
    <3>4. link[IF s = <<>> THEN ListHead ELSE s[Len(s)]] = q[k]
      <4>1. CASE k = 1
        <5>1. s = <<>>
          BY <4>1, <3>2, EmptySeq
        <5> QED
          BY <5>1, <4>1, <2>1, <1>1 DEF Along, Behind
      <4>2. CASE k # 1
        <5>1. s # <<>>
          BY <4>2, <3>2, EmptySeq
        <5>2. s[Len(s)] = q[k - 1]
          BY <4>2, <3>2
        <5>3. k - 1 \in 1 .. Len(q) /\ k - 1 < Len(q) /\ (k - 1) + 1 = k
          BY <4>2, <2>1, <1>1
        <5>4. link[q[k - 1]] = q[k]
          BY <5>3 DEF Along, Behind
        <5> QED
          BY <5>1, <5>2, <5>4
      <4> QED
        BY <4>1, <4>2
    <3>5. Step(s) = Append(s, q[k])
      BY <3>3, <3>4
    <3>6. Append(s, q[k]) = s \o <<q[k]>>
      BY <3>2, <3>3, AppendIsConcat
    <3> QED
      BY <3>1, <3>3, <3>5, <3>6
  <2>2. CASE k > Len(q)
    <3>1. First(k - 1) = q /\ First(k) = q
      <4>1. SubSeq(q, 1, Len(q)) = q
        BY SubSeqFull
      <4>2. \A j \in {k - 1, k} : (IF j <= Len(q) THEN j ELSE Len(q)) = Len(q)
        BY <2>2, <1>1
      <4>3. First(k - 1) = SubSeq(q, 1, Len(q)) /\ First(k) = SubSeq(q, 1, Len(q))
        BY <4>2
      <4> QED
        BY <4>1, <4>3
    <3>2. link[IF q = <<>> THEN ListHead ELSE q[Len(q)]] = ListHead
      <4>1. CASE q = <<>>
        BY <4>1, EmptySeq DEF Along, Behind
      <4>2. CASE q # <<>>
        <5>1. Len(q) \in 1 .. Len(q)
          BY <4>2, EmptySeq
        <5> QED
          BY <4>2, <5>1 DEF Along, Behind
      <4> QED
        BY <4>1, <4>2
    <3>3. Step(q) = q
      BY <3>2, TaskAssumption
    <3> QED
      BY <3>1, <3>3
  <2> QED
    BY <2>1, <2>2, <1>1
<1> HIDE DEF First, Step
<1>4. w = Body(w)
  <2>1. \A k \in 1 .. C : k - 1 \in 0 .. C
    BY <1>1
  <2>2. \A k \in 1 .. C : w[k] = Step(w[k - 1])
    BY <2>1, <1>3
  <2>3. \A k \in 0 .. C : k = 0 \/ k \in 1 .. C
    BY <1>1
  <2>4. \A k \in 0 .. C : w[k] = IF k = 0 THEN <<>> ELSE Step(w[k - 1])
    BY <2>2, <2>3, <1>2
  <2> QED
    BY <2>4
<1>5. V = Body(V)
  <2> HIDE DEF Body, w
  <2> QED
    BY <1>4
<1>6. OrderOf(link) = V[C]
  BY DEF OrderOf, C, Step
<1> HIDE DEF V
<1>7. V[0] = <<>> /\ \A k \in 1 .. C : V[k] = Step(V[k - 1])
  <2>1. \A k \in 0 .. C : V[k] = IF k = 0 THEN <<>> ELSE Step(V[k - 1])
    BY <1>5
  <2> QED
    BY <2>1, <1>1
<1>8. V[C] = First(C)
  <2> DEFINE wrong == {k \in 0 .. C : V[k] # First(k)}
             before == OpToRel(<, Nat)
  <2>1. SUFFICES ASSUME wrong # {} PROVE FALSE
    BY <1>1
  <2>2. wrong \subseteq Nat
    BY <1>1
  <2>3. before = {pair \in Nat \X Nat : pair[1] < pair[2]}
    BY DEF OpToRel
  <2>4. IsWellFoundedOn(before, Nat)
    BY NatLessThanWellFounded
  <2> HIDE DEF before
  <2>5. PICK m \in wrong : \A j \in wrong : ~(<<j, m>> \in before)
    <3> HIDE DEF wrong
    <3> QED
      BY <2>1, <2>2, <2>4, WFMin
  <2>6. \A j \in wrong : ~(j < m)
    BY <2>2, <2>3, <2>5
  <2>7. m \in 1 .. C
    BY <1>1, <1>2, <1>7
  <2>8. m - 1 \in 0 .. C /\ m - 1 < m
    BY <2>7, <1>1
  <2>9. V[m - 1] = First(m - 1)
    BY <2>6, <2>8
  <2>10. V[m] = First(m)
    BY <2>7, <2>9, <1>3, <1>7
  <2> QED
    BY <2>5, <2>10
<1>9. First(C) = q
  <2>1. SubSeq(q, 1, Len(q)) = q
    BY SubSeqFull
  <2>2. (IF C <= Len(q) THEN C ELSE Len(q)) = Len(q)
    BY <1>1
  <2>3. First(C) = SubSeq(q, 1, Len(q))
    BY <2>2 DEF First
  <2> QED
    BY <2>1, <2>3
<1> QED
  BY <1>6, <1>8, <1>9
-----------------------------------------------------------------------------
(* Where the elements are after the removal of position p.                 *)
LEMMA RemoveIs ==
  ASSUME NEW T, NEW q \in Seq(T), NEW p \in 1 .. Len(q)
  PROVE  /\ Fifo!SE!RemoveAt(q, p) \in Seq(T)
         /\ Len(Fifo!SE!RemoveAt(q, p)) = Len(q) - 1
         /\ \A i \in 1 .. Len(q) - 1 : Fifo!SE!RemoveAt(q, p)[i] =
              IF i < p THEN q[i] ELSE q[i + 1]
<1> DEFINE a == SubSeq(q, 1, p - 1)  c == SubSeq(q, p + 1, Len(q))  e == a \o c
<1>0. PICK m \in Nat : m = Len(q)
  BY LenProperties
<1>1. a \in Seq(T) /\ Len(a) = p - 1 /\ \A i \in 1 .. p - 1 : a[i] = q[i]
  <2>1. \A i \in 1 .. p - 1 : q[i] \in T
    BY ElementOfSeq
  <2> QED
    BY <2>1, SubSeqProperties
<1>2. c \in Seq(T) /\ Len(c) = m - p /\ \A i \in 1 .. m - p : c[i] = q[p + i]
  <2>1. \A i \in p + 1 .. Len(q) : q[i] \in T
    BY ElementOfSeq
  <2> QED
    BY <2>1, <1>0, SubSeqProperties
<1> HIDE DEF a, c
<1>3. /\ e \in Seq(T) /\ Len(e) = Len(a) + Len(c)
      /\ \A i \in 1 .. Len(a) + Len(c) : e[i] = IF i <= Len(a) THEN a[i] ELSE c[i - Len(a)]
  BY <1>1, <1>2, ConcatProperties
<1>4. Fifo!SE!RemoveAt(q, p) = e
  BY DEF Fifo!SE!RemoveAt, a, c, e
<1> HIDE DEF e
<1>5. Len(e) = m - 1 /\ p \in 1 .. m
  BY <1>0, <1>1, <1>2, <1>3
<1>6. ASSUME NEW i \in 1 .. m - 1
      PROVE  e[i] = IF i < p THEN q[i] ELSE q[i + 1]
  <2>1. e[i] = IF i <= p - 1 THEN a[i] ELSE c[i - (p - 1)]
    BY <1>1, <1>2, <1>3, <1>5
  <2>2. CASE i < p
    BY <2>1, <2>2, <1>1, <1>5
  <2>3. CASE i >= p
    <3>1. PICK j \in 1 .. m - p : j = i - (p - 1)
      BY <2>3, <1>5
    <3>2. e[i] = c[j] /\ p + j = i + 1
      BY <2>1, <2>3, <3>1, <1>5
    <3>3. c[j] = q[p + j]
      BY <1>2
    <3> QED
      BY <2>3, <3>2, <3>3, <1>5
  <2> QED
    BY <2>2, <2>3, <1>5
<1> QED
  BY <1>0, <1>3, <1>4, <1>5, <1>6

(* Tail is the removal of the first position.                              *)
LEMMA TailIs ==
  ASSUME NEW T, NEW q \in Seq(T), q # <<>>
  PROVE  Fifo!SE!RemoveAt(q, 1) = Tail(q)
<1> DEFINE r == Fifo!SE!RemoveAt(q, 1)
<1>0. PICK m \in Nat : m = Len(q) /\ m # 0
  BY LenProperties, EmptySeq
<1>1. 1 \in 1 .. Len(q)
  BY <1>0
<1>2. r \in Seq(T) /\ Len(r) = m - 1 /\ \A i \in 1 .. m - 1 : r[i] = IF i < 1 THEN q[i] ELSE q[i + 1]
  BY <1>0, <1>1, RemoveIs
<1>3. Tail(q) \in Seq(T) /\ Len(Tail(q)) = m - 1 /\ \A i \in 1 .. m - 1 : Tail(q)[i] = q[i + 1]
  BY <1>0, HeadTailProperties
<1> HIDE DEF r
<1>4. \A i \in 1 .. Len(r) : r[i] = Tail(q)[i]
  BY <1>0, <1>2, <1>3
<1>5. r = Tail(q)
  BY <1>2, <1>3, <1>4, SeqEqual
<1> QED
  BY <1>5 DEF r

-----------------------------------------------------------------------------
(* The last task of a sound ring is the prev of its head, the first one of *)
(* its own prev's successors, and so on: what prev says along q.           *)
LEMMA BackAlong ==
  ASSUME ListSound, NEW q, Walk(next, Linked, q)
  PROVE  /\ prev[ListHead] = IF q = <<>> THEN ListHead ELSE q[Len(q)]
         /\ \A i \in 1 .. Len(q) : prev[q[i]] = IF i = 1 THEN ListHead ELSE q[i - 1]
<1>1. /\ q \in Seq(Task) /\ Len(q) \in Nat /\ DOMAIN q = 1 .. Len(q)
      /\ (q = <<>> <=> Len(q) = 0)
  BY LenProperties, EmptySeq DEF Walk
<1>2. \A i \in 1 .. Len(q) : q[i] \in Ring
  BY <1>1 DEF Walk, Elements, Ring
<1>3. \A x \in Ring : prev[next[x]] = x
  BY DEF ListSound
<1>4. ListHead \in Ring
  BY DEF Ring
<1>5. ASSUME NEW i \in 1 .. Len(q) PROVE prev[q[i]] = IF i = 1 THEN ListHead ELSE q[i - 1]
  <2>1. CASE i = 1
    <3>1. next[ListHead] = q[i]
      BY <2>1, <1>1 DEF Walk, Along, Behind
    <3> QED
      BY <2>1, <3>1, <1>3, <1>4
  <2>2. CASE i # 1
    <3>1. i - 1 \in 1 .. Len(q) /\ i - 1 < Len(q) /\ (i - 1) + 1 = i
      BY <2>2, <1>1
    <3>2. next[q[i - 1]] = q[i]
      BY <3>1 DEF Walk, Along, Behind
    <3>3. q[i - 1] \in Ring
      BY <3>1, <1>2
    <3> QED
      BY <2>2, <3>2, <3>3, <1>3
  <2> QED
    BY <2>1, <2>2
<1>6. prev[ListHead] = IF q = <<>> THEN ListHead ELSE q[Len(q)]
  <2>1. CASE q = <<>>
    <3>1. next[ListHead] = ListHead
      BY <2>1, <1>1 DEF Walk, Along, Behind
    <3> QED
      BY <2>1, <3>1, <1>3, <1>4
  <2>2. CASE q # <<>>
    <3>1. Len(q) \in 1 .. Len(q)
      BY <2>2, <1>1
    <3>2. next[q[Len(q)]] = ListHead
      BY <3>1 DEF Walk, Along, Behind
    <3>3. q[Len(q)] \in Ring
      BY <3>1, <1>2
    <3> QED
      BY <2>2, <3>2, <3>3, <1>3
  <2> QED
    BY <2>1, <2>2
<1> QED
  BY <1>5, <1>6

(* list_add_tail appends to the walk.                                      *)
LEMMA AddTailWalk ==
  ASSUME TypeOK, ListSound, NEW q, Walk(next, Linked, q),
         NEW t \in Task \ Linked, ListAddTail(t)
  PROVE  Walk(next', Linked', Append(q, t))
<1> DEFINE r == Append(q, t)
<1>0. PICK m \in Nat : m = Len(q)
  BY LenProperties DEF Walk
<1>1. q \in Seq(Task) /\ DOMAIN q = 1 .. m /\ (q = <<>> <=> m = 0)
  BY <1>0, LenProperties, EmptySeq DEF Walk
<1>a. /\ next[ListHead] = IF 0 < m THEN q[1] ELSE ListHead
      /\ \A i \in 1 .. m : next[q[i]] = IF i < m THEN q[i + 1] ELSE ListHead
  BY <1>0 DEF Walk, Along, Behind
<1>2. /\ r \in Seq(Task) /\ Len(r) = m + 1 /\ DOMAIN r = 1 .. m + 1
      /\ \A i \in 1 .. m : r[i] = q[i]
      /\ r[m + 1] = t
  BY <1>0, <1>1, AppendProperties, LenProperties
<1> HIDE DEF r
<1>3. \A i \in 1 .. m : q[i] \in Linked /\ q[i] # t
  BY <1>1 DEF Walk, Elements
<1>4. Once(r)
  BY <1>1, <1>2, <1>3 DEF Once, Walk
<1>5. Linked' = Linked \cup {t}
  BY ListAddTailSound
<1>6. Elements(r) = Linked'
  <2>1. \A i \in 1 .. m + 1 : i \in 1 .. m \/ i = m + 1
    BY <1>1
  <2>2. 1 .. m \subseteq 1 .. m + 1 /\ m + 1 \in 1 .. m + 1
    BY <1>1
  <2>3. ASSUME NEW u PROVE u \in Elements(r) <=> u \in Elements(q) \/ u = t
    BY <2>1, <2>2, <1>1, <1>2 DEF Elements
  <2> QED
    BY <2>3, <1>5 DEF Walk
<1>7. Along(next', r)
  <2> DEFINE l == prev[ListHead]
  <2>1. l = IF q = <<>> THEN ListHead ELSE q[m]
    BY <1>0, BackAlong
  <2> HIDE DEF l
  <2>2. next' = [next EXCEPT ![l] = t, ![t] = ListHead]
    BY DEF ListAddTail, l
  <2>3. \A i \in 1 .. m : q[i] \in Node
    BY <1>3 DEF Linked, Node
  <2>4. l \in Node /\ l # t /\ t \in Node /\ t # ListHead /\ ListHead \in Node
    <3>1. q # <<>> => m \in 1 .. m
      BY <1>1
    <3> QED
      BY <3>1, <2>1, <2>3, <1>3, TaskAssumption DEF Node
  <2>5. \A x \in Node : next'[x] = IF x = t THEN ListHead ELSE IF x = l THEN t ELSE next[x]
    BY <2>2, <2>4 DEF TypeOK
  <2>6. next'[ListHead] = Behind(r, 0)
    <3>1. CASE q = <<>>
      <4>1. l = ListHead /\ m = 0
        BY <3>1, <2>1, <1>1
      <4>2. next'[ListHead] = t
        BY <4>1, <2>4, <2>5
      <4>3. Behind(r, 0) = t
        BY <4>1, <1>2 DEF Behind
      <4> QED
        BY <4>2, <4>3
    <3>2. CASE q # <<>>
      <4>1. l # ListHead /\ 1 \in 1 .. m
        <5>1. m \in 1 .. m
          BY <3>2, <1>1
        <5>2. q[m] # ListHead
          BY <5>1, <1>3, TaskAssumption DEF Linked
        <5> QED
          BY <5>1, <5>2, <3>2, <2>1
      <4>2. next'[ListHead] = next[ListHead]
        BY <4>1, <2>4, <2>5
      <4>3. next[ListHead] = q[1]
        BY <4>1, <1>a
      <4>4. Behind(r, 0) = q[1]
        BY <4>1, <1>1, <1>2 DEF Behind
      <4> QED
        BY <4>2, <4>3, <4>4
    <3> QED
      BY <3>1, <3>2
  <2>7. ASSUME NEW i \in 1 .. m + 1 PROVE next'[r[i]] = Behind(r, i)
    <3>1. CASE i = m + 1
      <4>1. r[i] = t /\ Behind(r, i) = ListHead
        BY <3>1, <1>1, <1>2 DEF Behind
      <4> QED
        BY <4>1, <2>4, <2>5
    <3>2. CASE i = m
      <4>1. r[i] = q[i] /\ q # <<>> /\ i \in 1 .. m
        BY <3>2, <1>1, <1>2
      <4>2. r[i] = l
        BY <4>1, <3>2, <2>1
      <4>3. Behind(r, i) = t
        BY <3>2, <1>1, <1>2 DEF Behind
      <4> QED
        BY <4>2, <4>3, <2>4, <2>5
    <3>3. CASE i < m
      <4>1. i \in 1 .. m /\ i + 1 \in 1 .. m /\ m \in 1 .. m /\ i # m
        BY <3>3, <1>1, <1>2
      <4>2. r[i] = q[i] /\ q[i] # t /\ q[i] \in Node
        BY <4>1, <1>2, <1>3, <2>3
      <4>3. q[i] # l
        BY <4>1, <1>1, <2>1 DEF Walk, Once
      <4>4. next'[r[i]] = next[q[i]]
        BY <4>2, <4>3, <2>5
      <4>5. next[q[i]] = q[i + 1]
        BY <3>3, <4>1, <1>a
      <4>6. Behind(r, i) = q[i + 1]
        BY <3>3, <4>1, <1>1, <1>2 DEF Behind
      <4> QED
        BY <4>4, <4>5, <4>6
    <3> QED
      BY <3>1, <3>2, <3>3, <1>1, <1>2
  <2>8. \A i \in 1 .. Len(r) : next'[r[i]] = Behind(r, i)
    BY <2>7, <1>2
  <2> QED
    BY <2>6, <2>8 DEF Along
<1> QED
  BY <1>2, <1>4, <1>6, <1>7 DEF Walk, r

(* list_del takes the task it is given out of the walk.                    *)
LEMMA DelWalk ==
  ASSUME TypeOK, ListSound, NEW q, Walk(next, Linked, q),
         NEW p \in 1 .. Len(q), ListDel(q[p])
  PROVE  Walk(next', Linked', Fifo!SE!RemoveAt(q, p))
<1> DEFINE r == Fifo!SE!RemoveAt(q, p)
<1>0. PICK m \in Nat : m = Len(q)
  BY LenProperties DEF Walk
<1>1. q \in Seq(Task) /\ DOMAIN q = 1 .. m /\ p \in 1 .. m
  BY <1>0, LenProperties DEF Walk
<1>2. /\ next[ListHead] = IF 0 < m THEN q[1] ELSE ListHead
      /\ \A i \in 1 .. m : next[q[i]] = IF i < m THEN q[i + 1] ELSE ListHead
  BY <1>0 DEF Walk, Along, Behind
<1>3. /\ r \in Seq(Task) /\ Len(r) = m - 1 /\ DOMAIN r = 1 .. m - 1
      /\ \A i \in 1 .. m - 1 : r[i] = IF i < p THEN q[i] ELSE q[i + 1]
  <2>1. /\ r \in Seq(Task) /\ Len(r) = m - 1
        /\ \A i \in 1 .. m - 1 : r[i] = IF i < p THEN q[i] ELSE q[i + 1]
    BY <1>0, <1>1, RemoveIs
  <2> QED
    BY <2>1, LenProperties
<1> HIDE DEF r
<1>4. \A i, j \in 1 .. m : q[i] = q[j] => i = j
  BY <1>1 DEF Walk, Once
<1>5. \A i \in 1 .. m : q[i] \in Linked /\ q[i] \in Task /\ q[i] \in Node /\ q[i] # ListHead
  <2>1. \A i \in 1 .. m : q[i] \in Linked
    BY <1>1 DEF Walk, Elements
  <2> QED
    BY <2>1, TaskAssumption DEF Linked, Node
<1>6. Once(r)
  <2>1. ASSUME NEW i \in 1 .. m - 1, NEW j \in 1 .. m - 1, r[i] = r[j] PROVE i = j
    <3> DEFINE At(k) == IF k < p THEN k ELSE k + 1
    <3>1. \A k \in 1 .. m - 1 : At(k) \in 1 .. m /\ r[k] = q[At(k)]
      BY <1>1, <1>3
    <3>2. At(i) = At(j)
      <4> HIDE DEF At
      <4> QED
        BY <2>1, <3>1, <1>4
    <3> QED
      BY <3>2, <1>1
  <2> QED
    BY <2>1, <1>3 DEF Once
<1>7. q[p] \in Linked /\ Linked' = Linked \ {q[p]}
  <2>1. q[p] \in Linked
    BY <1>1, <1>5
  <2> QED
    BY <2>1, ListDelSound
<1>8. Elements(r) = Linked'
  <2>1. ASSUME NEW u \in Elements(r) PROVE u \in Linked /\ u # q[p]
    <3>1. PICK k \in 1 .. m - 1 : u = r[k]
      BY <1>3 DEF Elements
    <3>2. PICK j \in 1 .. m : j # p /\ u = q[j]
      BY <3>1, <1>1, <1>3
    <3> QED
      BY <3>2, <1>1, <1>4, <1>5
  <2>2. ASSUME NEW u \in Linked, u # q[p] PROVE u \in Elements(r)
    <3>1. PICK j \in 1 .. m : u = q[j]
      BY <1>1 DEF Elements, Walk
    <3>2. j # p
      BY <2>2, <3>1
    <3>3. PICK k \in 1 .. m - 1 : r[k] = q[j]
      <4>1. CASE j < p
        <5>1. j \in 1 .. m - 1 /\ r[j] = q[j]
          BY <4>1, <1>1, <1>3
        <5> QED
          BY <5>1
      <4>2. CASE j > p
        <5>1. j - 1 \in 1 .. m - 1 /\ ~(j - 1 < p) /\ (j - 1) + 1 = j
          BY <4>2, <1>1
        <5>2. r[j - 1] = q[j]
          BY <5>1, <1>3
        <5> QED
          BY <5>1, <5>2
      <4> QED
        BY <3>2, <4>1, <4>2, <1>1
    <3> QED
      BY <3>1, <3>3, <1>3 DEF Elements
  <2> QED
    BY <2>1, <2>2, <1>7
<1>9. Along(next', r)
  <2> DEFINE l == prev[q[p]]
             s == IF p < m THEN q[p + 1] ELSE ListHead
  <2>1. l = IF p = 1 THEN ListHead ELSE q[p - 1]
    BY <1>0, <1>1, BackAlong
  <2>2. next[q[p]] = s
    BY <1>1, <1>2
  <2> HIDE DEF l, s
  <2>3. next' = [next EXCEPT ![l] = s, ![q[p]] = NULL]
    BY <2>2 DEF ListDel, l
  <2>4. p # 1 => p - 1 \in 1 .. m
    BY <1>1
  <2>5. l \in Node /\ l # q[p] /\ q[p] \in Node /\ ListHead \in Node
    <3>1. CASE p = 1
      BY <3>1, <2>1, <1>1, <1>5 DEF Node
    <3>2. CASE p # 1
      <4>1. l = q[p - 1] /\ p - 1 \in 1 .. m /\ p - 1 # p
        BY <3>2, <2>1, <2>4, <1>1
      <4> QED
        BY <4>1, <1>1, <1>4, <1>5 DEF Node
    <3> QED
      BY <3>1, <3>2
  <2>6. \A x \in Node : next'[x] = IF x = q[p] THEN NULL ELSE IF x = l THEN s ELSE next[x]
    BY <2>3, <2>5 DEF TypeOK
  <2>7. next'[ListHead] = IF 0 < m - 1 THEN r[1] ELSE ListHead
    <3>1. CASE p = 1
      <4>1. next'[ListHead] = s
        BY <3>1, <2>1, <2>5, <2>6, <1>1, <1>5
      <4>2. s = IF 0 < m - 1 THEN r[1] ELSE ListHead
        BY <3>1, <1>1, <1>3 DEF s
      <4> QED
        BY <4>1, <4>2
    <3>2. CASE p # 1
      <4>1. l # ListHead /\ ListHead # q[p]
        BY <3>2, <2>1, <2>4, <1>1, <1>5
      <4>2. next'[ListHead] = next[ListHead]
        BY <4>1, <2>5, <2>6
      <4>3. next[ListHead] = q[1] /\ 0 < m - 1 /\ r[1] = q[1]
        BY <3>2, <1>1, <1>2, <1>3
      <4> QED
        BY <4>2, <4>3
    <3> QED
      BY <3>1, <3>2
  <2>8. ASSUME NEW i \in 1 .. m - 1
        PROVE  next'[r[i]] = IF i < m - 1 THEN r[i + 1] ELSE ListHead
    <3>1. CASE i < p - 1
      <4>1. /\ i \in 1 .. m /\ p - 1 \in 1 .. m /\ i # p - 1 /\ i # p /\ i < m /\ p # 1
            /\ r[i] = q[i] /\ i < m - 1 /\ r[i + 1] = q[i + 1]
        BY <3>1, <1>1, <1>3
      <4>2. q[i] # l /\ q[i] # q[p]
        BY <4>1, <2>1, <1>1, <1>4
      <4>3. next'[r[i]] = next[q[i]]
        BY <4>1, <4>2, <2>6, <1>5
      <4>4. next[q[i]] = q[i + 1]
        BY <4>1, <1>2
      <4> QED
        BY <4>1, <4>3, <4>4
    <3>2. CASE i = p - 1
      <4>1. i \in 1 .. m /\ p # 1 /\ r[i] = q[i] /\ q[i] = l
        BY <3>2, <2>1, <1>1, <1>3
      <4>2. next'[r[i]] = s
        BY <4>1, <2>5, <2>6
      <4>3. s = IF i < m - 1 THEN r[i + 1] ELSE ListHead
        <5>1. p < m => i < m - 1 /\ r[i + 1] = q[p + 1]
          BY <3>2, <1>1, <1>3
        <5>2. ~(p < m) => ~(i < m - 1)
          BY <3>2, <1>1
        <5> QED
          BY <5>1, <5>2 DEF s
      <4> QED
        BY <4>2, <4>3
    <3>3. CASE i >= p
      <4>1. i + 1 \in 1 .. m /\ i + 1 # p /\ i + 1 # p - 1 /\ r[i] = q[i + 1]
        BY <3>3, <1>1, <1>3
      <4>2. q[i + 1] # l
        <5>1. CASE p = 1
          BY <5>1, <4>1, <2>1, <1>5
        <5>2. CASE p # 1
          BY <5>2, <4>1, <2>1, <2>4, <1>4
        <5> QED
          BY <5>1, <5>2
      <4>3. next'[r[i]] = next[q[i + 1]]
        BY <4>1, <4>2, <2>6, <1>1, <1>4, <1>5
      <4>4. next[q[i + 1]] = IF i + 1 < m THEN q[(i + 1) + 1] ELSE ListHead
        BY <4>1, <1>2
      <4>5. i < m - 1 => i + 1 < m /\ r[i + 1] = q[(i + 1) + 1]
        BY <3>3, <1>1, <1>3
      <4>6. ~(i < m - 1) => ~(i + 1 < m)
        BY <1>1
      <4> QED
        BY <4>3, <4>4, <4>5, <4>6
    <3> QED
      BY <3>1, <3>2, <3>3, <1>1
  <2>9. \A i \in 1 .. Len(r) : next'[r[i]] = Behind(r, i)
    BY <2>8, <1>3 DEF Behind
  <2>10. next'[ListHead] = Behind(r, 0)
    BY <2>7, <1>3 DEF Behind
  <2> QED
    BY <2>9, <2>10 DEF Along
<1> QED
  BY <1>3, <1>6, <1>8, <1>9 DEF Walk, r

-----------------------------------------------------------------------------
(* The ring leads through the tasks that are on the list, in Order, and    *)
(* through no others: this is what ListSound, which speaks of neighbours   *)
(* only, does not say, and what it takes to call the list a queue.         *)
OneRing == Walk(next, Linked, Order)

RInv == IInv /\ OneRing

(* A walk is the only one its links lead along.                            *)
LEMMA WalkIsOrder ==
  ASSUME NEW link, NEW on, NEW q, Walk(link, on, q)
  PROVE  OrderOf(link) = q
BY OrderIs DEF Walk

(* What FifoTasks asks of its queue, said of the pointers.                 *)
LEMMA FirstIs ==
  ASSUME NEW link, NEW on, NEW q, Walk(link, on, q)
  PROVE  Fifo!First(q) = TaskOrNone(link[ListHead])
<1>0. PICK m \in Nat : m = Len(q)
  BY LenProperties DEF Walk
<1>1. q \in Seq(Task) /\ (q = <<>> <=> m = 0)
  BY <1>0, EmptySeq DEF Walk
<1>2. link[ListHead] = IF 0 < m THEN q[1] ELSE ListHead
  BY <1>0 DEF Walk, Along, Behind
<1>3. CASE m = 0
  BY <1>1, <1>2, <1>3, TaskAssumption DEF Fifo!First, TaskOrNone
<1>4. CASE m # 0
  <2>1. 1 \in 1 .. Len(q)
    BY <1>0, <1>4
  <2>2. q[1] \in Task
    BY <1>1, <2>1, ElementOfSeq
  <2>3. Head(q) = q[1] /\ q # <<>>
    BY <1>1, <1>4
  <2> QED
    BY <2>2, <2>3, <1>2, <1>4 DEF Fifo!First, TaskOrNone
<1> QED
  BY <1>3, <1>4

LEMMA QueueIs ==
  ASSUME RInv
  PROVE  /\ Order \in Seq(Task)
         /\ Fifo!Queued = Linked
         /\ Fifo!First(Order) = TaskOrNone(next[ListHead])
         /\ Order = <<>> <=> next[ListHead] = ListHead
<1>1. Walk(next, Linked, Order)
  BY DEF RInv, OneRing
<1>2. Order \in Seq(Task)
  BY <1>1 DEF Walk
<1>3. Fifo!Queued = Linked
  BY <1>1 DEF Walk, Elements, Fifo!Queued
<1>4. Fifo!First(Order) = TaskOrNone(next[ListHead])
  BY <1>1, FirstIs
<1>5. Order = <<>> <=> next[ListHead] = ListHead
  <2>0. PICK m \in Nat : m = Len(Order)
    BY <1>2, LenProperties
  <2>1. Order = <<>> <=> m = 0
    BY <2>0, <1>2, EmptySeq
  <2>2. next[ListHead] = IF 0 < m THEN Order[1] ELSE ListHead
    BY <2>0, <1>1 DEF Walk, Along, Behind
  <2>3. m # 0 => Order[1] \in Task
    <3>1. m # 0 => 1 \in 1 .. Len(Order)
      BY <2>0
    <3> QED
      BY <3>1, <1>2, ElementOfSeq
  <2> QED
    BY <2>1, <2>2, <2>3, TaskAssumption
<1> QED
  BY <1>2, <1>3, <1>4, <1>5

(* The task after t on the queue is next[t].                               *)
LEMMA AfterIs ==
  ASSUME RInv, NEW t \in Linked
  PROVE  Fifo!After(t) = TaskOrNone(next[t])
<1>0. PICK m \in Nat : m = Len(Order)
  BY QueueIs, LenProperties
<1>1. Walk(next, Linked, Order) /\ DOMAIN Order = 1 .. m
  BY <1>0, QueueIs, LenProperties DEF RInv, OneRing
<1>2. PICK p \in 1 .. m : Order[p] = t
  BY <1>1 DEF Walk, Elements
<1>3. \A i, j \in 1 .. m : Order[i] = Order[j] => i = j
  BY <1>1 DEF Walk, Once
<1>4. next[t] = IF p < m THEN Order[p + 1] ELSE ListHead
  BY <1>0, <1>1, <1>2 DEF Walk, Along, Behind
<1> DEFINE later == {i \in DOMAIN Order : i > 1 /\ Order[i - 1] = t}
<1>5. \A i \in later : i = p + 1 /\ p < m
  <2> TAKE i \in later
  <2>1. i - 1 \in 1 .. m /\ Order[i - 1] = Order[p] /\ i \in 1 .. m
    BY <1>1, <1>2
  <2>2. i - 1 = p
    BY <2>1, <1>3
  <2> QED
    BY <2>1, <2>2
<1>6. CASE p < m
  <2>1. p + 1 \in later
    BY <1>1, <1>2, <1>6
  <2>2. (CHOOSE i \in later : TRUE) = p + 1
    <3> HIDE DEF later
    <3> QED
      BY <2>1, <1>5
  <2>3. Fifo!After(t) = Order[p + 1]
    BY <2>1, <2>2 DEF Fifo!After
  <2>4. Order[p + 1] \in Task
    <3>1. p + 1 \in 1 .. Len(Order)
      BY <1>0, <1>6
    <3> QED
      BY <3>1, QueueIs, ElementOfSeq
  <2> QED
    BY <2>3, <2>4, <1>4, <1>6 DEF TaskOrNone
<1>7. CASE ~(p < m)
  <2>1. later = {}
    BY <1>5, <1>7
  <2>2. Fifo!After(t) = NULL
    BY <2>1 DEF Fifo!After
  <2> QED
    BY <2>2, <1>4, <1>7, TaskAssumption DEF TaskOrNone
<1> QED
  BY <1>6, <1>7

-----------------------------------------------------------------------------
(* What the steps do to the walk.                                          *)
LEMMA InitOneRing == Init => OneRing /\ Order = <<>>
<1> SUFFICES ASSUME Init PROVE Walk(next, Linked, <<>>)
  BY WalkIsOrder DEF Order, OneRing
<1>1. next[ListHead] = ListHead /\ Linked = {}
  BY TaskAssumption DEF Init, Linked, Node
<1>2. <<>> \in Seq(Task) /\ Len(<<>>) = 0 /\ DOMAIN <<>> = {}
  BY EmptySeq
<1>3. Once(<<>>) /\ Elements(<<>>) = Linked
  BY <1>1, <1>2 DEF Once, Elements
<1>4. Along(next, <<>>)
  BY <1>1, <1>2 DEF Along, Behind
<1> QED
  BY <1>2, <1>3, <1>4 DEF Walk

(* The next walk is the next Order.                                        *)
LEMMA NextWalk ==
  ASSUME NEW q, Walk(next', Linked', q)
  PROVE  OneRing' /\ Order' = q
<1>1. OrderOf(next') = q
  BY WalkIsOrder
<1> QED
  BY <1>1 DEF Order, OneRing

LEMMA SameWalk ==
  ASSUME RInv, next' = next
  PROVE  OneRing' /\ Order' = Order
<1>1. Walk(next', Linked', Order)
  BY DEF RInv, OneRing, Linked
<1> QED
  BY <1>1, NextWalk

LEMMA PushWalk ==
  ASSUME RInv, NEW t \in Task, Push(t)
  PROVE  OneRing' /\ Order' = Append(Order, t) /\ t \notin Linked
<1>1. t \in Task \ Linked /\ ListAddTail(t)
  BY DEF Push, RInv, IInv, NoLeak
<1>2. Walk(next', Linked', Append(Order, t))
  BY <1>1, AddTailWalk DEF RInv, IInv, OneRing
<1> QED
  BY <1>1, <1>2, NextWalk

(* Where a linked task is on the queue.                                    *)
LEMMA LinkedAt ==
  ASSUME RInv, NEW t \in Linked
  PROVE  \E i \in 1 .. Len(Order) : i \in DOMAIN Order /\ Order[i] = t
<1>1. Walk(next, Linked, Order) /\ DOMAIN Order = 1 .. Len(Order)
  BY QueueIs, LenProperties DEF RInv, OneRing
<1> QED
  BY <1>1 DEF Walk, Elements

LEMMA DeletionWalk ==
  ASSUME RInv, NEW i \in 1 .. Len(Order), ListDel(Order[i])
  PROVE  OneRing' /\ Order' = Fifo!SE!RemoveAt(Order, i)
<1>1. Walk(next', Linked', Fifo!SE!RemoveAt(Order, i))
  BY DelWalk DEF RInv, IInv, OneRing
<1> QED
  BY <1>1, NextWalk

(* The deletion of the first task.                                         *)
LEMMA FirstWalk ==
  ASSUME RInv, next[ListHead] # ListHead, ListDel(next[ListHead])
  PROVE  /\ OneRing' /\ Order' = Tail(Order) /\ Order # <<>>
         /\ next[ListHead] \in Linked /\ Head(Order) = next[ListHead]
<1>1. next[ListHead] \in Linked
  <2>1. next[ListHead] \in Ring
    BY RingFacts DEF RInv
  <2> QED
    BY <2>1 DEF Ring
<1>2. Order # <<>> /\ Order \in Seq(Task)
  BY QueueIs
<1>3. Head(Order) = next[ListHead]
  <2>1. Fifo!First(Order) = next[ListHead]
    BY <1>1, QueueIs DEF TaskOrNone, Linked
  <2> QED
    BY <2>1, <1>2 DEF Fifo!First
<1>4. 1 \in 1 .. Len(Order) /\ Order[1] = next[ListHead]
  <2>1. Len(Order) \in Nat \ {0}
    BY <1>2, EmptySeq
  <2>2. Head(Order) = Order[1]
    BY <1>2
  <2> QED
    BY <2>1, <2>2, <1>3
<1>5. OneRing' /\ Order' = Fifo!SE!RemoveAt(Order, 1)
  BY <1>4, DeletionWalk
<1> QED
  BY <1>1, <1>2, <1>3, <1>5, TailIs

LEMMA FiniWalk ==
  ASSUME RInv, Fini
  PROVE  OneRing' /\ Order' = <<>>
<1>1. next'[ListHead] = ListHead /\ Linked' = {}
  BY TaskAssumption DEF Fini, RInv, IInv, TypeOK, Linked, Node
<1>2. <<>> \in Seq(Task) /\ Len(<<>>) = 0 /\ DOMAIN <<>> = {}
  BY EmptySeq
<1>3. Once(<<>>) /\ Elements(<<>>) = Linked'
  BY <1>1, <1>2 DEF Once, Elements
<1>4. Along(next', <<>>)
  BY <1>1, <1>2 DEF Along, Behind
<1>5. Walk(next', Linked', <<>>)
  BY <1>2, <1>3, <1>4 DEF Walk
<1> QED
  BY <1>5, NextWalk

-----------------------------------------------------------------------------
(* The ring stays one ring.                                                *)
LEMMA NextOneRing == ASSUME RInv, [Next]_vars PROVE OneRing'
<1>1. ASSUME NEW t \in Task, Push(t) PROVE OneRing'
  BY <1>1, PushWalk
<1>2. ASSUME NEW t \in Task, Cancel(t) PROVE OneRing'
  <2>1. t \in Linked /\ ListDel(t)
    BY <1>2 DEF Cancel
  <2>2. PICK i \in 1 .. Len(Order) : Order[i] = t
    BY <2>1, LinkedAt
  <2> QED
    BY <2>1, <2>2, DeletionWalk
<1>3. CASE RunCall \/ OnceCall
  <2>1. next[ListHead] # ListHead /\ ListDel(next[ListHead])
    BY <1>3 DEF RunCall, OnceCall, RInv, IInv, CursorOnRing
  <2> QED
    BY <2>1, FirstWalk
<1>4. CASE Fini
  BY <1>4, FiniWalk
<1>5. CASE \/ RunReturn \/ KeepCall \/ KeepReturn \/ OnceReturn \/ Finish
           \/ StartRun \/ StartKeep \/ UNCHANGED vars
  <2>1. next' = next
    BY <1>5 DEF RunReturn, KeepCall, KeepReturn, OnceReturn, Finish, StartRun,
                StartKeep, Start, list, vars
  <2> QED
    BY <2>1, SameWalk
<1> QED
  BY <1>1, <1>2, <1>3, <1>4, <1>5 DEF Next, Loop

(***************************************************************************)
(* With callbacks that respect MayCancel the links lead from the head      *)
(* through every task on the list and back, once, whatever is pushed and   *)
(* cancelled in the middle of a pass.                                      *)
(***************************************************************************)
THEOREM OneRingInvariance == ASSUME SafeCancels PROVE Spec => []RInv
<1>1. Init => RInv
  BY InitIInv, InitOneRing DEF RInv
<1>2. RInv /\ [Next]_vars => RInv'
  BY NextIInv, NextOneRing DEF RInv
<1> QED
  BY <1>1, <1>2, PTL DEF Spec

(* The ring has no second cycle, and a walk misses no task.                *)
THEOREM RingIsWhole == ASSUME SafeCancels PROVE Spec => []RingWhole
<1>1. RInv => RingWhole
  BY DEF RInv, OneRing, Walk, Elements, RingWhole
<1> QED
  BY <1>1, OneRingInvariance, PTL

-----------------------------------------------------------------------------
(* Every step of the pointers is a step of the queue.                      *)

LEMMA InitFifo == Init => Fifo!Init
<1> SUFFICES ASSUME Init PROVE Fifo!Init
  OBVIOUS
<1>1. mode = "idle" /\ inCb = FALSE
  BY DEF Init
<1>2. Called = NULL /\ GoesOnWith = NULL
  BY <1>1 DEF Called, GoesOnWith
<1> QED
  BY <1>1, <1>2, InitOneRing DEF Fifo!Init

(* The two cursors in each mode.                                           *)
LEMMA CursorIs ==
  ASSUME RInv
  PROVE  /\ inCb => Called = pos /\ Called # NULL
         /\ ~inCb => Called = NULL
         /\ mode = "run" /\ inCb => GoesOnWith = TaskOrNone(n)
         /\ mode \in {"run", "keep"} /\ ~inCb => GoesOnWith = TaskOrNone(pos)
         /\ mode \in {"idle", "once"} \/ (mode = "keep" /\ inCb) => GoesOnWith = NULL
         /\ Fifo!ClientRuns <=> ClientRuns
<1>1. pos \in Node /\ NULL \notin Node
  BY TaskAssumption DEF RInv, IInv, TypeOK, Node
<1>2. (inCb => Called = pos /\ Called # NULL) /\ (~inCb => Called = NULL)
  BY <1>1 DEF Called
<1>3. Fifo!ClientRuns <=> ClientRuns
  BY <1>2 DEF Fifo!ClientRuns, ClientRuns
<1> QED
  BY <1>2, <1>3 DEF GoesOnWith

(* The cursors stay where neither they nor the pass change.                *)
LEMMA SameCursor ==
  ASSUME UNCHANGED cursor
  PROVE  UNCHANGED <<mode, Called, GoesOnWith>>
BY DEF cursor, Called, GoesOnWith, TaskOrNone

LEMMA PushFifo ==
  ASSUME RInv, NEW t \in Task, Push(t)
  PROVE  Fifo!Push(t)
<1>1. UNCHANGED <<mode, Called, GoesOnWith>>
  BY SameCursor DEF Push
<1>2. t \notin Fifo!Queued /\ Order' = Append(Order, t)
  BY PushWalk, QueueIs
<1>3. t # Called
  <2>1. SUFFICES ASSUME inCb, t = pos PROVE FALSE
    BY CursorIs, TaskAssumption
  <2>2. pos \notin alloc /\ alloc = Linked \cup Running
    BY <2>1 DEF Push, RInv, IInv, NoLeak
  <2> QED
    BY <2>1, <2>2 DEF Running, RInv, IInv, CursorPlaced, TypeOK, Mode
<1>4. Fifo!ClientRuns
  BY CursorIs DEF Push
<1> QED
  BY <1>1, <1>2, <1>3, <1>4 DEF Fifo!Push

LEMMA CancelFifo ==
  ASSUME SafeCancels, RInv, NEW t \in Task, Cancel(t)
  PROVE  Fifo!Cancel(t)
<1>1. UNCHANGED <<mode, Called, GoesOnWith>>
  BY SameCursor DEF Cancel
<1>2. /\ t \in Linked /\ ListDel(t) /\ ClientRuns
      /\ ~(inCb /\ mode = "run" /\ t = n) /\ ~(inCb /\ mode = "keep" /\ t = pos)
  BY DEF Cancel, MayCancel
<1>3. PICK i \in 1 .. Len(Order) : i \in DOMAIN Order /\ Order[i] = t
  BY <1>2, LinkedAt
<1>4. Order' = Fifo!SE!RemoveAt(Order, i)
  BY <1>2, <1>3, DeletionWalk
<1>5. t # Called
  <2>1. SUFFICES ASSUME inCb, t = pos PROVE FALSE
    BY CursorIs, TaskAssumption
  <2>2. mode \in {"run", "once"}
    BY <2>1, <1>2 DEF RInv, IInv, TypeOK, Mode, CursorPlaced
  <2> QED
    BY <2>1, <2>2, <1>2 DEF Running, RInv, IInv, NoLeak
<1>6. t # GoesOnWith
  <2>1. CASE mode = "run" /\ inCb
    BY <2>1, <1>2, CursorIs, TaskAssumption DEF TaskOrNone
  <2>2. CASE ~(mode = "run" /\ inCb)
    <3>1. mode \in {"idle", "once"} \/ (mode = "keep" /\ inCb)
      BY <2>2, <1>2 DEF ClientRuns, RInv, IInv, TypeOK, Mode
    <3>2. GoesOnWith = NULL
      BY <3>1, CursorIs
    <3> QED
      BY <3>2, TaskAssumption
  <2> QED
    BY <2>1, <2>2
<1>7. t \in Fifo!Queued \ {Called, GoesOnWith}
  BY <1>2, <1>5, <1>6, QueueIs
<1>8. Fifo!ClientRuns
  BY <1>2, CursorIs
<1> QED
  BY <1>1, <1>3, <1>4, <1>7, <1>8 DEF Fifo!Cancel

LEMMA StartFifo ==
  ASSUME RInv, NEW m \in {"run", "keep"}, Start(m)
  PROVE  Fifo!Start(m)
<1>1. mode = "idle" /\ ~inCb /\ mode' = m /\ ~inCb' /\ pos' = next[ListHead] /\ next' = next
  BY DEF Start, list, RInv, IInv, CursorPlaced
<1>2. Order' = Order
  BY <1>1, SameWalk
<1>3. Called' = Called
  BY <1>1 DEF Called
<1>4. GoesOnWith' = TaskOrNone(next[ListHead])
  BY <1>1 DEF GoesOnWith, TaskOrNone
<1>5. GoesOnWith' = Fifo!First(Order)
  BY <1>4, QueueIs
<1> QED
  BY <1>1, <1>2, <1>3, <1>5 DEF Fifo!Start

(* The first task leaves the queue and is called, in a run or by itself.   *)
LEMMA RunCallFifo == ASSUME RInv, RunCall PROVE Fifo!RunCall
<1>1. /\ mode = "run" /\ ~inCb /\ pos = next[ListHead] /\ pos # ListHead /\ n = next[pos]
      /\ mode' = "run" /\ inCb' /\ pos' = pos /\ n' = n /\ ListDel(pos)
  BY DEF RunCall, RInv, IInv, CursorOnRing
<1>2. /\ OneRing' /\ Order' = Tail(Order)
      /\ pos \in Linked /\ ListDel(next[ListHead]) /\ next[ListHead] \in Linked
  BY <1>1, FirstWalk
<1>3. Called = NULL /\ GoesOnWith = pos /\ pos # NULL
  BY <1>1, <1>2, CursorIs, TaskAssumption DEF Linked, TaskOrNone
<1>4. Called' = pos /\ GoesOnWith' = TaskOrNone(n)
  BY <1>1 DEF Called, GoesOnWith, TaskOrNone
<1>5. next'[ListHead] = n
  BY <1>1, <1>2, ListDelSound DEF RInv, IInv
<1>6. Fifo!First(Order') = TaskOrNone(n)
  BY <1>2, <1>5, FirstIs DEF OneRing
<1> QED
  BY <1>1, <1>2, <1>3, <1>4, <1>6 DEF Fifo!RunCall

LEMMA OnceCallFifo == ASSUME RInv, OnceCall PROVE Fifo!OnceCall
<1>1. /\ mode = "idle" /\ next[ListHead] # ListHead /\ ListDel(next[ListHead])
      /\ mode' = "once" /\ inCb' /\ pos' = next[ListHead] /\ ~inCb
  BY DEF OnceCall, RInv, IInv, CursorPlaced
<1>2. Order' = Tail(Order) /\ Order # <<>> /\ Head(Order) = next[ListHead]
  BY <1>1, FirstWalk
<1>3. Called' = next[ListHead] /\ GoesOnWith' = NULL /\ GoesOnWith = NULL
  BY <1>1 DEF Called, GoesOnWith
<1> QED
  BY <1>1, <1>2, <1>3 DEF Fifo!OnceCall

(* The steps that leave the queue alone.                                   *)
LEMMA CursorFifo ==
  ASSUME RInv, RunReturn \/ KeepCall \/ KeepReturn \/ OnceReturn \/ Finish
  PROVE  Fifo!Next
<1>0. next' = next
  BY DEF RunReturn, KeepCall, KeepReturn, OnceReturn, Finish, list
<1>1. Order' = Order
  BY <1>0, SameWalk
<1>2. CASE RunReturn
  <2>1. mode = "run" /\ inCb /\ mode' = "run" /\ ~inCb' /\ pos' = n
    BY <1>2 DEF RunReturn, SafeStep
  <2>2. Called # NULL /\ Called' = NULL /\ GoesOnWith = TaskOrNone(n)
    BY <2>1, CursorIs DEF Called
  <2>3. GoesOnWith' = TaskOrNone(n)
    BY <2>1 DEF GoesOnWith, TaskOrNone
  <2>4. Fifo!RunReturn
    BY <2>1, <2>2, <2>3, <1>1 DEF Fifo!RunReturn
  <2> QED
    BY <2>4 DEF Fifo!Next, Fifo!Loop
<1>3. CASE KeepCall
  <2>1. mode = "keep" /\ ~inCb /\ mode' = "keep" /\ inCb' /\ pos' = pos /\ pos # ListHead
    BY <1>3 DEF KeepCall
  <2>2. pos \in Task
    BY <2>1 DEF RInv, IInv, TypeOK, Node
  <2>3. Called = NULL /\ GoesOnWith = pos /\ pos # NULL
    BY <2>1, <2>2, CursorIs, TaskAssumption DEF TaskOrNone
  <2>4. Called' = pos /\ GoesOnWith' = NULL
    BY <2>1 DEF Called, GoesOnWith
  <2>5. Fifo!KeepCall
    BY <2>1, <2>3, <2>4, <1>1 DEF Fifo!KeepCall
  <2> QED
    BY <2>5 DEF Fifo!Next, Fifo!Loop
<1>4. CASE KeepReturn
  <2>1. /\ mode = "keep" /\ inCb /\ mode' = "keep" /\ ~inCb' /\ pos' = next[pos]
        /\ pos \in Linked
    BY <1>4 DEF KeepReturn, Following, RInv, IInv, CursorPlaced
  <2>2. Called = pos /\ Called # NULL /\ Called' = NULL
    BY <2>1, CursorIs DEF Called
  <2>3. GoesOnWith' = TaskOrNone(next[pos])
    BY <2>1 DEF GoesOnWith, TaskOrNone
  <2>4. GoesOnWith' = Fifo!After(Called)
    BY <2>1, <2>2, <2>3, AfterIs
  <2>5. Fifo!KeepReturn
    BY <2>1, <2>2, <2>4, <1>1 DEF Fifo!KeepReturn
  <2> QED
    BY <2>5 DEF Fifo!Next, Fifo!Loop
<1>5. CASE OnceReturn
  <2>1. mode = "once" /\ mode' = "idle" /\ ~inCb'
    BY <1>5 DEF OnceReturn
  <2>2. Called' = NULL /\ GoesOnWith = NULL /\ GoesOnWith' = NULL
    BY <2>1 DEF Called, GoesOnWith
  <2>3. Fifo!OnceReturn
    BY <2>1, <2>2, <1>1 DEF Fifo!OnceReturn
  <2> QED
    BY <2>3 DEF Fifo!Next, Fifo!Loop
<1>6. CASE Finish
  <2>1. mode \in {"run", "keep"} /\ ~inCb /\ pos = ListHead /\ mode' = "idle" /\ ~inCb'
    BY <1>6 DEF Finish
  <2>2. Called = NULL /\ Called' = NULL /\ GoesOnWith = NULL /\ GoesOnWith' = NULL
    BY <2>1, TaskAssumption DEF Called, GoesOnWith, TaskOrNone
  <2>3. Fifo!Finish
    BY <2>1, <2>2, <1>1 DEF Fifo!Finish
  <2> QED
    BY <2>3 DEF Fifo!Next, Fifo!Loop
<1> QED
  BY <1>2, <1>3, <1>4, <1>5, <1>6

LEMMA NextFifo ==
  ASSUME SafeCancels, RInv, [Next]_vars
  PROVE  [Fifo!Next]_Fifo!vars
<1>1. ASSUME NEW t \in Task, Push(t) PROVE Fifo!Next
  <2>1. Fifo!Push(t)
    BY <1>1, PushFifo
  <2> QED
    BY <2>1 DEF Fifo!Next
<1>2. ASSUME NEW t \in Task, Cancel(t) PROVE Fifo!Next
  <2>1. Fifo!Cancel(t)
    BY <1>2, CancelFifo
  <2> QED
    BY <2>1 DEF Fifo!Next
<1>3. CASE StartRun
  <2>1. Fifo!StartRun
    BY <1>3, StartFifo DEF StartRun, Fifo!StartRun
  <2> QED
    BY <2>1 DEF Fifo!Next
<1>4. CASE StartKeep
  <2>1. Fifo!StartKeep
    BY <1>4, StartFifo DEF StartKeep, Fifo!StartKeep
  <2> QED
    BY <2>1 DEF Fifo!Next
<1>5. CASE OnceCall
  <2>1. Fifo!OnceCall
    BY <1>5, OnceCallFifo
  <2> QED
    BY <2>1 DEF Fifo!Next
<1>6. CASE Fini
  <2>1. UNCHANGED <<mode, Called, GoesOnWith>>
    BY <1>6, SameCursor DEF Fini
  <2>2. mode = "idle" /\ Order' = <<>>
    BY <1>6, FiniWalk DEF Fini
  <2>3. Fifo!Fini
    BY <2>1, <2>2 DEF Fifo!Fini
  <2> QED
    BY <2>3 DEF Fifo!Next
<1>7. CASE RunCall
  <2>1. Fifo!RunCall
    BY <1>7, RunCallFifo
  <2> QED
    BY <2>1 DEF Fifo!Next, Fifo!Loop
<1>8. CASE RunReturn \/ KeepCall \/ KeepReturn \/ OnceReturn \/ Finish
  BY <1>8, CursorFifo
<1>9. CASE UNCHANGED vars
  <2>1. UNCHANGED <<mode, Called, GoesOnWith>>
    BY <1>9, SameCursor DEF vars, cursor
  <2>2. Order' = Order
    BY <1>9, SameWalk DEF vars
  <2> QED
    BY <2>1, <2>2 DEF Fifo!vars
<1> QED
  BY <1>1, <1>2, <1>3, <1>4, <1>5, <1>6, <1>7, <1>8, <1>9 DEF Next, Loop

(***************************************************************************)
(* The doubly linked list with its cursor is the first-in first-out queue  *)
(* of FifoTasks: a task is called in its turn and once, whatever the       *)
(* callbacks before it push and cancel.                                    *)
(***************************************************************************)
THEOREM PointersImplementFifo == ASSUME SafeCancels PROVE Spec => ImplementsFifo
<1>1. RInv /\ [Next]_vars => [Fifo!Next]_Fifo!vars
  BY NextFifo
<1> QED
  BY <1>1, InitFifo, OneRingInvariance, PTL DEF Spec, ImplementsFifo, Fifo!Spec

-----------------------------------------------------------------------------
(* What a pass owes.                                                       *)

(* A run owes tasks that are queued, and none where it is about to end.    *)
RunOwes ==
  mode = "run" => /\ due \subseteq Linked
                  /\ (IF inCb THEN n ELSE pos) = ListHead => due = {}

(* A keep pass owes tasks behind its cursor: the task it stands on only    *)
(* until it is called.                                                     *)
KeepOwes ==
  mode = "keep" => /\ pos = ListHead => due = {}
                   /\ \A p \in DOMAIN Order, d \in due : Order[p] = pos =>
                        \E j \in DOMAIN Order : /\ Order[j] = d
                                                /\ p < j \/ (p = j /\ ~inCb)

HInv == RInv /\ RunOwes /\ KeepOwes

(* An empty list has no tasks on it: it takes one ring to say so.          *)
LEMMA NoneOnEmpty ==
  ASSUME NEW link, NEW on, NEW q, Walk(link, on, q), link[ListHead] = ListHead
  PROVE  on = {}
<1>0. PICK m \in Nat : m = Len(q)
  BY LenProperties DEF Walk
<1>1. q \in Seq(Task) /\ DOMAIN q = 1 .. m /\ on = Elements(q)
  BY <1>0, LenProperties DEF Walk
<1>2. m = 0
  <2>1. SUFFICES ASSUME m # 0 PROVE FALSE
    OBVIOUS
  <2>2. 1 \in 1 .. Len(q) /\ 0 < m
    BY <2>1, <1>0
  <2>3. q[1] \in Task
    BY <2>2, <1>1, ElementOfSeq
  <2>4. link[ListHead] = q[1]
    BY <2>2, <1>0 DEF Walk, Along, Behind
  <2> QED
    BY <2>3, <2>4, TaskAssumption
<1> QED
  BY <1>1, <1>2 DEF Elements

(* The ghost, step by step.                                                *)
LEMMA DueIs ==
  ASSUME RInv, HNext
  PROVE  /\ mode = "idle" /\ mode' \in {"run", "keep"} => due' = Linked
         /\ mode # "idle" /\ ~inCb /\ inCb' => due' = due \ {pos'}
         /\ mode # "idle" /\ (inCb \/ ~inCb') => due' = due \cap alloc'
<1>1. mode = "idle" /\ mode' \in {"run", "keep"} => ~inCb'
  <2> SUFFICES ASSUME mode = "idle", mode' \in {"run", "keep"} PROVE ~inCb'
    OBVIOUS
  <2>1. ~inCb
    BY DEF RInv, IInv, CursorPlaced
  <2>2. inCb' = inCb
    BY DEF HNext, Next, Loop, Push, Cancel, StartRun, StartKeep, Start, OnceCall, Fini,
           RunCall, RunReturn, KeepCall, KeepReturn, OnceReturn, Finish, cursor
  <2> QED
    BY <2>1, <2>2
<1>2. due' = CASE mode = "idle" /\ mode' \in {"run", "keep"} -> Linked
               [] ~inCb /\ inCb'                             -> due \ {pos'}
               [] OTHER                                      -> due \cap alloc'
  BY DEF HNext
<1>3. mode = "idle" /\ mode' \in {"run", "keep"} => due' = Linked
  BY <1>1, <1>2
<1>4. mode # "idle" /\ ~inCb /\ inCb' => due' = due \ {pos'}
  BY <1>2
<1>5. mode # "idle" /\ (inCb \/ ~inCb') => due' = due \cap alloc'
  BY <1>2
<1> QED
  BY <1>3, <1>4, <1>5

LEMMA RunOwesNext == ASSUME HInv, RInv', HNext PROVE RunOwes'
<1> SUFFICES ASSUME mode' = "run" PROVE RunOwes'
  BY DEF RunOwes
<1>0. /\ Walk(next, Linked, Order) /\ Walk(next', Linked', Order') /\ Next
      /\ RInv /\ IInv
  BY DEF HInv, RInv, OneRing, HNext
<1>1. CASE StartRun \/ StartKeep
  <2>1. mode = "idle" /\ next' = next /\ pos' = next[ListHead] /\ ~inCb'
    BY <1>1, <1>0 DEF StartRun, StartKeep, Start, list, IInv, CursorPlaced
  <2>2. due' = Linked /\ Linked' = Linked
    BY <2>1, <1>0, DueIs DEF Linked
  <2>3. pos' = ListHead => Linked = {}
    BY <2>1, <1>0, NoneOnEmpty
  <2> QED
    BY <2>1, <2>2, <2>3 DEF RunOwes
<1>2. CASE RunCall
  <2>1. /\ mode = "run" /\ ~inCb /\ pos = next[ListHead] /\ n = next[pos] /\ pos # ListHead
        /\ inCb' /\ pos' = pos /\ n' = n /\ ListDel(pos)
    BY <1>2, <1>0 DEF RunCall, IInv, CursorOnRing
  <2>2. pos \in Linked /\ Linked' = Linked \ {pos} /\ next'[ListHead] = n
    <3>1. pos \in Linked
      BY <2>1, <1>0, RingFacts DEF Ring
    <3> QED
      BY <3>1, <2>1, <1>0, ListDelSound DEF IInv
  <2>3. due \subseteq Linked /\ due' = due \ {pos}
    BY <2>1, <1>0, DueIs DEF HInv, RunOwes
  <2>4. n = ListHead => Linked' = {}
    BY <2>2, <1>0, NoneOnEmpty
  <2> QED
    BY <2>1, <2>2, <2>3, <2>4 DEF RunOwes
<1>3. CASE RunReturn
  <2>1. mode = "run" /\ inCb /\ ~inCb' /\ pos' = n /\ next' = next
    BY <1>3 DEF RunReturn, SafeStep, list
  <2>2. due' \subseteq due /\ Linked' = Linked
    BY <2>1, <1>0, DueIs DEF HInv, Linked
  <2>3. due \subseteq Linked /\ (n = ListHead => due = {})
    BY <2>1 DEF HInv, RunOwes
  <2> QED
    BY <2>1, <2>2, <2>3 DEF RunOwes
<1>4. ASSUME NEW t \in Task, Push(t) PROVE RunOwes'
  <2>1. mode = "run" /\ inCb /\ inCb' = inCb /\ n' = n
    BY <1>4 DEF Push, cursor, ClientRuns
  <2>2. due' \subseteq due
    BY <2>1, <1>0, DueIs
  <2>3. Linked \subseteq Linked'
    <3>1. t \in Task \ Linked /\ ListAddTail(t)
      BY <1>4, <1>0, PushWalk DEF Push
    <3> QED
      BY <3>1, <1>0, ListAddTailSound DEF IInv
  <2>4. due \subseteq Linked /\ (n = ListHead => due = {})
    BY <2>1 DEF HInv, RunOwes
  <2> QED
    BY <2>1, <2>2, <2>3, <2>4 DEF RunOwes
<1>5. ASSUME NEW t \in Task, Cancel(t) PROVE RunOwes'
  <2>1. mode = "run" /\ inCb /\ inCb' = inCb /\ n' = n /\ alloc' = alloc \ {t}
    BY <1>5 DEF Cancel, Free, cursor, ClientRuns
  <2>2. due' \subseteq due \ {t}
    BY <2>1, <1>0, DueIs
  <2>3. Linked' = Linked \ {t}
    <3>1. t \in Linked /\ ListDel(t)
      BY <1>5 DEF Cancel
    <3> QED
      BY <3>1, <1>0, ListDelSound DEF IInv
  <2>4. due \subseteq Linked /\ (n = ListHead => due = {})
    BY <2>1 DEF HInv, RunOwes
  <2> QED
    BY <2>1, <2>2, <2>3, <2>4 DEF RunOwes
<1>6. CASE KeepCall \/ KeepReturn \/ Finish \/ OnceCall \/ OnceReturn \/ Fini
  BY <1>6 DEF KeepCall, KeepReturn, Finish, OnceCall, OnceReturn, Fini, cursor
<1> QED
  BY <1>0, <1>1, <1>2, <1>3, <1>4, <1>5, <1>6 DEF Next, Loop

LEMMA KeepOwesNext == ASSUME SafeCancels, HInv, RInv', HNext PROVE KeepOwes'
<1> SUFFICES ASSUME mode' = "keep" PROVE KeepOwes'
  BY DEF KeepOwes
<1>0. /\ Walk(next, Linked, Order) /\ Walk(next', Linked', Order') /\ Next
      /\ RInv /\ IInv /\ Order \in Seq(Task)
  BY QueueIs DEF HInv, RInv, OneRing, HNext
<1>a. PICK m \in Nat : m = Len(Order) /\ DOMAIN Order = 1 .. m
  BY <1>0, LenProperties
<1>b. \A i, j \in 1 .. m : Order[i] = Order[j] => i = j
  BY <1>0, <1>a DEF Walk, Once
<1>c. \A i \in 1 .. m : Order[i] \in Linked /\ Order[i] # ListHead
  BY <1>0, <1>a, TaskAssumption DEF Walk, Elements, Linked
<1>1. CASE StartRun \/ StartKeep
  <2>1. mode = "idle" /\ next' = next /\ pos' = next[ListHead] /\ ~inCb'
    BY <1>1, <1>0 DEF StartRun, StartKeep, Start, list, IInv, CursorPlaced
  <2>2. due' = Linked /\ Order' = Order
    BY <2>1, <1>0, DueIs, SameWalk
  <2>3. pos' = ListHead => Linked = {}
    BY <2>1, <1>0, NoneOnEmpty
  <2>4. ASSUME NEW p \in 1 .. m, NEW d \in Linked, Order[p] = pos'
        PROVE  \E j \in 1 .. m : Order[j] = d /\ (p < j \/ p = j)
    <3>1. PICK j \in 1 .. m : Order[j] = d
      BY <1>0, <1>a DEF Walk, Elements
    <3>2. Order[1] = pos' /\ 1 \in 1 .. m
      BY <2>1, <1>0, <1>a DEF Walk, Along, Behind
    <3>3. p = 1
      BY <3>2, <2>4, <1>b
    <3> QED
      BY <3>1, <3>3
  <2> QED
    BY <2>1, <2>2, <2>3, <2>4, <1>a DEF KeepOwes
<1>2. CASE KeepCall
  <2>1. mode = "keep" /\ ~inCb /\ inCb' /\ pos' = pos /\ pos # ListHead /\ next' = next
    BY <1>2 DEF KeepCall, list
  <2>2. due' = due \ {pos} /\ Order' = Order
    BY <2>1, <1>0, DueIs, SameWalk
  <2>3. ASSUME NEW p \in 1 .. m, NEW d \in due', Order[p] = pos
        PROVE  \E j \in 1 .. m : Order[j] = d /\ p < j
    <3>1. PICK j \in 1 .. m : Order[j] = d /\ (p < j \/ p = j)
      BY <2>1, <2>2, <2>3, <1>a DEF HInv, KeepOwes
    <3>2. d # pos
      BY <2>2
    <3> QED
      BY <3>1, <3>2, <2>3
  <2> QED
    BY <2>1, <2>2, <2>3, <1>a DEF KeepOwes
<1>3. CASE KeepReturn
  <2>1. mode = "keep" /\ inCb /\ ~inCb' /\ pos' = next[pos] /\ next' = next /\ pos \in Linked
    BY <1>3, <1>0 DEF KeepReturn, Following, list, IInv, CursorPlaced
  <2>2. due' \subseteq due /\ Order' = Order
    BY <2>1, <1>0, DueIs, SameWalk
  <2>3. PICK p \in 1 .. m : Order[p] = pos
    BY <2>1, <1>0, <1>a DEF Walk, Elements
  <2>4. pos' = IF p < m THEN Order[p + 1] ELSE ListHead
    BY <2>1, <2>3, <1>0, <1>a DEF Walk, Along, Behind
  <2>5. \A d \in due : \E j \in 1 .. m : Order[j] = d /\ p < j
    BY <2>1, <2>3, <1>a DEF HInv, KeepOwes
  <2>6. pos' = ListHead => due' = {}
    <3>1. SUFFICES ASSUME pos' = ListHead, NEW d \in due' PROVE FALSE
      OBVIOUS
    <3>2. ~(p < m)
      <4>1. p < m => p + 1 \in 1 .. m
        BY <1>a
      <4> QED
        BY <4>1, <3>1, <2>4, <1>c
    <3> QED
      BY <3>2, <2>2, <2>5
  <2>7. ASSUME NEW k \in 1 .. m, NEW d \in due', Order[k] = pos'
        PROVE  \E j \in 1 .. m : Order[j] = d /\ (k < j \/ k = j)
    <3>1. pos' # ListHead
      BY <2>7, <1>c
    <3>2. p + 1 \in 1 .. m /\ Order[p + 1] = pos'
      BY <3>1, <2>4
    <3>3. k = p + 1
      BY <3>2, <2>7, <1>b
    <3>4. PICK j \in 1 .. m : Order[j] = d /\ p < j
      BY <2>2, <2>5
    <3> QED
      BY <3>3, <3>4
  <2> QED
    BY <2>1, <2>2, <2>6, <2>7, <1>a DEF KeepOwes
<1>4. ASSUME NEW t \in Task, Push(t) PROVE KeepOwes'
  <2>1. mode = "keep" /\ inCb /\ inCb' = inCb /\ pos' = pos /\ pos \in Linked
    BY <1>4, <1>0 DEF Push, cursor, ClientRuns, IInv, CursorPlaced
  <2>2. due' \subseteq due /\ Order' = Append(Order, t) /\ t \notin Linked
    BY <2>1, <1>0, <1>4, DueIs, PushWalk
  <2>3. /\ DOMAIN Order' = 1 .. m + 1
        /\ \A i \in 1 .. m : Order'[i] = Order[i]
        /\ Order'[m + 1] = t
    <3>1. /\ Append(Order, t) \in Seq(Task) /\ Len(Append(Order, t)) = m + 1
          /\ \A i \in 1 .. m : Append(Order, t)[i] = Order[i]
          /\ Append(Order, t)[m + 1] = t
      BY <1>0, <1>a, AppendProperties
    <3> QED
      BY <3>1, <2>2, LenProperties
  <2>4. ASSUME NEW p \in 1 .. m + 1, NEW d \in due', Order'[p] = pos
        PROVE  \E j \in 1 .. m + 1 : Order'[j] = d /\ p < j
    <3>1. p \in 1 .. m
      BY <2>1, <2>2, <2>3, <2>4
    <3>2. PICK j \in 1 .. m : Order[j] = d /\ p < j
      BY <3>1, <2>1, <2>2, <2>3, <2>4, <1>a DEF HInv, KeepOwes
    <3>3. j \in 1 .. m + 1 /\ Order'[j] = d
      BY <3>2, <2>3, <1>a
    <3> QED
      BY <3>2, <3>3
  <2>5. pos # ListHead
    BY <2>1, TaskAssumption DEF Linked
  <2> QED
    BY <2>1, <2>3, <2>4, <2>5 DEF KeepOwes
<1>5. ASSUME NEW t \in Task, Cancel(t) PROVE KeepOwes'
  <2>1. /\ mode = "keep" /\ inCb /\ inCb' = inCb /\ pos' = pos /\ pos \in Linked
        /\ alloc' = alloc \ {t} /\ t \in Linked /\ ListDel(t) /\ t # pos
    BY <1>5, <1>0 DEF Cancel, Free, MayCancel, cursor, ClientRuns, IInv, CursorPlaced
  <2>2. PICK i \in 1 .. m : Order[i] = t
    BY <2>1, <1>0, <1>a DEF Walk, Elements
  <2>3. due' \subseteq due \ {t}
    BY <2>1, <1>0, DueIs
  <2>4. /\ DOMAIN Order' = 1 .. m - 1
        /\ \A k \in 1 .. m - 1 : Order'[k] = IF k < i THEN Order[k] ELSE Order[k + 1]
    <3>1. Order' = Fifo!SE!RemoveAt(Order, i) /\ i \in 1 .. Len(Order)
      BY <2>1, <2>2, <1>0, <1>a, DeletionWalk
    <3>2. /\ Order' \in Seq(Task) /\ Len(Order') = m - 1
          /\ \A k \in 1 .. m - 1 : Order'[k] = IF k < i THEN Order[k] ELSE Order[k + 1]
      BY <3>1, <1>0, <1>a, RemoveIs
    <3> QED
      BY <3>2, LenProperties
  <2>5. ASSUME NEW k \in 1 .. m - 1, NEW d \in due', Order'[k] = pos
        PROVE  \E l \in 1 .. m - 1 : Order'[l] = d /\ k < l
    <3>1. PICK p \in 1 .. m : Order[p] = pos /\ p = IF k < i THEN k ELSE k + 1
      BY <2>4, <2>5
    <3>2. PICK j \in 1 .. m : Order[j] = d /\ p < j
      BY <3>1, <2>1, <2>3, <1>a DEF HInv, KeepOwes
    <3>3. j # i
      BY <3>2, <2>2, <2>3
    <3>4. PICK l \in 1 .. m - 1 : j = IF l < i THEN l ELSE l + 1
      <4>1. CASE j < i
        <5>1. j \in 1 .. m - 1
          BY <4>1
        <5> QED
          BY <4>1, <5>1
      <4>2. CASE j > i
        <5>1. j - 1 \in 1 .. m - 1 /\ ~(j - 1 < i) /\ j = (j - 1) + 1
          BY <4>2
        <5> QED
          BY <5>1
      <4> QED
        BY <3>3, <4>1, <4>2
    <3>5. Order'[l] = d
      BY <3>2, <3>4, <2>4
    <3>6. k < l
      BY <3>1, <3>2, <3>4
    <3> QED
      BY <3>5, <3>6
  <2>6. pos # ListHead
    BY <2>1, TaskAssumption DEF Linked
  <2> QED
    BY <2>1, <2>4, <2>5, <2>6 DEF KeepOwes
<1>6. CASE RunCall \/ RunReturn \/ Finish \/ OnceCall \/ OnceReturn \/ Fini
  BY <1>6 DEF RunCall, RunReturn, Finish, OnceCall, OnceReturn, Fini, cursor
<1> QED
  BY <1>0, <1>1, <1>2, <1>3, <1>4, <1>5, <1>6 DEF Next, Loop

(* What a pass owes is on the list and before its cursor, always.          *)
THEOREM OwingInvariance == ASSUME SafeCancels PROVE HSpec => []HInv
<1>1. HInit => HInv
  <2> SUFFICES ASSUME HInit PROVE HInv
    OBVIOUS
  <2>1. Init /\ mode = "idle"
    BY DEF HInit, Init
  <2>2. RInv
    BY <2>1, InitIInv, InitOneRing DEF RInv
  <2> QED
    BY <2>1, <2>2 DEF HInv, RunOwes, KeepOwes
<1>2. HInv /\ [HNext]_<<vars, due>> => HInv'
  <2> SUFFICES ASSUME HInv, [HNext]_<<vars, due>> PROVE HInv'
    OBVIOUS
  <2>1. RInv /\ [Next]_vars
    BY DEF HInv, HNext
  <2>2. RInv'
    BY <2>1, NextIInv, NextOneRing DEF RInv
  <2>3. CASE HNext
    BY <2>2, <2>3, RunOwesNext, KeepOwesNext DEF HInv
  <2>4. CASE UNCHANGED <<vars, due>>
    <3>1. Order' = Order /\ Linked' = Linked
      BY <2>1, <2>4, SameWalk DEF vars, Linked
    <3>2. UNCHANGED <<mode, inCb, pos, n, due>>
      BY <2>4 DEF vars
    <3>3. RunOwes' /\ KeepOwes'
      BY <3>1, <3>2 DEF HInv, RunOwes, KeepOwes
    <3> QED
      BY <3>3, <2>2 DEF HInv
  <2> QED
    BY <2>3, <2>4
<1> QED
  BY <1>1, <1>2, PTL DEF HSpec

(***************************************************************************)
(* A pass that ends has called every task that was queued when it began    *)
(* and that no callback cancelled, however many its callbacks pushed.      *)
(***************************************************************************)
THEOREM PassesServeAll == ASSUME SafeCancels PROVE HSpec => PassServesAll
<1>1. /\ HInv /\ [HNext]_<<vars, due>>
      => [(mode \in {"run", "keep"} /\ mode' = "idle") => due = {}]_<<vars, due>>
  <2> SUFFICES ASSUME HInv, HNext, mode \in {"run", "keep"}, mode' = "idle"
               PROVE  due = {}
    OBVIOUS
  <2>1. Finish
    BY DEF HNext, Next, Loop, Push, Cancel, StartRun, StartKeep, Start, OnceCall, Fini,
           RunCall, RunReturn, KeepCall, KeepReturn, OnceReturn, cursor
  <2>2. pos = ListHead /\ ~inCb
    BY <2>1 DEF Finish
  <2> QED
    BY <2>2 DEF HInv, RunOwes, KeepOwes
<1> QED
  BY <1>1, OwingInvariance, PTL DEF HSpec, PassServesAll
=============================================================================
