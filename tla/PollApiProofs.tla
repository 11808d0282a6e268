--------------------------- MODULE PollApiProofs ---------------------------
(***************************************************************************)
(* Proofs about PollApi, for any number of descriptors and any buffer:     *)
(* what holds of each engine, and that each of them implements PollEngine. *)
(***************************************************************************)
EXTENDS PollApi, SequenceTheorems, FiniteSetTheorems, TLAPS

-----------------------------------------------------------------------------
(* Epoll                                                                   *)

EpollEvent == [fd : Fd, data : Data, events : SUBSET Condition]

EpollTyped ==
  /\ interest = [fd \in DOMAIN interest |-> interest[fd]]
  /\ \A fd \in DOMAIN interest : interest[fd].events \subseteq E!EpollEvents(Event)
  /\ ee \in Seq(EpollEvent)

(* The descriptor fetched last has no event left in the buffer.            *)
EpollGot == got # NULL => \A i \in 1 .. ready : ee[i].fd # got.fd

EpollAsked ==
  \A fd \in Fd :
    asked[fd] = {e \in Event : fd \in DOMAIN interest
                               /\ E!EpollEvents({e}) \subseteq interest[fd].events}

EpollInv == E!TypeOK /\ E!FreshBuffer /\ EpollTyped /\ EpollGot /\ EpollAsked

AskedOK == asked \in [Fd -> SUBSET Event]

LEMMA EpollInit == E!Init /\ asked = [fd \in Fd |-> {}] => EpollInv /\ AskedOK
<1> SUFFICES ASSUME E!Init, asked = [fd \in Fd |-> {}] PROVE EpollInv /\ AskedOK
  OBVIOUS
<1> USE PollApiAssumption
<1>1. DOMAIN interest = {}
  BY DEF E!Init, E!Nothing
<1>2. E!TypeOK
  BY <1>1 DEF E!Init, E!TypeOK, E!Registered
<1>3. E!FreshBuffer /\ EpollGot
  BY DEF E!Init, E!FreshBuffer, EpollGot
<1>4. EpollTyped /\ EpollAsked /\ AskedOK
  BY <1>1 DEF E!Init, E!Nothing, EpollTyped, EpollAsked, AskedOK
<1> QED
  BY <1>2, <1>3, <1>4 DEF EpollInv

(* What the client may touch has no event left in the buffer.              *)
LEMMA EpollTouched ==
  ASSUME EpollInv, NEW fd, E!MayTouch(fd) \/ fd \notin DOMAIN interest
  PROVE  \A i \in 1 .. ready : ee[i].fd # fd
BY DEF EpollInv, E!TypeOK, EpollGot, E!MayTouch, E!FreshBuffer, E!Registered

(* Each event has a name of its own in epoll.                              *)
LEMMA EventsBack ==
  ASSUME NEW events \in SUBSET Event
  PROVE  /\ {e \in Event : E!EpollEvents({e}) \subseteq E!EpollEvents(events)} = events
         /\ E!EpollEvents(events) \subseteq {"IN", "OUT", "PRI"}
         /\ E!EpollEvents(events) \subseteq E!EpollEvents(Event)
BY PollApiAssumption DEF E!EpollEvents

(* A change at a descriptor without events in the buffer leaves the buffer *)
(* as fresh as it is.                                                      *)
LEMMA EpollBuffer ==
  ASSUME EpollInv, NEW fd, \A i \in 1 .. ready : ee[i].fd # fd,
         UNCHANGED <<ee, ready, got>>,
         DOMAIN interest \ {fd} \subseteq DOMAIN interest',
         \A f \in DOMAIN interest \ {fd} : interest'[f] = interest[f]
  PROVE  E!FreshBuffer' /\ EpollGot'
BY DEF EpollInv, E!FreshBuffer, E!Registered, EpollGot

LEMMA EpollRegister ==
  ASSUME EpollInv, AskedOK, NEW fd \in Fd, NEW events \in SUBSET Event, NEW data \in Data,
         fd \in open, E!MayTouch(fd) \/ fd \notin DOMAIN interest,
         E!Register(fd, events, data), UNCHANGED <<open, io, ee, ready, got>>,
         asked' = [asked EXCEPT ![fd] = events]
  PROVE  EpollInv' /\ AskedOK'
<1> USE DEF EpollInv
<1>1. /\ interest' = [f \in DOMAIN interest' |-> interest'[f]]
      /\ DOMAIN interest' = DOMAIN interest \cup {fd}
      /\ interest'[fd].events = E!EpollEvents(events) /\ interest'[fd].data = data
      /\ \A f \in DOMAIN interest \ {fd} : interest'[f] = interest[f]
  BY DEF E!Register, E!Registered
<1>2. /\ E!EpollEvents(events) \subseteq {"IN", "OUT", "PRI"}
      /\ E!EpollEvents(events) \subseteq E!EpollEvents(Event)
  BY EventsBack
<1>3. E!TypeOK'
  BY <1>1, <1>2 DEF E!TypeOK, E!Registered
<1>4. E!FreshBuffer' /\ EpollGot'
  BY <1>1, EpollTouched, EpollBuffer
<1>5. EpollTyped'
  <2>1. \A f \in DOMAIN interest' : interest'[f].events \subseteq E!EpollEvents(Event)
    BY <1>1, <1>2 DEF EpollTyped
  <2> QED
    BY <1>1, <2>1 DEF EpollTyped, E!EpollEvents
<1>6. AskedOK'
  BY DEF AskedOK
<1>7. EpollAsked'
  <2> SUFFICES ASSUME NEW f \in Fd
               PROVE  asked'[f] = {e \in Event : f \in DOMAIN interest'
                                     /\ E!EpollEvents({e}) \subseteq interest'[f].events}
    BY DEF EpollAsked, E!EpollEvents
  <2>1. CASE f = fd
    BY <1>1, <2>1, EventsBack DEF AskedOK
  <2>2. CASE f # fd
    BY <1>1, <2>2 DEF AskedOK, EpollAsked
  <2> QED
    BY <2>1, <2>2
<1> QED
  BY <1>3, <1>4, <1>5, <1>6, <1>7

LEMMA EpollUnregister ==
  ASSUME EpollInv, AskedOK, NEW fd \in Fd, E!MayTouch(fd) \/ fd \notin DOMAIN interest,
         E!Unregister(fd), UNCHANGED <<ee, ready, got>>,
         asked' = [asked EXCEPT ![fd] = {}],
         open' \in {open, open \ {fd}}, io' \in [Fd -> SUBSET Condition]
  PROVE  EpollInv' /\ AskedOK'
<1> USE DEF EpollInv
<1>1. /\ interest' = [f \in DOMAIN interest' |-> interest'[f]]
      /\ DOMAIN interest' = DOMAIN interest \ {fd}
      /\ \A f \in DOMAIN interest \ {fd} : interest'[f] = interest[f]
  BY DEF E!Unregister, E!Registered
<1>2. E!TypeOK'
  BY <1>1 DEF E!TypeOK, E!Registered
<1>3. E!FreshBuffer' /\ EpollGot'
  BY <1>1, EpollTouched, EpollBuffer
<1>4. EpollTyped'
  BY <1>1 DEF EpollTyped
<1>5. AskedOK'
  BY DEF AskedOK
<1>6. EpollAsked'
  <2> SUFFICES ASSUME NEW f \in Fd
               PROVE  asked'[f] = {e \in Event : f \in DOMAIN interest'
                                     /\ E!EpollEvents({e}) \subseteq interest'[f].events}
    BY DEF EpollAsked, E!EpollEvents
  <2>1. CASE f = fd
    BY <1>1, <2>1 DEF AskedOK
  <2>2. CASE f # fd
    BY <1>1, <2>2 DEF AskedOK, EpollAsked
  <2> QED
    BY <2>1, <2>2
<1> QED
  BY <1>2, <1>3, <1>4, <1>5, <1>6

(* A wait leaves at most sz events, each of another descriptor.            *)
LEMMA EpollWait ==
  ASSUME EpollInv, AskedOK, NEW batch \in E!Batches, E!Wait(batch), asked' = asked
  PROVE  EpollInv' /\ AskedOK'
<1> USE PollApiAssumption DEF EpollInv
<1>1. PICK k \in 0 .. sz : batch \in [1 .. k -> E!Triggered]
  BY DEF E!Batches
<1>2. Len(batch) = k /\ DOMAIN batch = 1 .. k
  BY <1>1
<1>3. \A i, j \in 1 .. k : i # j => batch[i] # batch[j]
  BY <1>2 DEF E!Batches
<1>4. \A i \in 1 .. k : /\ batch[i] \in DOMAIN interest /\ batch[i] \in Fd
                        /\ interest[batch[i]].data \in Data
                        /\ E!Pending(batch[i]) \subseteq Condition
  BY <1>1 DEF E!Triggered, E!Registered, E!TypeOK, E!Pending
<1>5. /\ ee' = [i \in 1 .. k |-> [fd |-> batch[i], data |-> interest[batch[i]].data,
                                  events |-> E!Pending(batch[i])]]
      /\ ready' = k /\ got' = NULL /\ UNCHANGED <<open, interest, io>>
  BY <1>2 DEF E!Wait, E!kernel
<1>6. ee' \in [1 .. k -> EpollEvent]
  BY <1>4, <1>5 DEF EpollEvent
<1>7. ee' \in Seq(EpollEvent) /\ Len(ee') = k
  BY <1>6
<1>8. E!TypeOK'
  BY <1>5, <1>7 DEF E!TypeOK, E!Registered
<1>9. E!FreshBuffer'
  BY <1>3, <1>4, <1>5 DEF E!FreshBuffer, E!Registered
<1>10. EpollTyped' /\ EpollGot' /\ AskedOK'
  BY <1>5, <1>7 DEF EpollTyped, EpollGot, AskedOK
<1>11. EpollAsked'
  BY <1>5 DEF EpollAsked, E!EpollEvents
<1> QED
  BY <1>8, <1>9, <1>10, <1>11

(* A fetch takes the last event away, and its descriptor with it.          *)
LEMMA EpollFetch ==
  ASSUME EpollInv, AskedOK, E!Fetch \/ E!WaitFails, asked' = asked
  PROVE  EpollInv' /\ AskedOK'
<1> USE PollApiAssumption DEF EpollInv
<1>1. UNCHANGED <<open, interest, io, ee, asked>>
  BY DEF E!Fetch, E!WaitFails, E!kernel
<1>2. AskedOK' /\ EpollAsked' /\ EpollTyped'
  BY <1>1 DEF AskedOK, EpollAsked, EpollTyped, E!EpollEvents
<1>3. ready \in Int /\ ready <= Len(ee) /\ Len(ee) \in Nat /\ ready >= -1
  BY DEF E!TypeOK, EpollTyped
<1>4. CASE ready > 0 /\ E!Fetch
  <2>1. ready' = ready - 1 /\ got' = [ee[ready] EXCEPT !.events = E!EpEvents(@)]
    BY <1>4 DEF E!Fetch
  <2>2. ee[ready] \in EpollEvent
    BY <1>3, <1>4 DEF EpollTyped
  <2>3. got'.fd = ee[ready].fd
    BY <2>1, <2>2 DEF EpollEvent
  <2>4. E!TypeOK'
    BY <1>1, <1>3, <1>4, <2>1 DEF E!TypeOK, E!Registered
  <2>5. E!FreshBuffer'
    BY <1>1, <1>3, <1>4, <2>1 DEF E!FreshBuffer, E!Registered
  <2>6. EpollGot'
    BY <1>1, <1>3, <1>4, <2>1, <2>3 DEF E!FreshBuffer, EpollGot
  <2> QED
    BY <1>2, <2>4, <2>5, <2>6
<1>5. CASE ~(ready > 0 /\ E!Fetch)
  <2>1. got' = NULL /\ ready' \in {ready, -1}
    BY <1>5 DEF E!Fetch, E!WaitFails
  <2>2. E!TypeOK'
    BY <1>1, <1>3, <2>1 DEF E!TypeOK, E!Registered
  <2>3. E!FreshBuffer' /\ EpollGot'
    BY <1>1, <1>3, <2>1 DEF E!FreshBuffer, E!Registered, EpollGot
  <2> QED
    BY <1>2, <2>2, <2>3
<1> QED
  BY <1>4, <1>5

LEMMA EpollNext ==
  ASSUME EpollInv, AskedOK, engine = "epoll", Next
  PROVE  EpollInv' /\ AskedOK'
<1> USE PollApiAssumption
<1>1. CASE \E fd \in Fd, events \in SUBSET Event, data \in Data :
             Add(fd, events, data) \/ Mod(fd, events, data)
  <2>1. PICK fd \in Fd, events \in SUBSET Event, data \in Data :
          Add(fd, events, data) \/ Mod(fd, events, data)
    BY <1>1
  <2>2. CASE Add(fd, events, data)
    <3>1. fd \in open /\ fd \notin DOMAIN interest /\ E!Register(fd, events, data)
          /\ UNCHANGED <<open, io, ee, ready, got>>
          /\ asked' = [asked EXCEPT ![fd] = asked[fd] \cup events]
      BY <2>2 DEF Add, WithEpoll, WithSelect, WithKqueue, E!Add, E!Registered, Asks
    <3>2. asked[fd] = {}
      <4>1. asked[fd] = {e \in Event : fd \in DOMAIN interest
                                      /\ E!EpollEvents({e}) \subseteq interest[fd].events}
        BY DEF EpollInv, EpollAsked
      <4> QED
        BY <3>1, <4>1
    <3> QED
      BY <3>1, <3>2, EpollRegister
  <2>3. CASE Mod(fd, events, data)
    <3>1. fd \in DOMAIN interest /\ E!MayTouch(fd) /\ E!Register(fd, events, data)
          /\ UNCHANGED <<open, io, ee, ready, got>>
          /\ asked' = [asked EXCEPT ![fd] = events]
      BY <2>3 DEF Mod, WithEpoll, WithSelect, WithKqueue, E!Mod, E!Registered, Asks
    <3>2. fd \in open
      BY <3>1 DEF EpollInv, E!TypeOK, E!Registered
    <3> QED
      BY <3>1, <3>2, EpollRegister
  <2> QED
    BY <2>1, <2>2, <2>3
<1>2. CASE \E fd \in Fd : Del(fd) \/ Close(fd)
  <2>1. PICK fd \in Fd : Del(fd) \/ Close(fd)
    BY <1>2
  <2>2. E!Del(fd) \/ E!Close(fd)
    BY <2>1 DEF Del, Close, WithEpoll, WithSelect, WithKqueue
  <2>3. /\ E!MayTouch(fd) /\ E!Unregister(fd) /\ UNCHANGED <<ee, ready, got>>
        /\ open' \in {open, open \ {fd}} /\ io' \in {io, [io EXCEPT ![fd] = {}]}
    BY <2>2 DEF E!Del, E!Close
  <2>4. asked' = [asked EXCEPT ![fd] = {}]
    BY <2>1 DEF Del, Close, WithEpoll, WithSelect, WithKqueue, Asks
  <2>5. io' \in [Fd -> SUBSET Condition]
    BY <2>3 DEF EpollInv, E!TypeOK
  <2> QED
    BY <2>3, <2>4, <2>5, EpollUnregister
<1>3. CASE \E fd \in Fd : Open(fd) \/ \E conditions \in Cases : Happens(fd, conditions)
  <2>1. PICK fd \in Fd : Open(fd) \/ \E conditions \in Cases : Happens(fd, conditions)
    BY <1>3
  <2>2. /\ UNCHANGED <<interest, ee, ready, got, asked>>
        /\ open' \in {open, open \cup {fd}}
        /\ io' \in {io} \cup {[io EXCEPT ![fd] = conditions] : conditions \in Cases}
    BY <2>1 DEF Open, Happens, WithEpoll, WithSelect, WithKqueue, E!Open, E!Happens
  <2>3. io' \in [Fd -> SUBSET Condition]
    <3>1. io \in [Fd -> SUBSET Condition]
      BY DEF EpollInv, E!TypeOK
    <3>2. CASE io' = io
      BY <3>1, <3>2
    <3>3. ASSUME NEW conditions \in Cases, io' = [io EXCEPT ![fd] = conditions]
          PROVE  io' \in [Fd -> SUBSET Condition]
      BY <3>1, <3>3
    <3> QED
      BY <2>2, <3>2, <3>3
  <2>4. E!TypeOK'
    BY <2>2, <2>3 DEF EpollInv, E!TypeOK, E!Registered
  <2>5. E!FreshBuffer' /\ EpollGot' /\ EpollTyped' /\ EpollAsked' /\ AskedOK'
    BY <2>2 DEF EpollInv, E!FreshBuffer, E!Registered, EpollGot, EpollTyped, EpollAsked,
                AskedOK, E!EpollEvents
  <2> QED
    BY <2>4, <2>5 DEF EpollInv
<1>4. CASE Wait
  <2>1. PICK batch \in E!Batches : E!Wait(batch) /\ asked' = asked
    BY <1>4 DEF Wait, WithEpoll, WithSelect, WithKqueue
  <2> QED
    BY <2>1, EpollWait
<1>5. CASE WaitFails \/ Fetch
  <2>1. (E!WaitFails \/ E!Fetch) /\ asked' = asked
    BY <1>5 DEF WaitFails, Fetch, WithEpoll, WithSelect, WithKqueue
  <2> QED
    BY <2>1, EpollFetch
<1>6. CASE Renew
  <2>1. E!Renew /\ asked' = [fd \in Fd |-> {}]
    BY <1>6 DEF Renew, WithEpoll, WithSelect, WithKqueue
  <2>2. DOMAIN interest' = {}
    BY <2>1 DEF E!Renew, E!Nothing
  <2>3. E!TypeOK'
    BY <2>1, <2>2 DEF E!Renew, EpollInv, E!TypeOK, E!Registered
  <2>4. E!FreshBuffer' /\ EpollGot'
    BY <2>1 DEF E!Renew, E!FreshBuffer, EpollGot
  <2>5. EpollTyped' /\ EpollAsked' /\ AskedOK'
    BY <2>1, <2>2 DEF E!Renew, E!Nothing, EpollTyped, EpollAsked, AskedOK
  <2> QED
    BY <2>3, <2>4, <2>5 DEF EpollInv
<1> QED
  BY <1>1, <1>2, <1>3, <1>4, <1>5, <1>6
  DEF Next, ModFails, DelFails, WithKqueue

-----------------------------------------------------------------------------
(* Select                                                                  *)

SelectKnown == \A e \in Event : want[e] \subseteq known
SelectAsked == \A fd \in Fd : asked[fd] = {e \in Event : fd \in want[e]}
SelectInv == S!TypeOK /\ SelectKnown /\ SelectAsked

LEMMA SelectInit == S!Init /\ asked = [fd \in Fd |-> {}] => SelectInv /\ AskedOK
BY PollApiAssumption
DEF S!Init, SelectInv, S!TypeOK, SelectKnown, SelectAsked, AskedOK, Fd, S!Fd

(* del looks for the new maxfd in an empty set, and finds none.            *)
LEMMA SelectDel ==
  ASSUME SelectInv, AskedOK, NEW fd \in Fd, S!Del(fd), Asks(fd, {})
  PROVE  SelectInv' /\ AskedOK'
<1> USE PollApiAssumption DEF SelectInv
<1>1. fd \in known /\ fd \in 0 .. FD_SETSIZE - 1
  BY DEF S!Del, S!MayChange, S!TypeOK
<1>2. fds' = {}
  BY DEF S!Del, S!MayChange, S!TypeOK
<1>3. maxfd' \in -1 .. FD_SETSIZE - 1
  <2>1. CASE fd = maxfd
    <3>1. /\ -1 \in -1 .. fd - 1
          /\ -1 >= 0 => -1 \in fds'
          /\ \A f \in -1 + 1 .. fd - 1 : f \notin fds'
      BY <1>1, <1>2
    <3>2. maxfd' \in -1 .. fd - 1
      BY <2>1, <3>1 DEF S!Del, S!MayChange
    <3> QED
      BY <1>1, <3>2
  <2>2. CASE fd # maxfd
    BY <2>2 DEF S!Del, S!MayChange, S!TypeOK
  <2> QED
    BY <2>1, <2>2
<1>4. /\ open' = open /\ io' = io /\ known' = known \ {fd}
      /\ want' = [e \in Event |-> want[e] \ {fd}]
  BY DEF S!Del, S!MayChange
<1>5. S!TypeOK'
  BY <1>2, <1>3, <1>4 DEF S!TypeOK
<1>6. SelectKnown'
  BY <1>4 DEF SelectKnown
<1>7. SelectAsked' /\ AskedOK'
  BY <1>4 DEF SelectAsked, AskedOK, Asks
<1> QED
  BY <1>5, <1>6, <1>7

(* A change of what is wanted at fd leaves what is wanted elsewhere.       *)
LEMMA SelectOthers ==
  ASSUME SelectAsked, NEW fd \in Fd, asked'[fd] = {e \in Event : fd \in want'[e]},
         \A f \in Fd \ {fd} : asked'[f] = asked[f],
         \A f \in Fd \ {fd}, e \in Event : f \in want'[e] <=> f \in want[e]
  PROVE  SelectAsked'
<1>1. ASSUME NEW f \in Fd, f # fd
      PROVE  asked'[f] = {e \in Event : f \in want'[e]}
  <2>1. asked'[f] = asked[f] /\ asked[f] = {e \in Event : f \in want[e]}
    BY <1>1 DEF SelectAsked
  <2>2. \A e \in Event : f \in want'[e] <=> f \in want[e]
    BY <1>1
  <2> QED
    BY <2>1, <2>2
<1>2. \A f \in Fd : asked'[f] = {e \in Event : f \in want'[e]}
  BY <1>1
<1> QED
  BY <1>2 DEF SelectAsked

LEMMA SelectNext ==
  ASSUME SelectInv, AskedOK, engine = "select", Next
  PROVE  SelectInv' /\ AskedOK'
<1> USE PollApiAssumption DEF SelectInv
<1>1. CASE \E fd \in Fd, events \in SUBSET Event, data \in Data : Add(fd, events, data)
  <2>1. PICK fd \in Fd, events \in SUBSET Event, data \in Data : Add(fd, events, data)
    BY <1>1
  <2>2. S!Add(fd, events) /\ asked' = [asked EXCEPT ![fd] = asked[fd] \cup events]
    BY <2>1 DEF Add, WithEpoll, WithSelect, WithKqueue, Asks
  <2>3. /\ UNCHANGED <<open, io, fds>> /\ fd \in 0 .. FD_SETSIZE - 1
        /\ known' = known \cup {fd}
        /\ want' = [e \in Event |-> IF e \in events THEN want[e] \cup {fd} ELSE want[e]]
        /\ maxfd' \in {fd, maxfd}
    BY <2>2 DEF S!Add, Fd
  <2>4. S!TypeOK'
    BY <2>3 DEF S!TypeOK
  <2>5. SelectKnown'
    BY <2>3 DEF SelectKnown
  <2>6. AskedOK'
    BY <2>2 DEF AskedOK
  <2>7. \A f \in Fd : asked[f] = {e \in Event : f \in want[e]}
    BY DEF SelectAsked
  <2>8. asked'[fd] = {e \in Event : fd \in want'[e]}
    <3>1. asked'[fd] = asked[fd] \cup events /\ asked[fd] = {e \in Event : fd \in want[e]}
      BY <2>2, <2>7 DEF AskedOK
    <3>2. \A e \in Event : fd \in want'[e] <=> e \in events \/ fd \in want[e]
      BY <2>3
    <3> QED
      BY <3>1, <3>2
  <2>9. \A f \in Fd \ {fd}, e \in Event : f \in want'[e] <=> f \in want[e]
    BY <2>3
  <2>10. \A f \in Fd \ {fd} : asked'[f] = asked[f]
    BY <2>2 DEF AskedOK
  <2>11. SelectAsked'
    BY <2>8, <2>9, <2>10, SelectOthers
  <2> QED
    BY <2>4, <2>5, <2>6, <2>11
<1>2. CASE \E fd \in Fd, events \in SUBSET Event, data \in Data : Mod(fd, events, data)
  <2>1. PICK fd \in Fd, events \in SUBSET Event, data \in Data : Mod(fd, events, data)
    BY <1>2
  <2>2. S!Mod(fd, events) /\ asked' = [asked EXCEPT ![fd] = events]
    BY <2>1 DEF Mod, WithEpoll, WithSelect, WithKqueue, Asks
  <2>3. /\ UNCHANGED <<open, io, fds, known, maxfd>> /\ fd \in known
        /\ want' = [e \in Event |-> IF e \in events THEN want[e] \cup {fd} ELSE want[e] \ {fd}]
    BY <2>2 DEF S!Mod, S!MayChange
  <2>4. S!TypeOK'
    BY <2>3 DEF S!TypeOK
  <2>5. SelectKnown'
    BY <2>3 DEF SelectKnown
  <2>6. AskedOK'
    BY <2>2 DEF AskedOK
  <2>7. \A f \in Fd : asked[f] = {e \in Event : f \in want[e]}
    BY DEF SelectAsked
  <2>8. asked'[fd] = {e \in Event : fd \in want'[e]}
    BY <2>2, <2>3, <2>7 DEF AskedOK
  <2>9. \A f \in Fd \ {fd}, e \in Event : f \in want'[e] <=> f \in want[e]
    BY <2>3
  <2>10. \A f \in Fd \ {fd} : asked'[f] = asked[f]
    BY <2>2 DEF AskedOK
  <2>11. SelectAsked'
    BY <2>8, <2>9, <2>10, SelectOthers
  <2> QED
    BY <2>4, <2>5, <2>6, <2>11
<1>3. CASE \E fd \in Fd : Del(fd)
  BY <1>3, SelectDel DEF Del, WithEpoll, WithSelect, WithKqueue
<1>4. CASE \E fd \in Fd : \/ Open(fd) \/ Close(fd)
                          \/ \E conditions \in Cases : Happens(fd, conditions)
  <2>1. PICK fd \in Fd : \/ Open(fd) \/ Close(fd)
                         \/ \E conditions \in Cases : Happens(fd, conditions)
    BY <1>4
  <2>2. /\ UNCHANGED <<known, want, fds, maxfd, asked>>
        /\ open' \in {open, open \cup {fd}, open \ {fd}}
        /\ io' \in {io} \cup {[io EXCEPT ![fd] = conditions] : conditions \in Cases \cup {{}}}
    BY <2>1 DEF Open, Close, Happens, WithEpoll, WithSelect, WithKqueue, S!Open, S!Close,
                S!Happens
  <2>3. io' \in [S!Fd -> SUBSET Condition]
    <3>1. io \in [S!Fd -> SUBSET Condition]
      BY DEF S!TypeOK
    <3>2. CASE io' = io
      BY <3>1, <3>2
    <3>3. ASSUME NEW conditions \in Cases \cup {{}}, io' = [io EXCEPT ![fd] = conditions]
          PROVE  io' \in [S!Fd -> SUBSET Condition]
      BY <3>1, <3>3
    <3> QED
      BY <2>2, <3>2, <3>3
  <2>4. S!TypeOK'
    BY <2>2, <2>3 DEF S!TypeOK, Fd, S!Fd
  <2> QED
    BY <2>2, <2>4 DEF SelectKnown, SelectAsked, AskedOK
<1>5. CASE Wait \/ WaitFails \/ Fetch
  <2>1. UNCHANGED <<open, known, io, want, fds, maxfd, asked>>
    BY <1>5 DEF Wait, WaitFails, Fetch, WithEpoll, WithSelect, WithKqueue, S!Wait,
                S!WaitFails, S!Fetch
  <2> QED
    BY <2>1 DEF S!TypeOK, SelectKnown, SelectAsked, AskedOK
<1>6. CASE Renew
  <2>1. S!Renew /\ asked' = [fd \in Fd |-> {}]
    BY <1>6 DEF Renew, WithEpoll, WithSelect, WithKqueue
  <2> QED
    BY <2>1 DEF S!Renew, S!TypeOK, SelectKnown, SelectAsked, AskedOK
<1> QED
  BY <1>1, <1>2, <1>3, <1>4, <1>5, <1>6
  DEF Next, ModFails, DelFails, WithKqueue

-----------------------------------------------------------------------------
(* Kqueue                                                                  *)

KqueueEvent == [fd : Fd, filter : K!Filter, data : Data, eof : BOOLEAN]

KqueueTyped ==
  /\ knote = [k \in DOMAIN knote |-> knote[k]]
  /\ DOMAIN knote \subseteq Fd \X K!Filter
  /\ ee \in Seq(KqueueEvent)

(* If the descriptor fetched last has another event in the buffer, it has  *)
(* both filters still.                                                     *)
KqueueGot ==
  got # NULL => \A i \in 1 .. ready : ee[i].fd = got.fd => K!FiltersOf(got.fd) = K!Filter

On(fd, f) == <<fd, f>> \in DOMAIN knote /\ knote[<<fd, f>>] # NULL

(* A filter is on if its event is asked for.                               *)
KqueueAsked == \A fd \in Fd, f \in K!Filter : On(fd, f) <=> K!Wants(asked[fd], f)

KqueueInv == K!TypeOK /\ K!FreshBuffer /\ KqueueTyped /\ KqueueGot /\ KqueueAsked

(* Exceptional conditions have no filter.                                  *)
NoExcept == Event \subseteq {"READABLE", "WRITABLE"}

(* A step that leaves the filters and the buffer alone, or only forgets    *)
(* what was fetched last.                                                  *)
LEMMA KqueueSame ==
  ASSUME KqueueInv, UNCHANGED <<knote, ee, ready>>, got' \in {got, NULL},
         open \subseteq open'
  PROVE  K!TypeOK' /\ K!FreshBuffer' /\ KqueueTyped' /\ KqueueGot'
<1>1. \A fd : K!FiltersOf(fd)' = K!FiltersOf(fd)
  BY DEF K!FiltersOf
<1>2. K!TypeOK'
  BY DEF KqueueInv, K!TypeOK
<1>3. K!FreshBuffer'
  BY <1>1 DEF KqueueInv, K!FreshBuffer
<1>4. KqueueTyped'
  BY DEF KqueueInv, KqueueTyped
<1>5. KqueueGot'
  BY <1>1 DEF KqueueInv, KqueueGot
<1> QED
  BY <1>2, <1>3, <1>4, <1>5

LEMMA KqueueInit == K!Init /\ asked = [fd \in Fd |-> {}] => KqueueInv /\ AskedOK
<1> SUFFICES ASSUME K!Init, asked = [fd \in Fd |-> {}] PROVE KqueueInv /\ AskedOK
  OBVIOUS
<1> USE PollApiAssumption
<1>1. DOMAIN knote = {}
  BY DEF K!Init, K!Nothing
<1>2. K!TypeOK
  BY <1>1 DEF K!Init, K!TypeOK
<1>3. K!FreshBuffer /\ KqueueGot
  BY DEF K!Init, K!FreshBuffer, KqueueGot
<1>4. KqueueTyped /\ KqueueAsked /\ AskedOK
  BY <1>1 DEF K!Init, K!Nothing, KqueueTyped, KqueueAsked, On, K!Wants, AskedOK
<1> QED
  BY <1>2, <1>3, <1>4 DEF KqueueInv

(* What the client may touch has no event left in the buffer: with one     *)
(* filter, the one event was the one fetched.                              *)
LEMMA KqueueTouched ==
  ASSUME KqueueInv, NEW fd, K!MayTouch(fd)
  PROVE  \A i \in 1 .. ready : ee[i].fd # fd
<1> SUFFICES ASSUME NEW i \in 1 .. ready, ee[i].fd = fd PROVE FALSE
  OBVIOUS
<1>1. ready \in Int /\ ready > 0
  BY DEF KqueueInv, K!TypeOK, KqueueTyped
<1>2. ee[i].filter \in K!FiltersOf(fd)
  BY DEF KqueueInv, K!FreshBuffer
<1>3. got # NULL /\ fd = got.fd /\ K!FiltersOf(fd) # K!Filter
  BY <1>1, <1>2 DEF K!MayTouch
<1> QED
  BY <1>3 DEF KqueueInv, KqueueGot

(* A change at a descriptor without events in the buffer leaves the buffer *)
(* as fresh as it is.                                                      *)
LEMMA KqueueBuffer ==
  ASSUME KqueueInv, NEW fd, \A i \in 1 .. ready : ee[i].fd # fd,
         UNCHANGED <<ee, ready, got>>,
         \A k \in DOMAIN knote : k[1] # fd => k \in DOMAIN knote' /\ knote'[k] = knote[k]
  PROVE  K!FreshBuffer' /\ KqueueGot'
<1>1. \A f : f # fd => K!FiltersOf(f) \subseteq K!FiltersOf(f)'
  BY DEF K!FiltersOf, K!Filter
<1>2. \A i \in 1 .. ready : <<ee[i].fd, ee[i].filter>> \in DOMAIN knote
  BY DEF KqueueInv, K!FreshBuffer, K!FiltersOf
<1>3. \A i \in 1 .. ready :
        knote'[<<ee[i].fd, ee[i].filter>>] = knote[<<ee[i].fd, ee[i].filter>>]
  BY <1>2
<1>4. K!FreshBuffer'
  BY <1>1, <1>3 DEF KqueueInv, K!FreshBuffer
<1>5. KqueueGot'
  BY <1>1 DEF KqueueInv, KqueueGot, K!FiltersOf, K!Filter
<1> QED
  BY <1>4, <1>5

(* What the calls that change filters of fd have in common.                *)
LEMMA KqueueChanged ==
  ASSUME KqueueInv, NEW fd \in Fd, K!MayTouch(fd), UNCHANGED <<ee, ready, got>>,
         knote' = [k \in DOMAIN knote' |-> knote'[k]],
         \A k \in DOMAIN knote' :
           IF k[1] = fd
           THEN k \in Fd \X K!Filter /\ fd \in open' /\ knote'[k] \in Data \cup {NULL}
           ELSE k \in DOMAIN knote /\ k[1] \in open',
         \A k \in DOMAIN knote : k[1] # fd => k \in DOMAIN knote' /\ knote'[k] = knote[k]
  PROVE  K!TypeOK' /\ K!FreshBuffer' /\ KqueueTyped' /\ KqueueGot'
<1> USE DEF KqueueInv
<1>1. K!TypeOK'
  BY DEF K!TypeOK, KqueueTyped
<1>2. K!FreshBuffer' /\ KqueueGot'
  BY KqueueTouched, KqueueBuffer
<1>3. KqueueTyped'
  BY DEF KqueueTyped
<1> QED
  BY <1>1, <1>2, <1>3

(* kevent gives each of the filters the data if the event is asked for.    *)
LEMMA KqueueChange ==
  ASSUME KqueueInv, AskedOK, NEW fd \in Fd, NEW data \in Data, NEW events \in SUBSET Event,
         NEW filters \in SUBSET K!Filter, fd \in open, K!MayTouch(fd),
         K!Change(fd, filters, events, data), UNCHANGED <<open, io, ee, ready, got>>,
         NEW now \in SUBSET Event, Asks(fd, now),
         \A f \in K!Filter :
           K!Wants(now, f) <=> IF f \in filters THEN K!Wants(events, f) ELSE K!Wants(asked[fd], f)
  PROVE  KqueueInv' /\ AskedOK'
<1> USE PollApiAssumption
<1>1. /\ DOMAIN knote' = DOMAIN knote \cup ({fd} \X filters)
      /\ knote' = [k \in DOMAIN knote' |-> knote'[k]]
      /\ \A k \in DOMAIN knote \ ({fd} \X filters) : knote'[k] = knote[k]
      /\ \A f \in filters :
           knote'[<<fd, f>>] = IF K!Wants(events, f) THEN data ELSE NULL
  BY DEF K!Change
<1>2. \A k \in {fd} \X filters : k \in Fd \X K!Filter /\ k[1] = fd
                                 /\ knote'[k] \in Data \cup {NULL}
  BY <1>1
<1>3. \A k \in DOMAIN knote : k \in Fd \X K!Filter /\ k[1] \in open
                              /\ knote[k] \in Data \cup {NULL}
  BY DEF KqueueInv, K!TypeOK, KqueueTyped
<1>4. \A k \in DOMAIN knote' :
        IF k[1] = fd
        THEN k \in Fd \X K!Filter /\ fd \in open' /\ knote'[k] \in Data \cup {NULL}
        ELSE k \in DOMAIN knote /\ k[1] \in open'
  BY <1>1, <1>2, <1>3
<1>5. \A k \in DOMAIN knote : k[1] # fd => k \in DOMAIN knote' /\ knote'[k] = knote[k]
  BY <1>1, <1>2
<1>6. K!TypeOK' /\ K!FreshBuffer' /\ KqueueTyped' /\ KqueueGot'
  BY <1>1, <1>4, <1>5, KqueueChanged
<1>7. AskedOK' /\ asked'[fd] = now /\ \A f \in Fd \ {fd} : asked'[f] = asked[f]
  BY DEF AskedOK, Asks
<1>8. KqueueAsked'
  <2>1. KqueueAsked
    BY DEF KqueueInv
  <2>2. SUFFICES ASSUME NEW g \in Fd, NEW f \in K!Filter
                 PROVE  On(g, f)' <=> K!Wants(asked'[g], f)
    BY DEF KqueueAsked, K!Wants
  <2>3. CASE g # fd
    <3>1. On(g, f)' <=> On(g, f)
      BY <1>1, <2>3 DEF On
    <3> QED
      BY <1>7, <2>1, <2>3, <3>1 DEF KqueueAsked
  <2>4. CASE g = fd /\ f \in filters
    <3>1. On(g, f)' <=> K!Wants(events, f)
      BY <1>1, <2>4 DEF On
    <3> QED
      BY <1>7, <2>4, <3>1
  <2>5. CASE g = fd /\ f \notin filters
    <3>1. On(g, f)' <=> On(g, f)
      BY <1>1, <2>5 DEF On
    <3> QED
      BY <1>7, <2>1, <2>5, <3>1 DEF KqueueAsked
  <2> QED
    BY <2>3, <2>4, <2>5
<1> QED
  BY <1>6, <1>7, <1>8 DEF KqueueInv

(* The filters go, with the call or with the descriptor.                   *)
LEMMA KqueueDrop ==
  ASSUME KqueueInv, AskedOK, NEW fd \in Fd, K!MayTouch(fd), NEW filters \in SUBSET K!Filter,
         K!FiltersOf(fd) \subseteq filters, K!Drop({fd} \X filters),
         UNCHANGED <<ee, ready, got>>, open' \in {open, open \ {fd}}, Asks(fd, {})
  PROVE  KqueueInv' /\ AskedOK'
<1> USE PollApiAssumption
<1>1. /\ DOMAIN knote' = DOMAIN knote \ ({fd} \X filters)
      /\ knote' = [k \in DOMAIN knote' |-> knote'[k]]
      /\ \A k \in DOMAIN knote' : knote'[k] = knote[k]
  BY DEF K!Drop
<1>2. \A k \in DOMAIN knote : k \in Fd \X K!Filter /\ k[1] \in open
  BY DEF KqueueInv, K!TypeOK, KqueueTyped
<1>3. \A k \in DOMAIN knote' : k[1] # fd
  <2> SUFFICES ASSUME NEW k \in DOMAIN knote', k[1] = fd PROVE FALSE
    OBVIOUS
  <2>1. k = <<fd, k[2]>> /\ k[2] \in K!Filter /\ k \in DOMAIN knote
    BY <1>1, <1>2
  <2>2. k[2] \in filters
    BY <2>1 DEF K!FiltersOf
  <2> QED
    BY <1>1, <2>1, <2>2
<1>4. \A k \in DOMAIN knote' :
        IF k[1] = fd
        THEN k \in Fd \X K!Filter /\ fd \in open' /\ knote'[k] \in Data \cup {NULL}
        ELSE k \in DOMAIN knote /\ k[1] \in open'
  BY <1>1, <1>2, <1>3
<1>5. \A k \in DOMAIN knote : k[1] # fd => k \in DOMAIN knote' /\ knote'[k] = knote[k]
  BY <1>1
<1>6. K!TypeOK' /\ K!FreshBuffer' /\ KqueueTyped' /\ KqueueGot'
  BY <1>1, <1>4, <1>5, KqueueChanged
<1>7. AskedOK' /\ asked'[fd] = {} /\ \A f \in Fd \ {fd} : asked'[f] = asked[f]
  BY DEF AskedOK, Asks
<1>8. KqueueAsked'
  <2>1. KqueueAsked
    BY DEF KqueueInv
  <2>2. SUFFICES ASSUME NEW g \in Fd, NEW f \in K!Filter
                 PROVE  On(g, f)' <=> K!Wants(asked'[g], f)
    BY DEF KqueueAsked, K!Wants
  <2>3. CASE g # fd
    <3>1. On(g, f)' <=> On(g, f)
      BY <1>1, <2>3 DEF On
    <3> QED
      BY <1>7, <2>1, <2>3, <3>1 DEF KqueueAsked
  <2>4. CASE g = fd
    <3>1. ~On(g, f)'
      BY <1>3, <2>4 DEF On
    <3> QED
      BY <1>7, <2>4, <3>1 DEF K!Wants
  <2> QED
    BY <2>3, <2>4
<1> QED
  BY <1>6, <1>7, <1>8 DEF KqueueInv

LEMMA KqueueWait ==
  ASSUME KqueueInv, AskedOK, NEW batch \in K!Batches, K!Wait(batch), asked' = asked
  PROVE  KqueueInv' /\ AskedOK'
<1> USE PollApiAssumption
<1>1. PICK n \in 0 .. sz : batch \in [1 .. n -> K!Triggered]
  BY DEF K!Batches
<1>2. Len(batch) = n /\ DOMAIN batch = 1 .. n
  BY <1>1
<1>3. \A i, j \in 1 .. n : i # j => batch[i] # batch[j]
  BY <1>2 DEF K!Batches
<1>4. \A k \in K!Triggered : /\ k \in DOMAIN knote /\ k = <<k[1], k[2]>>
                             /\ k[1] \in Fd /\ k[2] \in K!Filter /\ knote[k] \in Data
  BY DEF K!Triggered, KqueueInv, KqueueTyped, K!TypeOK
<1>5. /\ ee' = [i \in 1 .. n |-> [fd |-> batch[i][1], filter |-> batch[i][2],
                                  data |-> knote[batch[i]], eof |-> "HUP" \in io[batch[i][1]]]]
      /\ ready' = n /\ got' = NULL /\ UNCHANGED <<open, knote, io>>
  BY <1>2 DEF K!Wait
<1>6. ee' \in [1 .. n -> KqueueEvent]
  BY <1>1, <1>4, <1>5 DEF KqueueEvent
<1>7. ee' \in Seq(KqueueEvent) /\ Len(ee') = n
  BY <1>6
<1>8. K!TypeOK'
  BY <1>5, <1>7 DEF KqueueInv, K!TypeOK
<1>9. \A i \in 1 .. n : /\ <<ee'[i].fd, ee'[i].filter>> = batch[i]
                        /\ batch[i] \in DOMAIN knote
                        /\ ee'[i].filter \in K!Filter /\ ee'[i].data = knote[batch[i]]
  BY <1>1, <1>4, <1>5
<1>10. K!FreshBuffer'
  <2>1. \A i \in 1 .. n : /\ ee'[i].filter \in K!FiltersOf(ee[i].fd)'
                          /\ ee'[i].data = knote'[<<ee'[i].fd, ee'[i].filter>>]
    <3> SUFFICES ASSUME NEW i \in 1 .. n
                 PROVE  /\ ee'[i].filter \in K!FiltersOf(ee[i].fd)'
                        /\ ee'[i].data = knote'[<<ee'[i].fd, ee'[i].filter>>]
      OBVIOUS
    <3>1. knote' = knote
      BY <1>5
    <3>2. <<ee'[i].fd, ee'[i].filter>> \in DOMAIN knote' /\ ee'[i].filter \in K!Filter
      BY <1>9, <3>1
    <3>3. ee'[i].data = knote'[<<ee'[i].fd, ee'[i].filter>>]
      BY <1>9, <3>1
    <3> QED
      BY <3>2, <3>3 DEF K!FiltersOf
  <2>2. \A i, j \in 1 .. n :
          i # j => <<ee'[i].fd, ee'[i].filter>> # <<ee'[j].fd, ee'[j].filter>>
    BY <1>3, <1>9
  <2>3. 1 .. ready' = 1 .. n
    BY <1>5
  <2> QED
    BY <2>1, <2>2, <2>3 DEF K!FreshBuffer
<1>11. KqueueTyped' /\ KqueueGot' /\ AskedOK'
  BY <1>5, <1>7 DEF KqueueInv, KqueueTyped, KqueueGot, AskedOK
<1>12. KqueueAsked'
  BY <1>5 DEF KqueueInv, KqueueAsked, On, K!Wants
<1> QED
  BY <1>8, <1>10, <1>11, <1>12 DEF KqueueInv

(* If a descriptor has an event before the one fetched, it is of its other *)
(* filter.                                                                 *)
LEMMA KqueueFetch ==
  ASSUME KqueueInv, AskedOK, K!Fetch, asked' = asked
  PROVE  KqueueInv' /\ AskedOK'
<1> USE PollApiAssumption
<1>1. UNCHANGED <<open, knote, io, asked>>
  BY DEF K!Fetch
<1>2. AskedOK' /\ KqueueAsked'
  BY <1>1 DEF AskedOK, KqueueInv, KqueueAsked, On, K!Wants
<1>3. CASE ready > 0
  <2>1. ready = Len(ee) /\ ready \in Nat /\ ee \in Seq(KqueueEvent)
    BY <1>3 DEF KqueueInv, K!TypeOK, KqueueTyped
  <2>2. ready' = ready - 1 /\ ee' = SubSeq(ee, 1, ready - 1) /\ got'.fd = ee[ready].fd
    BY <1>3 DEF K!Fetch
  <2>3. /\ ee' \in Seq(KqueueEvent) /\ Len(ee') = ready - 1
        /\ \A i \in 1 .. ready - 1 : ee'[i] = ee[i]
    BY <1>3, <2>1, <2>2, SubSeqProperties
  <2>4. K!TypeOK'
    BY <1>1, <2>1, <2>2, <2>3 DEF KqueueInv, K!TypeOK
  <2>5. K!FreshBuffer'
    <3> DEFINE left == 1 .. ready - 1
    <3>1. left \subseteq 1 .. ready /\ 1 .. ready' = left
      BY <2>1, <2>2
    <3>2. \A i \in left : /\ ee[i].filter \in K!FiltersOf(ee[i].fd)
                          /\ ee[i].data = knote[<<ee[i].fd, ee[i].filter>>]
      BY <3>1 DEF KqueueInv, K!FreshBuffer
    <3>3. \A i, j \in left :
            i # j => <<ee[i].fd, ee[i].filter>> # <<ee[j].fd, ee[j].filter>>
      BY <3>1 DEF KqueueInv, K!FreshBuffer
    <3>4. \A fd : K!FiltersOf(fd)' = K!FiltersOf(fd)
      BY <1>1 DEF K!FiltersOf
    <3> QED
      BY <1>1, <2>3, <3>1, <3>2, <3>3, <3>4 DEF K!FreshBuffer
  <2>6. KqueueTyped'
    BY <1>1, <2>3 DEF KqueueInv, KqueueTyped
  <2>7. KqueueGot'
    <3> SUFFICES ASSUME NEW i \in 1 .. ready - 1, ee[i].fd = ee[ready].fd
                 PROVE  K!FiltersOf(ee[ready].fd) = K!Filter
      BY <1>1, <2>1, <2>2, <2>3 DEF KqueueGot, K!FiltersOf
    <3>1. /\ ee[i].filter \in K!FiltersOf(ee[ready].fd)
          /\ ee[ready].filter \in K!FiltersOf(ee[ready].fd)
          /\ ee[i].filter # ee[ready].filter
      <4>1. i \in 1 .. ready /\ ready \in 1 .. ready /\ i # ready
        BY <1>3, <2>1
      <4>2. <<ee[i].fd, ee[i].filter>> # <<ee[ready].fd, ee[ready].filter>>
        BY <4>1 DEF KqueueInv, K!FreshBuffer
      <4> QED
        BY <4>1, <4>2 DEF KqueueInv, K!FreshBuffer
    <3> QED
      BY <3>1 DEF K!FiltersOf, K!Filter
  <2> QED
    BY <1>2, <2>4, <2>5, <2>6, <2>7 DEF KqueueInv
<1>4. CASE ~(ready > 0)
  <2>1. UNCHANGED <<ee, ready>> /\ got' = NULL
    BY <1>4 DEF K!Fetch
  <2>2. K!TypeOK' /\ K!FreshBuffer' /\ KqueueTyped' /\ KqueueGot'
    BY <1>1, <2>1, KqueueSame
  <2> QED
    BY <1>2, <2>2 DEF KqueueInv
<1> QED
  BY <1>3, <1>4

LEMMA KqueueNext ==
  ASSUME KqueueInv, AskedOK, engine = "kqueue", Next
  PROVE  KqueueInv' /\ AskedOK'
<1> USE PollApiAssumption
<1>1. CASE \E fd \in Fd, events \in SUBSET Event, data \in Data :
             \/ Add(fd, events, data) \/ Mod(fd, events, data)
             \/ ModFails(fd, events, data)
  <2>1. PICK fd \in Fd, events \in SUBSET Event, data \in Data :
          \/ Add(fd, events, data) \/ Mod(fd, events, data)
          \/ ModFails(fd, events, data)
    BY <1>1
  <2>2. asked[fd] \in SUBSET Event
    BY DEF AskedOK
  <2>3. CASE Add(fd, events, data)
    <3> DEFINE filters == {f \in K!Filter : K!Wants(events, f)}
               now == asked[fd] \cup events
    <3>1. /\ fd \in open /\ K!MayTouch(fd) /\ K!Change(fd, filters, events, data)
          /\ UNCHANGED <<open, io, ee, ready, got>> /\ Asks(fd, now)
      BY <2>3 DEF Add, WithEpoll, WithSelect, WithKqueue, K!Add, K!buffer
    <3>2. filters \in SUBSET K!Filter /\ now \in SUBSET Event
      BY <2>2
    <3>3. \A f \in K!Filter :
            K!Wants(now, f) <=>
              IF f \in filters THEN K!Wants(events, f) ELSE K!Wants(asked[fd], f)
      BY DEF K!Wants, K!Filter
    <3> HIDE DEF filters, now
    <3> QED
      BY <3>1, <3>2, <3>3, KqueueChange
  <2>4. CASE Mod(fd, events, data)
    <3>1. /\ fd \in open /\ K!MayTouch(fd) /\ K!Change(fd, K!Filter, events, data)
          /\ UNCHANGED <<open, io, ee, ready, got>> /\ Asks(fd, events)
      BY <2>4 DEF Mod, WithEpoll, WithSelect, WithKqueue, K!Mod, K!buffer
    <3> DEFINE filters == K!Filter
    <3>2. /\ filters \in SUBSET K!Filter
          /\ \A f \in K!Filter :
               K!Wants(events, f) <=>
                 IF f \in filters THEN K!Wants(events, f) ELSE K!Wants(asked[fd], f)
      OBVIOUS
    <3>3. K!Change(fd, filters, events, data)
      BY <3>1
    <3> HIDE DEF filters
    <3> QED
      BY <3>1, <3>2, <3>3, KqueueChange
  <2>5. CASE ModFails(fd, events, data)
    <3> DEFINE now == (events \cap {"READABLE"}) \cup (asked[fd] \ {"READABLE"})
    <3>1. /\ fd \in open /\ K!MayTouch(fd) /\ K!Change(fd, {"READ"}, events, data)
          /\ UNCHANGED <<open, io, ee, ready, got>> /\ Asks(fd, now)
      BY <2>5 DEF ModFails, WithKqueue, K!ModFails, K!buffer
    <3>2. {"READ"} \in SUBSET K!Filter /\ now \in SUBSET Event
      BY <2>2 DEF K!Filter
    <3>3. \A f \in K!Filter :
            K!Wants(now, f) <=>
              IF f \in {"READ"} THEN K!Wants(events, f) ELSE K!Wants(asked[fd], f)
      BY DEF K!Wants, K!Filter
    <3> HIDE DEF now
    <3> QED
      BY <3>1, <3>2, <3>3, KqueueChange
  <2> QED
    BY <2>1, <2>3, <2>4, <2>5
<1>2. CASE \E fd \in Fd : Del(fd) \/ DelFails(fd) \/ Close(fd)
  <2>1. PICK fd \in Fd : Del(fd) \/ DelFails(fd) \/ Close(fd)
    BY <1>2
  <2>2. Asks(fd, {})
    BY <2>1 DEF Del, DelFails, Close, WithEpoll, WithSelect, WithKqueue
  <2>3. K!Del(fd) \/ K!DelFails(fd) \/ K!Close(fd)
    BY <2>1 DEF Del, DelFails, Close, WithEpoll, WithSelect, WithKqueue
  <2>4. K!FiltersOf(fd) \subseteq K!Filter
    BY DEF K!FiltersOf
  <2>5. CASE K!Del(fd) \/ K!Close(fd)
    <3>1. /\ K!MayTouch(fd) /\ K!Drop({fd} \X K!Filter) /\ UNCHANGED <<ee, ready, got>>
          /\ open' \in {open, open \ {fd}}
      BY <2>5 DEF K!Del, K!Close, K!buffer
    <3> QED
      BY <2>2, <2>4, <3>1, KqueueDrop
  <2>6. CASE K!DelFails(fd)
    <3>1. /\ K!MayTouch(fd) /\ K!Drop({<<fd, "READ">>}) /\ UNCHANGED <<ee, ready, got>>
          /\ open' = open /\ K!FiltersOf(fd) = {"READ"}
      BY <2>6 DEF K!DelFails, K!buffer
    <3>2. {<<fd, "READ">>} = {fd} \X {"READ"}
      OBVIOUS
    <3>3. K!Drop({fd} \X {"READ"})
      BY <3>1, <3>2
    <3> QED
      BY <2>2, <3>1, <3>3, KqueueDrop DEF K!Filter
  <2> QED
    BY <2>3, <2>5, <2>6
<1>3. CASE \/ \E fd \in Fd : Open(fd) \/ \E conditions \in Cases : Happens(fd, conditions)
           \/ WaitFails
  <2>1. /\ knote' = knote /\ asked' = asked /\ open \subseteq open'
        /\ \/ UNCHANGED <<ee, ready, got>>
           \/ ready' = -1 /\ ee' = <<>> /\ got' = NULL
    BY <1>3 DEF Open, Happens, WaitFails, WithEpoll, WithSelect, WithKqueue, K!Open,
                K!Happens, K!WaitFails, K!buffer
  <2>2. AskedOK' /\ KqueueAsked'
    BY <2>1 DEF AskedOK, KqueueInv, KqueueAsked, On, K!Wants
  <2>3. CASE UNCHANGED <<ee, ready, got>>
    <3>1. K!TypeOK' /\ K!FreshBuffer' /\ KqueueTyped' /\ KqueueGot'
      BY <2>1, <2>3, KqueueSame
    <3> QED
      BY <2>2, <3>1 DEF KqueueInv
  <2>4. CASE ready' = -1 /\ ee' = <<>> /\ got' = NULL
    <3>1. K!TypeOK' /\ KqueueTyped'
      BY <2>1, <2>4 DEF KqueueInv, K!TypeOK, KqueueTyped
    <3>2. 1 .. ready' = {}
      BY <2>4
    <3>3. K!FreshBuffer' /\ KqueueGot'
      BY <2>4, <3>2 DEF K!FreshBuffer, KqueueGot
    <3> QED
      BY <2>2, <3>1, <3>3 DEF KqueueInv
  <2> QED
    BY <2>1, <2>3, <2>4
<1>4. CASE Wait
  <2>1. PICK batch \in K!Batches : K!Wait(batch) /\ asked' = asked
    BY <1>4 DEF Wait, WithEpoll, WithSelect, WithKqueue
  <2> QED
    BY <2>1, KqueueWait
<1>5. CASE Fetch
  BY <1>5, KqueueFetch DEF Fetch, WithEpoll, WithSelect, WithKqueue
<1>6. CASE Renew
  <2>1. K!Renew /\ asked' = [fd \in Fd |-> {}]
    BY <1>6 DEF Renew, WithEpoll, WithSelect, WithKqueue
  <2>2. DOMAIN knote' = {} /\ ready' = 0 /\ ee' = <<>> /\ got' = NULL
    BY <2>1 DEF K!Renew, K!Nothing
  <2>3. K!TypeOK' /\ K!FreshBuffer' /\ KqueueGot'
    BY <2>2 DEF K!TypeOK, K!FreshBuffer, KqueueGot
  <2>4. KqueueTyped' /\ AskedOK'
    BY <2>1, <2>2 DEF K!Renew, K!Nothing, KqueueTyped, AskedOK
  <2>5. KqueueAsked'
    BY <2>1, <2>2 DEF KqueueAsked, On, K!Wants
  <2> QED
    BY <2>3, <2>4, <2>5 DEF KqueueInv
<1> QED
  BY <1>1, <1>2, <1>3, <1>4, <1>5, <1>6 DEF Next

-----------------------------------------------------------------------------
(* The theorems                                                            *)

(***************************************************************************)
(* The inductive invariant: what is stated of the buffer needs to know     *)
(* that the descriptor fetched last, the one a client may change, has no   *)
(* event left (epoll) or both its filters (kqueue).                        *)
(***************************************************************************)
IInv ==
  /\ engine \in {"epoll", "select", "kqueue"} /\ AskedOK
  /\ engine = "epoll" => EpollInv
  /\ engine = "select" => SelectInv
  /\ engine = "kqueue" => KqueueInv

LEMMA EngineSame == [Next]_vars => engine' = engine
BY DEF Next, vars, Add, Mod, ModFails, Del, DelFails, Open, Close, Happens, Wait, WaitFails,
       Fetch, Renew, WithEpoll, WithSelect, WithKqueue

THEOREM PollApiInvariance == Spec => []IInv
<1>1. Init => IInv
  BY EpollInit, SelectInit, KqueueInit DEF Init, IInv
<1>2. IInv /\ [Next]_vars => IInv'
  <2> SUFFICES ASSUME IInv, [Next]_vars PROVE IInv'
    OBVIOUS
  <2>1. engine' = engine
    BY EngineSame
  <2>2. CASE Next
    BY <2>1, <2>2, EpollNext, SelectNext, KqueueNext DEF IInv
  <2>3. CASE UNCHANGED vars
    <3>1. UNCHANGED <<engine, open, io, ee, ready, got, interest, known, want, fds, maxfd,
                      errno, knote, asked>>
      BY <2>3 DEF vars, shared, epoll, select, kqueue
    <3>2. EpollInv => EpollInv'
      BY <3>1 DEF EpollInv, E!TypeOK, E!FreshBuffer, E!Registered, EpollTyped, EpollGot,
                  EpollAsked, E!EpollEvents
    <3>3. SelectInv => SelectInv'
      BY <3>1 DEF SelectInv, S!TypeOK, SelectKnown, SelectAsked
    <3>4. ASSUME KqueueInv PROVE KqueueInv'
      <4>1. K!TypeOK' /\ K!FreshBuffer' /\ KqueueTyped' /\ KqueueGot'
        BY <3>1, <3>4, KqueueSame
      <4>2. KqueueAsked'
        BY <3>1, <3>4 DEF KqueueInv, KqueueAsked, On, K!Wants
      <4> QED
        BY <4>1, <4>2 DEF KqueueInv
    <3> QED
      BY <3>1, <3>2, <3>3, <3>4 DEF IInv, AskedOK
  <2> QED
    BY <2>2, <2>3
<1> QED
  BY <1>1, <1>2, PTL DEF Spec

(* Which events are asked for and which engine it is does not change.      *)
LEMMA EngineStays ==
  Spec /\ (engine = "kqueue" => NoExcept) => [](engine = "kqueue" => NoExcept)
<1>1. (engine = "kqueue" => NoExcept) /\ [Next]_vars => (engine = "kqueue" => NoExcept)'
  BY EngineSame DEF NoExcept
<1> QED
  BY <1>1, PTL DEF Spec

(* Every value stays of its type, whichever the engine: no descriptor of   *)
(* FD_SETSIZE or more gets into the sets of select, and no buffer holds    *)
(* more than there is room for.                                            *)
THEOREM PollApiTypeCorrect == Spec => []TypeOK
<1>1. IInv => TypeOK
  BY DEF IInv, TypeOK, EpollInv, SelectInv, KqueueInv
<1> QED
  BY PollApiInvariance, <1>1, PTL

(* After any mix of calls, failed ones included, an engine watches for     *)
(* exactly what was asked; kqueue must not be asked for exceptional        *)
(* conditions, which it ignores.                                           *)
THEOREM WatchesAsAsked == Spec /\ (engine = "kqueue" => NoExcept) => []AsAsked
<1>1. IInv /\ (engine = "kqueue" => NoExcept) => AsAsked
  <2> SUFFICES ASSUME IInv, engine = "kqueue" => NoExcept, NEW fd \in Fd
               PROVE  Watches(fd) = asked[fd]
    BY DEF AsAsked
  <2>1. CASE engine = "epoll"
    BY <2>1 DEF IInv, EpollInv, EpollAsked, Watches, E!Registered
  <2>2. CASE engine = "select"
    BY <2>2 DEF IInv, SelectInv, SelectAsked, Watches
  <2>3. CASE engine = "kqueue"
    <3>1. asked[fd] \subseteq Event /\ Event \subseteq {"READABLE", "WRITABLE"}
      BY <2>3 DEF IInv, AskedOK, NoExcept
    <3>2. ASSUME NEW e \in Event
          PROVE  e \in asked[fd] <=> \E f \in K!FiltersOf(fd) : K!Wants({e}, f)
                                                              /\ knote[<<fd, f>>] # NULL
      <4>1. PICK g \in K!Filter : \A f \in K!Filter : \A events :
              (K!Wants({e}, f) <=> f = g) /\ (K!Wants(events, g) <=> e \in events)
        BY <3>1, <3>2 DEF K!Filter, K!Wants
      <4>2. On(fd, g) <=> e \in asked[fd]
        BY <2>3, <4>1 DEF IInv, KqueueInv, KqueueAsked
      <4> QED
        BY <4>1, <4>2 DEF On, K!FiltersOf
    <3> QED
      BY <2>3, <3>1, <3>2 DEF Watches
  <2> QED
    BY <2>1, <2>2, <2>3 DEF IInv
<1> QED
  BY PollApiInvariance, EngineStays, <1>1, PTL

(* A select fails for a bad descriptor only while one that was closed has  *)
(* not been deleted.                                                       *)
THEOREM DeletedStaysDeleted == Spec => []DeletedFirst
<1>1. IInv => DeletedFirst
  BY DEF IInv, SelectInv, SelectKnown, DeletedFirst, S!BadFd, S!Watched
<1> QED
  BY PollApiInvariance, <1>1, PTL

-----------------------------------------------------------------------------
(* The refinement of PollEngine                                            *)

Asked == {"READABLE", "WRITABLE", "EXCEPT"}
Handable == Asked \cup {"ERROR"}
Told == {"IN", "OUT", "PRI", "ERR", "HUP"}

(* What PollApi substitutes for batch and got.                             *)
Batch == [i \in 1 .. ready |-> Handed(i)]
Got == IF got = NULL THEN NULL ELSE [fd |-> got.fd, events |-> got.events]

-----------------------------------------------------------------------------
(* Sequences and finite sets                                               *)

LEMMA FunctionIsSeq ==
  ASSUME NEW m \in Nat, NEW T, NEW b \in [1 .. m -> T]
  PROVE  b \in Seq(T) /\ Len(b) = m
<1>1. b \in Seq(T)
  OBVIOUS
<1> QED
  BY <1>1, LenProperties

(* A function on 1 .. n is a sequence of length n, or empty if n is -1.    *)
LEMMA BatchIsSeq ==
  ASSUME NEW n \in Int, n >= -1, NEW b, b = [i \in 1 .. n |-> b[i]]
  PROVE  /\ DOMAIN b = 1 .. n
         /\ Len(b) = IF n = -1 THEN 0 ELSE n
         /\ b = <<>> <=> n <= 0
         /\ n > 0 => SubSeq(b, 1, Len(b) - 1) = [i \in 1 .. n - 1 |-> b[i]]
<1> DEFINE T == {b[i] : i \in 1 .. n}
<1>1. DOMAIN b = 1 .. n
  OBVIOUS
<1>2. b \in [1 .. n -> T]
  OBVIOUS
<1>3. PICK m \in Nat : m = (IF n = -1 THEN 0 ELSE n) /\ 1 .. m = 1 .. n
  <2>1. CASE n = -1
    BY <2>1
  <2>2. CASE n # -1
    BY <2>2
  <2> QED
    BY <2>1, <2>2
<1> HIDE DEF T
<1>4. b \in Seq(T) /\ Len(b) = m
  <2>1. b \in [1 .. m -> T]
    BY <1>2, <1>3
  <2> QED
    BY <2>1, FunctionIsSeq
<1>5. b = <<>> <=> n <= 0
  <2>1. b = <<>> <=> m = 0
    BY <1>4, EmptySeq
  <2> QED
    BY <2>1, <1>3
<1>6. ASSUME n > 0 PROVE SubSeq(b, 1, Len(b) - 1) = [i \in 1 .. n - 1 |-> b[i]]
  <2>1. m = n /\ 1 \in 1 .. m + 1 /\ m - 1 \in 0 .. m
    BY <1>3, <1>6
  <2>2. Len(b) - 1 = n - 1
    BY <1>4, <2>1
  <2>3. SubSeq(b, 1, n - 1) = [i \in 1 .. n - 1 |-> b[i]]
    BY <1>4, <1>6, <2>1
  <2> QED
    BY <2>2, <2>3
<1> QED
  BY <1>1, <1>3, <1>4, <1>5, <1>6

(* A batch of as many different elements as there are has all of them.     *)
LEMMA BatchHasAll ==
  ASSUME NEW T, IsFiniteSet(T), NEW n \in Nat, NEW b \in [1 .. n -> T],
         \A i, j \in 1 .. n : i # j => b[i] # b[j],
         NEW max \in Nat,
         n = IF Cardinality(T) < max THEN Cardinality(T) ELSE max
  PROVE  n >= max \/ \A t \in T : \E i \in 1 .. n : b[i] = t
<1>1. Cardinality(T) \in Nat
  BY FS_CardinalityType
<1>2. b \in Injection(1 .. n, T)
  BY DEF Injection, IsInjective
<1>3. Cardinality(1 .. n) = n
  BY FS_Interval
<1>4. CASE Cardinality(T) < max
  <2>1. Cardinality(1 .. n) = Cardinality(T)
    BY <1>3, <1>4
  <2>2. b \in Surjection(1 .. n, T)
    BY <1>2, <2>1, FS_Injection
  <2> QED
    BY <2>2 DEF Surjection
<1>5. CASE ~(Cardinality(T) < max)
  BY <1>5
<1> QED
  BY <1>4, <1>5

-----------------------------------------------------------------------------
(* What the steps of all engines have in common                            *)

LEMMA SameBatch == ASSUME UNCHANGED <<engine, ee, ready>> PROVE Batch' = Batch
BY DEF Batch, Handed, E!EpEvents, K!EpEvents

(* A fetch hands out the last event of the batch and leaves the others.    *)
LEMMA FetchOne ==
  ASSUME ready \in Int, ready > 0, ready' = ready - 1,
         \A i \in 1 .. ready - 1 : Handed(i)' = Handed(i),
         Got' = Handed(ready), UNCHANGED <<asked, io>>
  PROVE  Abstract!Fetch
<1>1. Batch = [i \in 1 .. ready |-> Batch[i]]
  BY DEF Batch
<1>2. /\ Len(Batch) = ready /\ Batch # <<>>
      /\ SubSeq(Batch, 1, Len(Batch) - 1) = [i \in 1 .. ready - 1 |-> Batch[i]]
  BY <1>1, BatchIsSeq
<1>3. Batch' = [i \in 1 .. ready - 1 |-> Batch[i]]
  BY DEF Batch
<1>4. Batch[Len(Batch)] = Handed(ready)
  BY <1>2 DEF Batch
<1> QED
  BY <1>2, <1>3, <1>4 DEF Abstract!Fetch, Batch, Got

LEMMA FetchNone ==
  ASSUME ready \in Int, ready >= -1, ready <= 0, UNCHANGED <<engine, ee, ready>>,
         Got' = NULL, UNCHANGED <<asked, io>>
  PROVE  Abstract!Fetch
<1>1. Batch = [i \in 1 .. ready |-> Batch[i]]
  BY DEF Batch
<1>2. Batch = <<>>
  BY <1>1, BatchIsSeq
<1>3. Batch' = Batch
  BY SameBatch
<1> QED
  BY <1>2, <1>3 DEF Abstract!Fetch, Batch, Got

(* No event left: after a wait that failed, or with a new state.           *)
LEMMA NoneLeft ==
  ASSUME ready' \in {-1, 0} PROVE Batch' = <<>>
<1>1. Batch' = [i \in 1 .. ready' |-> Batch'[i]]
  BY DEF Batch
<1> HIDE DEF Batch
<1> DEFINE b == Batch'  n == ready'
<1>2. n \in Int /\ n >= -1 /\ n <= 0 /\ b = [i \in 1 .. n |-> b[i]]
  BY <1>1
<1> HIDE DEF b, n
<1>3. b = <<>>
  BY <1>2, BatchIsSeq
<1> QED
  BY <1>3 DEF b

(* A wait that succeeds.                                                   *)
LEMMA WaitIs ==
  ASSUME ready' \in Nat, got' = NULL, UNCHANGED <<asked, io>>,
         \A i \in 1 .. ready' :
           /\ Handed(i)'.events # {}
           /\ Handed(i)'.events \subseteq Abstract!Reportable(Handed(i)'.fd),
         \A fd \in IF engine = "select" THEN 0 .. maxfd ELSE Fd :
           Abstract!Ready(fd) # {} =>
             ready' >= sz \/ \E i \in 1 .. ready' : Handed(i)'.fd = fd
  PROVE  Abstract!Wait
<1> DEFINE b == Batch'  n == ready'
<1>1. n \in Int /\ n >= -1 /\ b = [i \in 1 .. n |-> b[i]]
  BY DEF Batch
<1>2. \A i \in 1 .. n : b[i] = Handed(i)'
  BY DEF Batch
<1>3. Got' = NULL
  BY DEF Got
<1>4. b = [i \in 1 .. ready' |-> Handed(i)'] /\ n = ready'
  BY DEF Batch
<1> HIDE DEF b, n
<1>5. DOMAIN b = 1 .. n /\ Len(b) = n
  BY <1>1, <1>4, BatchIsSeq
<1>6. \A i \in DOMAIN b :
        /\ b[i].events # {}
        /\ b[i].events \subseteq Abstract!Reportable(b[i].fd)
  BY <1>2, <1>4, <1>5
<1>7. \A fd \in IF engine = "select" THEN 0 .. maxfd ELSE Fd :
        Abstract!Ready(fd) # {} => Len(b) >= sz \/ \E i \in DOMAIN b : b[i].fd = fd
  BY <1>2, <1>4, <1>5
<1> QED
  BY <1>3, <1>6, <1>7, <1>4 DEF Abstract!Wait, Batch, Got, b

LEMMA HappensIs ==
  ASSUME NEW fd \in Fd, NEW conditions \in Cases, io' = [io EXCEPT ![fd] = conditions],
         UNCHANGED <<engine, ee, ready, got, asked>>
  PROVE  Abstract!Next
<1>1. Abstract!Happens(fd, conditions)
  BY SameBatch DEF Abstract!Happens, Batch, Got
<1>2. conditions \in SUBSET Condition
  BY PollApiAssumption
<1> QED
  BY <1>1, <1>2 DEF Abstract!Next

LEMMA AskIs ==
  ASSUME NEW fd \in Fd, NEW events \in SUBSET Event, Asks(fd, events),
         UNCHANGED <<engine, ee, ready, got, io>>
  PROVE  Abstract!Next
<1>1. Abstract!Ask(fd, events)
  BY SameBatch DEF Abstract!Ask, Batch, Got, Asks
<1> QED
  BY <1>1 DEF Abstract!Next

LEMMA CloseIs ==
  ASSUME NEW fd \in Fd, Asks(fd, {}) \/ asked' = asked, io' = [io EXCEPT ![fd] = {}],
         UNCHANGED <<engine, ee, ready, got>>
  PROVE  Abstract!Next
<1>1. Abstract!Close(fd)
  BY SameBatch DEF Abstract!Close, Batch, Got, Asks
<1> QED
  BY <1>1 DEF Abstract!Next

LEMMA OpenIs ==
  ASSUME UNCHANGED <<engine, ee, ready, got, io, asked>>
  PROVE  UNCHANGED Abstract!vars
BY SameBatch DEF Abstract!vars, Batch, Got

LEMMA WaitFailsIs ==
  ASSUME ready' = -1, got' = NULL, UNCHANGED <<asked, io>>
  PROVE  Abstract!Next
<1>1. Abstract!WaitFails
  BY NoneLeft DEF Abstract!WaitFails, Batch, Got
<1> QED
  BY <1>1 DEF Abstract!Next

LEMMA RenewIs ==
  ASSUME ready' = 0, got' = NULL, asked' = [fd \in Fd |-> {}], io' = io
  PROVE  Abstract!Next
<1>1. Abstract!Renew
  BY NoneLeft DEF Abstract!Renew, Batch, Got
<1> QED
  BY <1>1 DEF Abstract!Next

-----------------------------------------------------------------------------
(* Epoll                                                                   *)

(* The events of the kernel as ep_epoll_fetch names them.                  *)
LEMMA EpollNames ==
  ASSUME NEW conditions \in SUBSET Told
  PROVE  /\ E!EpEvents(conditions) \subseteq Handable
         /\ conditions # {} => E!EpEvents(conditions) # {}
         /\ "READABLE" \in E!EpEvents(conditions) => "IN" \in conditions \/ "HUP" \in conditions
         /\ "WRITABLE" \in E!EpEvents(conditions) => "OUT" \in conditions
         /\ "EXCEPT" \in E!EpEvents(conditions) => "PRI" \in conditions
         /\ "ERROR" \in E!EpEvents(conditions) => "ERR" \in conditions
<1> DEFINE name(c) == CASE c \in {"IN", "HUP"} -> {"READABLE"} [] c = "OUT" -> {"WRITABLE"}
                        [] c = "PRI" -> {"EXCEPT"} [] c = "ERR" -> {"ERROR"}
<1>1. /\ name("IN") = {"READABLE"} /\ name("HUP") = {"READABLE"} /\ name("OUT") = {"WRITABLE"}
      /\ name("PRI") = {"EXCEPT"} /\ name("ERR") = {"ERROR"}
  OBVIOUS
<1>2. E!EpEvents(conditions) = UNION {name(c) : c \in conditions}
  BY DEF E!EpEvents
<1> HIDE DEF name
<1>3. \A c \in conditions : c \in {"IN", "OUT", "PRI", "ERR", "HUP"}
  BY DEF Told
<1>4. \A e : e \in E!EpEvents(conditions) <=> \E c \in conditions : e \in name(c)
  BY <1>2
<1> QED
  BY <1>1, <1>3, <1>4 DEF Handable, Asked

(* The engines count with instances of Cardinality of their own.           *)
LEMMA SameCount ==
  ASSUME NEW T
  PROVE  /\ E!Cardinality(T) = Cardinality(T)
         /\ S!Cardinality(T) = Cardinality(T)
         /\ K!Cardinality(T) = Cardinality(T)
BY DEF Cardinality, E!Cardinality, S!Cardinality, K!Cardinality

(* What is reported of a registered descriptor was asked for and is the    *)
(* case, and what was asked for and is the case is reported.               *)
LEMMA EpollPending ==
  ASSUME EpollInv, AskedOK, NEW fd \in Fd
  PROVE  /\ fd \in DOMAIN interest =>
              E!EpEvents(E!Pending(fd)) \subseteq Abstract!Reportable(fd)
         /\ Abstract!Ready(fd) # {} => fd \in E!Triggered
<1> USE PollApiAssumption
<1>1. asked[fd] = {e \in Event : fd \in DOMAIN interest
                                 /\ E!EpollEvents({e}) \subseteq interest[fd].events}
  BY DEF EpollInv, EpollAsked
<1>2. /\ E!EpollEvents({"READABLE"}) = {"IN"} /\ E!EpollEvents({"WRITABLE"}) = {"OUT"}
      /\ E!EpollEvents({"EXCEPT"}) = {"PRI"}
  BY DEF E!EpollEvents
<1>3. io[fd] \subseteq Told
  BY DEF EpollInv, E!TypeOK, Told
<1>4. ASSUME fd \in DOMAIN interest
      PROVE  E!EpEvents(E!Pending(fd)) \subseteq Abstract!Reportable(fd)
  <2>1. interest[fd].events \subseteq E!EpollEvents(Event)
    BY <1>4 DEF EpollInv, EpollTyped
  <2>2. /\ "IN" \in interest[fd].events => "READABLE" \in asked[fd]
        /\ "OUT" \in interest[fd].events => "WRITABLE" \in asked[fd]
        /\ "PRI" \in interest[fd].events => "EXCEPT" \in asked[fd]
    <3>1. \A c \in E!EpollEvents(Event) :
            /\ c = "IN" => "READABLE" \in Event
            /\ c = "OUT" => "WRITABLE" \in Event
            /\ c = "PRI" => "EXCEPT" \in Event
      BY DEF E!EpollEvents
    <3> QED
      BY <1>1, <1>2, <1>4, <2>1, <3>1
  <2>3. E!Pending(fd) \in SUBSET Told
    BY <1>3 DEF E!Pending
  <2>4. \A c \in E!Pending(fd) : c \in io[fd] /\ (c \in interest[fd].events \/ c \in {"ERR", "HUP"})
    BY DEF E!Pending
  <2>5. SUFFICES ASSUME NEW e \in E!EpEvents(E!Pending(fd)) PROVE e \in Abstract!Reportable(fd)
    OBVIOUS
  <2>6. e \in Handable
    BY <2>3, EpollNames
  <2>7. CASE e = "READABLE"
    <3>1. "IN" \in E!Pending(fd) \/ "HUP" \in E!Pending(fd)
      BY <2>3, <2>7, EpollNames
    <3> QED
      BY <2>2, <2>4, <2>7, <3>1 DEF Abstract!Reportable, Abstract!Ready, Abstract!Cause
  <2>8. CASE e = "WRITABLE"
    <3>1. "OUT" \in E!Pending(fd)
      BY <2>3, <2>8, EpollNames
    <3> QED
      BY <2>2, <2>4, <2>8, <3>1 DEF Abstract!Reportable, Abstract!Ready, Abstract!Cause
  <2>9. CASE e = "EXCEPT"
    <3>1. "PRI" \in E!Pending(fd)
      BY <2>3, <2>9, EpollNames
    <3> QED
      BY <2>2, <2>4, <2>9, <3>1 DEF Abstract!Reportable, Abstract!Ready, Abstract!Cause
  <2>10. CASE e = "ERROR"
    <3>1. "ERR" \in E!Pending(fd)
      BY <2>3, <2>10, EpollNames
    <3> QED
      BY <2>4, <2>10, <3>1 DEF Abstract!Reportable
  <2> QED
    BY <2>6, <2>7, <2>8, <2>9, <2>10 DEF Handable, Asked
<1>5. ASSUME Abstract!Ready(fd) # {} PROVE fd \in E!Triggered
  <2>1. PICK e \in asked[fd] : io[fd] \cap Abstract!Cause(e) # {}
    BY <1>5 DEF Abstract!Ready
  <2>2. fd \in DOMAIN interest /\ E!EpollEvents({e}) \subseteq interest[fd].events /\ e \in Event
    BY <1>1
  <2>3. E!Pending(fd) # {}
    <3>1. CASE e = "READABLE"
      BY <1>2, <2>1, <2>2, <3>1 DEF E!Pending, Abstract!Cause
    <3>2. CASE e = "WRITABLE"
      BY <1>2, <2>1, <2>2, <3>2 DEF E!Pending, Abstract!Cause
    <3>3. CASE e = "EXCEPT"
      BY <1>2, <2>1, <2>2, <3>3 DEF E!Pending, Abstract!Cause
    <3> QED
      BY <2>2, <3>1, <3>2, <3>3
  <2> QED
    BY <2>2, <2>3 DEF E!Triggered, E!Registered
<1> QED
  BY <1>4, <1>5

LEMMA EpollWaitIs ==
  ASSUME engine = "epoll", engine' = engine, EpollInv, AskedOK,
         NEW batch \in E!Batches, E!Wait(batch), asked' = asked
  PROVE  Abstract!Wait
<1> USE PollApiAssumption
<1>1. PICK k \in 0 .. sz : batch \in [1 .. k -> E!Triggered]
  BY DEF E!Batches
<1>2. Len(batch) = k /\ DOMAIN batch = 1 .. k /\ k \in Nat
  BY <1>1
<1>3. /\ \A i, j \in 1 .. k : i # j => batch[i] # batch[j]
      /\ k = IF Cardinality(E!Triggered) < sz THEN Cardinality(E!Triggered) ELSE sz
  BY <1>2, SameCount DEF E!Batches
<1>4. E!Triggered \subseteq Fd /\ E!Triggered \subseteq DOMAIN interest
  BY DEF E!Triggered, E!Registered, EpollInv, E!TypeOK
<1>5. IsFiniteSet(E!Triggered)
  <2>1. IsFiniteSet(Fd)
    BY FS_Interval DEF Fd
  <2> QED
    BY <1>4, <2>1, FS_Subset
<1>6. k >= sz \/ \A t \in E!Triggered : \E i \in 1 .. k : batch[i] = t
  BY <1>1, <1>2, <1>3, <1>5, BatchHasAll
<1>7. ready' = k /\ got' = NULL /\ UNCHANGED <<asked, io>>
  BY <1>2 DEF E!Wait, E!kernel
<1>8. \A i \in 1 .. k : Handed(i)' = [fd |-> batch[i], events |-> E!EpEvents(E!Pending(batch[i]))]
  <2> SUFFICES ASSUME NEW i \in 1 .. k
               PROVE  Handed(i)' = [fd |-> batch[i], events |-> E!EpEvents(E!Pending(batch[i]))]
    OBVIOUS
  <2>1. ee'[i].fd = batch[i] /\ ee'[i].events = E!Pending(batch[i])
    BY <1>2 DEF E!Wait
  <2>2. Handed(i)' = [fd |-> ee'[i].fd, events |-> E!EpEvents(ee'[i].events)]
    BY DEF Handed, E!EpEvents
  <2> QED
    BY <2>1, <2>2
<1>9. ASSUME NEW i \in 1 .. k
      PROVE  /\ Handed(i)'.events # {}
             /\ Handed(i)'.events \subseteq Abstract!Reportable(Handed(i)'.fd)
  <2>1. batch[i] \in E!Triggered
    BY <1>1, <1>9
  <2>2. batch[i] \in Fd /\ batch[i] \in DOMAIN interest /\ E!Pending(batch[i]) # {}
    BY <1>4, <2>1 DEF E!Triggered
  <2>3. E!Pending(batch[i]) \in SUBSET Told
    BY <2>2 DEF E!Pending, EpollInv, E!TypeOK, Told
  <2>4. /\ E!EpEvents(E!Pending(batch[i])) # {}
        /\ E!EpEvents(E!Pending(batch[i])) \subseteq Abstract!Reportable(batch[i])
    BY <2>2, <2>3, EpollNames, EpollPending
  <2> QED
    BY <1>8, <1>9, <2>4
<1>10. ASSUME NEW fd \in Fd, Abstract!Ready(fd) # {}
       PROVE  k >= sz \/ \E i \in 1 .. k : Handed(i)'.fd = fd
  <2>1. fd \in E!Triggered
    BY <1>10, EpollPending
  <2> QED
    BY <1>6, <1>8, <2>1
<1> QED
  BY <1>2, <1>7, <1>9, <1>10, WaitIs

LEMMA EpollFetchIs ==
  ASSUME engine = "epoll", engine' = engine, EpollInv, E!Fetch, asked' = asked
  PROVE  Abstract!Fetch
<1> USE PollApiAssumption
<1>1. ready \in Int /\ ready >= -1 /\ ready <= Len(ee) /\ Len(ee) \in Nat
  BY DEF EpollInv, E!TypeOK, EpollTyped
<1>2. UNCHANGED <<ee, io, asked>>
  BY DEF E!Fetch, E!kernel
<1>3. CASE ready > 0
  <2>1. ready' = ready - 1 /\ got' = [ee[ready] EXCEPT !.events = E!EpEvents(@)]
    BY <1>3 DEF E!Fetch
  <2>2. ee[ready] \in EpollEvent
    BY <1>1, <1>3 DEF EpollInv, EpollTyped
  <2>3. ee[ready].fd \in Fd /\ ee[ready].data \in Data /\ ee[ready].events \in SUBSET Told
    BY <2>2 DEF EpollEvent, Told
  <2>4. got' = [fd |-> ee[ready].fd, data |-> ee[ready].data,
                events |-> E!EpEvents(ee[ready].events)]
    BY <2>1, <2>2 DEF EpollEvent
  <2>5. E!EpEvents(ee[ready].events) \in SUBSET {"READABLE", "WRITABLE", "EXCEPT", "ERROR"}
    BY <2>3, EpollNames DEF Handable, Asked
  <2>6. got' # NULL
    BY <2>3, <2>4, <2>5, NullIsNoEvent DEF Fd
  <2>7. Got' = Handed(ready)
    BY <2>4, <2>6 DEF Got, Handed
  <2>8. \A i \in 1 .. ready - 1 : Handed(i)' = Handed(i)
    BY <1>2 DEF Handed, E!EpEvents
  <2> QED
    BY <1>1, <1>2, <1>3, <2>1, <2>7, <2>8, FetchOne
<1>4. CASE ready <= 0
  <2>1. ready' = ready /\ Got' = NULL
    BY <1>1, <1>4 DEF E!Fetch, Got
  <2> QED
    BY <1>1, <1>2, <1>4, <2>1, FetchNone
<1> QED
  BY <1>1, <1>3, <1>4

-----------------------------------------------------------------------------
(* Kqueue                                                                  *)

(* What a filter reports was asked for and is the case, and each event     *)
(* that was asked for, but for exceptional conditions, has a filter that   *)
(* reports it.                                                             *)
LEMMA KqueueSound ==
  ASSUME KqueueInv, NEW fd \in Fd, NEW f \in K!Filter, <<fd, f>> \in K!Triggered
  PROVE  IF f = "READ" \/ "HUP" \in io[fd] THEN "READABLE" \in Abstract!Reportable(fd)
                                           ELSE "WRITABLE" \in Abstract!Reportable(fd)
<1>1. On(fd, f) /\ io[fd] \cap K!Cause[f] # {}
  BY DEF K!Triggered, On
<1>2. K!Wants(asked[fd], f)
  BY <1>1 DEF KqueueInv, KqueueAsked
<1>3. CASE f = "READ"
  <2>1. "READABLE" \in asked[fd] /\ io[fd] \cap {"IN", "HUP", "ERR"} # {}
    BY <1>1, <1>2, <1>3 DEF K!Wants, K!Cause
  <2> QED
    BY <1>3, <2>1 DEF Abstract!Reportable, Abstract!Ready, Abstract!Cause
<1>4. CASE f # "READ" /\ "HUP" \in io[fd]
  BY <1>4 DEF Abstract!Reportable
<1>5. CASE f = "WRITE" /\ "HUP" \notin io[fd]
  <2>1. "WRITABLE" \in asked[fd] /\ io[fd] \cap {"OUT", "HUP", "ERR"} # {}
    BY <1>1, <1>2, <1>5 DEF K!Wants, K!Cause
  <2>2. io[fd] \cap {"OUT", "ERR"} # {}
    BY <1>5, <2>1
  <2> QED
    BY <1>5, <2>1, <2>2 DEF Abstract!Reportable, Abstract!Ready, Abstract!Cause
<1> QED
  BY <1>3, <1>4, <1>5 DEF K!Filter

LEMMA KqueueComplete ==
  ASSUME KqueueInv, AskedOK, NoExcept, NEW fd \in Fd, Abstract!Ready(fd) # {}
  PROVE  \E f \in K!Filter : <<fd, f>> \in K!Triggered
<1>1. PICK e \in asked[fd] : io[fd] \cap Abstract!Cause(e) # {}
  BY DEF Abstract!Ready
<1>2. e \in {"READABLE", "WRITABLE"}
  BY DEF AskedOK, NoExcept
<1>3. CASE e = "READABLE"
  <2>1. On(fd, "READ")
    BY <1>3 DEF KqueueInv, KqueueAsked, K!Wants, K!Filter
  <2>2. io[fd] \cap K!Cause["READ"] # {}
    BY <1>1, <1>3 DEF Abstract!Cause, K!Cause
  <2> QED
    BY <2>1, <2>2 DEF On, K!Triggered, K!Filter
<1>4. CASE e = "WRITABLE"
  <2>1. On(fd, "WRITE")
    BY <1>4 DEF KqueueInv, KqueueAsked, K!Wants, K!Filter
  <2>2. io[fd] \cap K!Cause["WRITE"] # {}
    BY <1>1, <1>4 DEF Abstract!Cause, K!Cause
  <2> QED
    BY <2>1, <2>2 DEF On, K!Triggered, K!Filter
<1> QED
  BY <1>2, <1>3, <1>4

LEMMA KqueueWaitIs ==
  ASSUME engine = "kqueue", engine' = engine, KqueueInv, AskedOK, NoExcept,
         NEW batch \in K!Batches, K!Wait(batch), asked' = asked
  PROVE  Abstract!Wait
<1> USE PollApiAssumption
<1>1. PICK n \in 0 .. sz : batch \in [1 .. n -> K!Triggered]
  BY DEF K!Batches
<1>2. Len(batch) = n /\ DOMAIN batch = 1 .. n /\ n \in Nat
  BY <1>1
<1>3. /\ \A i, j \in 1 .. n : i # j => batch[i] # batch[j]
      /\ n = IF Cardinality(K!Triggered) < sz THEN Cardinality(K!Triggered) ELSE sz
  BY <1>2, SameCount DEF K!Batches
<1>4. K!Triggered \subseteq Fd \X K!Filter
  BY DEF K!Triggered, KqueueInv, KqueueTyped
<1>5. IsFiniteSet(K!Triggered)
  <2>1. IsFiniteSet(Fd)
    BY FS_Interval DEF Fd
  <2>2. IsFiniteSet(K!Filter)
    <3>1. IsFiniteSet({"READ"})
      BY FS_Singleton
    <3>2. IsFiniteSet({"READ"} \cup {"WRITE"})
      BY <3>1, FS_AddElement
    <3>3. {"READ"} \cup {"WRITE"} = K!Filter
      BY DEF K!Filter
    <3> QED
      BY <3>2, <3>3
  <2>3. IsFiniteSet(Fd \X K!Filter)
    BY <2>1, <2>2, FS_Product
  <2> QED
    BY <1>4, <2>3, FS_Subset
<1>6. n >= sz \/ \A k \in K!Triggered : \E i \in 1 .. n : batch[i] = k
  BY <1>1, <1>2, <1>3, <1>5, BatchHasAll
<1>7. ready' = n /\ got' = NULL /\ UNCHANGED <<asked, io>>
  BY <1>2 DEF K!Wait
<1>8. ASSUME NEW i \in 1 .. n
      PROVE  /\ batch[i] \in K!Triggered /\ Handed(i)'.fd = batch[i][1]
             /\ Handed(i)'.events = IF batch[i][2] = "READ" \/ "HUP" \in io[batch[i][1]]
                                    THEN {"READABLE"} ELSE {"WRITABLE"}
  <2> DEFINE hup == "HUP" \in io[batch[i][1]]
             r == [fd |-> batch[i][1], filter |-> batch[i][2], data |-> knote[batch[i]],
                   eof |-> hup]
  <2>1. ee'[i] = r
    BY <1>2 DEF K!Wait
  <2>2. r.fd = batch[i][1] /\ r.filter = batch[i][2] /\ r.eof = hup
    OBVIOUS
  <2>3. Handed(i)' = [fd |-> r.fd, events |-> IF r.filter = "READ" \/ r.eof
                                              THEN {"READABLE"} ELSE {"WRITABLE"}]
    BY <2>1 DEF Handed, K!EpEvents
  <2> HIDE DEF hup, r
  <2>4. Handed(i)' = [fd |-> batch[i][1], events |-> IF batch[i][2] = "READ" \/ hup
                                                     THEN {"READABLE"} ELSE {"WRITABLE"}]
    BY <2>2, <2>3, Zenon
  <2> QED
    BY <1>1, <1>8, <2>4 DEF hup
<1>9. ASSUME NEW i \in 1 .. n
      PROVE  /\ Handed(i)'.events # {}
             /\ Handed(i)'.events \subseteq Abstract!Reportable(Handed(i)'.fd)
  <2>1. batch[i] \in K!Triggered
    BY <1>1, <1>9
  <2>2. PICK fd \in Fd, f \in K!Filter : batch[i] = <<fd, f>>
    BY <1>4, <2>1
  <2>3. IF f = "READ" \/ "HUP" \in io[fd] THEN "READABLE" \in Abstract!Reportable(fd)
                                          ELSE "WRITABLE" \in Abstract!Reportable(fd)
    BY <2>1, <2>2, KqueueSound
  <2>4. /\ Handed(i)'.fd = fd
        /\ Handed(i)'.events = IF f = "READ" \/ "HUP" \in io[fd]
                               THEN {"READABLE"} ELSE {"WRITABLE"}
    BY <1>8, <1>9, <2>2
  <2> QED
    BY <2>3, <2>4
<1>10. ASSUME NEW fd \in Fd, Abstract!Ready(fd) # {}
       PROVE  n >= sz \/ \E i \in 1 .. n : Handed(i)'.fd = fd
  <2>1. PICK f \in K!Filter : <<fd, f>> \in K!Triggered
    BY <1>10, KqueueComplete
  <2>2. CASE n < sz
    <3>1. PICK i \in 1 .. n : batch[i] = <<fd, f>>
      BY <1>2, <1>6, <2>1, <2>2
    <3> QED
      BY <1>8, <3>1
  <2> QED
    BY <1>2, <2>2
<1> QED
  BY <1>2, <1>7, <1>9, <1>10, WaitIs

LEMMA KqueueFetchIs ==
  ASSUME engine = "kqueue", engine' = engine, KqueueInv, K!Fetch, asked' = asked
  PROVE  Abstract!Fetch
<1> USE PollApiAssumption
<1>1. ready \in Int /\ ready >= -1 /\ ee \in Seq(KqueueEvent) /\ ready \in {-1, Len(ee)}
  BY DEF KqueueInv, K!TypeOK, KqueueTyped
<1>2. UNCHANGED <<io, asked>>
  BY DEF K!Fetch
<1>3. CASE ready > 0
  <2>1. /\ ready' = ready - 1 /\ ee' = SubSeq(ee, 1, ready - 1)
        /\ got' = [fd |-> ee[ready].fd, data |-> ee[ready].data,
                   events |-> K!EpEvents(ee[ready])]
    BY <1>3 DEF K!Fetch
  <2>2. ready = Len(ee) /\ ready \in Nat /\ ee[ready] \in KqueueEvent
    BY <1>1, <1>3
  <2>3. ee[ready].fd \in Fd /\ ee[ready].data \in Data
    BY <2>2 DEF KqueueEvent
  <2>4. K!EpEvents(ee[ready]) \in SUBSET {"READABLE", "WRITABLE", "EXCEPT", "ERROR"}
    BY DEF K!EpEvents
  <2>5. got' # NULL
    BY <2>1, <2>3, <2>4, NullIsNoEvent DEF Fd
  <2>6. Got' = Handed(ready)
    BY <2>1, <2>5 DEF Got, Handed
  <2>7. \A i \in 1 .. ready - 1 : ee'[i] = ee[i]
    BY <1>1, <1>3, <2>1, <2>2, SubSeqProperties
  <2>8. \A i \in 1 .. ready - 1 : Handed(i)' = Handed(i)
    BY <2>7 DEF Handed, K!EpEvents
  <2> QED
    BY <1>1, <1>2, <1>3, <2>1, <2>6, <2>8, FetchOne
<1>4. CASE ready <= 0
  <2>1. UNCHANGED <<ee, ready>> /\ Got' = NULL
    BY <1>1, <1>4 DEF K!Fetch, Got
  <2> QED
    BY <1>1, <1>2, <1>4, <2>1, FetchNone
<1> QED
  BY <1>1, <1>3, <1>4

-----------------------------------------------------------------------------
(* The other steps, the same for all engines                               *)

LEMMA OthersImplement ==
  ASSUME engine' = engine, AskedOK, Next, ~Wait, ~Fetch
  PROVE  Abstract!Next \/ UNCHANGED Abstract!vars
<1>1. CASE \E fd \in Fd, events \in SUBSET Event, data \in Data :
             \/ Add(fd, events, data) \/ Mod(fd, events, data)
             \/ ModFails(fd, events, data)
  <2>1. PICK fd \in Fd, events \in SUBSET Event, data \in Data :
          \/ Add(fd, events, data) \/ Mod(fd, events, data)
          \/ ModFails(fd, events, data)
    BY <1>1
  <2>2. UNCHANGED <<io, ee, ready, got>>
    BY <2>1 DEF Add, Mod, ModFails, WithEpoll, WithSelect, WithKqueue, E!Add, E!Mod,
                S!Add, S!Mod, S!MayChange, K!Add, K!Mod, K!ModFails, K!buffer
  <2>3. PICK now \in SUBSET Event : Asks(fd, now)
    <3>1. asked[fd] \in SUBSET Event
      BY DEF AskedOK
    <3>2. CASE Add(fd, events, data)
      BY <3>1, <3>2 DEF Add
    <3>3. CASE Mod(fd, events, data)
      BY <3>3 DEF Mod
    <3>4. CASE ModFails(fd, events, data)
      <4>1. (events \cap {"READABLE"}) \cup (asked[fd] \ {"READABLE"}) \in SUBSET Event
        BY <3>1
      <4> QED
        BY <3>4, <4>1 DEF ModFails
    <3> QED
      BY <2>1, <3>2, <3>3, <3>4
  <2> QED
    BY <2>2, <2>3, AskIs
<1>2. CASE \E fd \in Fd : Del(fd) \/ DelFails(fd)
  <2>1. PICK fd \in Fd : Del(fd) \/ DelFails(fd)
    BY <1>2
  <2>2. UNCHANGED <<io, ee, ready, got>> /\ Asks(fd, {})
    BY <2>1 DEF Del, DelFails, WithEpoll, WithSelect, WithKqueue, E!Del, S!Del, S!MayChange, K!Del,
                K!DelFails, K!buffer
  <2> QED
    BY <2>2, AskIs
<1>3. CASE \E fd \in Fd : Open(fd)
  <2>1. UNCHANGED <<io, ee, ready, got, asked>>
    BY <1>3 DEF Open, WithEpoll, WithSelect, WithKqueue, E!Open, S!Open, K!Open, K!buffer
  <2> QED
    BY <2>1, OpenIs
<1>4. CASE \E fd \in Fd : Close(fd)
  <2>1. PICK fd \in Fd : Close(fd)
    BY <1>4
  <2>2. /\ UNCHANGED <<ee, ready, got>> /\ (Asks(fd, {}) \/ asked' = asked)
        /\ io' = [io EXCEPT ![fd] = {}]
    BY <2>1 DEF Close, WithEpoll, WithSelect, WithKqueue, E!Close, S!Close, K!Close, K!buffer
  <2> QED
    BY <2>2, CloseIs
<1>5. CASE \E fd \in Fd \ {FD_SETSIZE}, conditions \in Cases : Happens(fd, conditions)
  <2>1. PICK fd \in Fd \ {FD_SETSIZE}, conditions \in Cases : Happens(fd, conditions)
    BY <1>5
  <2>2. UNCHANGED <<ee, ready, got, asked>> /\ io' = [io EXCEPT ![fd] = conditions]
    BY <2>1 DEF Happens, WithEpoll, WithSelect, WithKqueue, E!Happens, S!Happens, K!Happens,
                K!buffer
  <2> QED
    BY <2>2, HappensIs
<1>6. CASE WaitFails
  <2>1. ready' = -1 /\ got' = NULL /\ UNCHANGED <<asked, io>>
    BY <1>6 DEF WaitFails, WithEpoll, WithSelect, WithKqueue, E!WaitFails, E!kernel,
                S!WaitFails, K!WaitFails
  <2> QED
    BY <2>1, WaitFailsIs
<1>7. CASE Renew
  <2>1. ready' = 0 /\ got' = NULL /\ asked' = [fd \in Fd |-> {}] /\ io' = io
    BY <1>7 DEF Renew, WithEpoll, WithSelect, WithKqueue, E!Renew, S!Renew, K!Renew
  <2> QED
    BY <2>1, RenewIs
<1> QED
  BY <1>1, <1>2, <1>3, <1>4, <1>5, <1>6, <1>7 DEF Next

-----------------------------------------------------------------------------
(* Select                                                                  *)

(* How many elements of a set of numbers are below f.                      *)
Rank(T, f) == Cardinality({g \in T : g < f})

(* The ranks of the elements of a finite set are 0, 1, 2 and so on: they   *)
(* rise with the elements, and there are as many of them.                  *)
LEMMA RankRises ==
  ASSUME NEW T \in SUBSET Nat, IsFiniteSet(T), NEW f \in T
  PROVE  /\ Rank(T, f) \in 0 .. Cardinality(T) - 1
         /\ \A h \in T : f < h => Rank(T, f) < Rank(T, h)
<1> DEFINE below(h) == {g \in T : g < h}
<1>1. Cardinality(T) \in Nat
  BY FS_CardinalityType
<1>2. ASSUME NEW U \in SUBSET T, NEW V \in SUBSET U, V # U
      PROVE  Cardinality(V) < Cardinality(U) /\ Cardinality(V) \in Nat /\ Cardinality(U) \in Nat
  <2>1. IsFiniteSet(U)
    BY FS_Subset
  <2>2. IsFiniteSet(V) /\ Cardinality(V) <= Cardinality(U) /\ Cardinality(V) # Cardinality(U)
    BY <1>2, <2>1, FS_Subset
  <2>3. Cardinality(U) \in Nat /\ Cardinality(V) \in Nat
    BY <2>1, <2>2, FS_CardinalityType
  <2> QED
    BY <2>2, <2>3
<1>3. Rank(T, f) \in 0 .. Cardinality(T) - 1
  <2>1. below(f) \in SUBSET T /\ below(f) # T
    <3>1. f \notin below(f)
      OBVIOUS
    <3> QED
      BY <3>1
  <2>2. Cardinality(below(f)) < Cardinality(T) /\ Cardinality(below(f)) \in Nat
    BY <1>2, <2>1
  <2> QED
    BY <1>1, <2>2 DEF Rank
<1>4. ASSUME NEW h \in T, f < h PROVE Rank(T, f) < Rank(T, h)
  <2>1. below(f) \in SUBSET below(h) /\ below(h) \in SUBSET T
    <3>1. \A g \in T : g \in Nat
      OBVIOUS
    <3>2. \A g \in T : g < f => g < h
      BY <1>4, <3>1
    <3> QED
      BY <3>2
  <2>2. f \in below(h) /\ f \notin below(f)
    BY <1>4
  <2>3. below(f) # below(h)
    BY <2>2
  <2>4. Cardinality(below(f)) < Cardinality(below(h))
    BY <1>2, <2>1, <2>3
  <2> QED
    BY <2>4 DEF Rank
<1> QED
  BY <1>3, <1>4

LEMMA RankReachesAll ==
  ASSUME NEW T \in SUBSET Nat, IsFiniteSet(T)
  PROVE  \A j \in 0 .. Cardinality(T) - 1 : \E f \in T : Rank(T, f) = j
<1> DEFINE c == Cardinality(T)
           r == [f \in T |-> Rank(T, f)]
<1>1. c \in Nat
  BY FS_CardinalityType
<1>2. \A f \in T : Rank(T, f) \in 0 .. c - 1
  BY RankRises
<1>3. \A f, h \in T : f # h => Rank(T, f) # Rank(T, h)
  <2> SUFFICES ASSUME NEW f \in T, NEW h \in T, f # h PROVE Rank(T, f) # Rank(T, h)
    OBVIOUS
  <2>1. f < h => Rank(T, f) < Rank(T, h)
    BY RankRises
  <2>2. h < f => Rank(T, h) < Rank(T, f)
    BY RankRises
  <2>3. Rank(T, f) \in Int /\ Rank(T, h) \in Int /\ f \in Int /\ h \in Int
    BY <1>1, <1>2
  <2> QED
    BY <2>1, <2>2, <2>3
<1> HIDE DEF c
<1>4. r \in Injection(T, 0 .. c - 1)
  BY <1>2, <1>3 DEF Injection, IsInjective
<1>5. IsFiniteSet(0 .. c - 1) /\ Cardinality(0 .. c - 1) = c
  BY <1>1, FS_Interval
<1>6. r \in Surjection(T, 0 .. c - 1)
  BY <1>4, <1>5, FS_Injection DEF c
<1>7. \A j \in 0 .. c - 1 : \E f \in T : r[f] = j
  BY <1>6 DEF Surjection
<1> QED
  BY <1>7 DEF c

(* At each descriptor one event is asked for at most.                      *)
SelectOne == \A fd \in Fd : \A e, f \in asked[fd] : e = f

SlotEvent == [fd : 0 .. FD_SETSIZE - 1, events : (SUBSET Event) \ {{}}]

LEMMA SlotIsEvent ==
  ASSUME NEW e \in SlotEvent
  PROVE  e # NULL /\ e.events # {}
<1>1. e = [fd |-> e.fd, events |-> e.events] /\ e.fd \in 0 .. FD_SETSIZE - 1
      /\ e.events \in (SUBSET Event) \ {{}}
  BY DEF SlotEvent
<1>2. e.fd \in 0 .. FD_SETSIZE /\ e.events \in SUBSET {"READABLE", "WRITABLE", "EXCEPT", "ERROR"}
  BY <1>1, PollApiAssumption
<1>3. [fd |-> e.fd, events |-> e.events] # NULL
  BY <1>2, NullIsNoEvent
<1> QED
  BY <1>1, <1>3

(* What fetch is to hand out was put there by the last wait, in ascending  *)
(* order, and is of descriptors that are known.                            *)
SelectBuffer ==
  /\ ready \in Int /\ ready >= -1 /\ DOMAIN ee = 0 .. FD_SETSIZE - 1
  /\ \A i \in 0 .. ready - 1 : /\ i \in 0 .. FD_SETSIZE - 1
                               /\ ee[i] \in SlotEvent /\ ee[i].fd \in known
                               /\ \A j \in 0 .. i - 1 : ee[j].fd < ee[i].fd
  /\ got # NULL => \A i \in 0 .. ready - 1 : ee[i].fd # got.fd

SelectFill == SelectOne /\ SelectBuffer

(* What the wait finds at descriptors that select looks at.                *)
Low == S!Triggered({})

(* There is a bit for each such descriptor, and only one.                  *)
LEMMA BitsAreLow ==
  ASSUME SelectInv, AskedOK, SelectOne
  PROVE  /\ Low \in SUBSET (0 .. FD_SETSIZE - 1) /\ IsFiniteSet(Low)
         /\ S!Bits = Cardinality(Low) /\ S!Bits \in 0 .. FD_SETSIZE
<1> USE PollApiAssumption
<1> DEFINE P == {p \in Event \X Fd : p[2] \in S!Left(p[1], {})}
           F == [p \in P |-> p[2]]
<1>1. \A e \in Event : want[e] \subseteq 0 .. FD_SETSIZE - 1
  BY DEF SelectInv, S!TypeOK
<1>2. \A e \in Event : S!Left(e, {}) \subseteq want[e]
  BY DEF S!Left
<1>3. Low \in SUBSET (0 .. FD_SETSIZE - 1)
  BY <1>1, <1>2 DEF Low, S!Triggered
<1>4. IsFiniteSet(0 .. FD_SETSIZE - 1) /\ Cardinality(0 .. FD_SETSIZE - 1) = FD_SETSIZE
  BY FS_Interval
<1>5. IsFiniteSet(Low) /\ Cardinality(Low) <= FD_SETSIZE /\ Cardinality(Low) \in Nat
  <2>1. PICK all : all = 0 .. FD_SETSIZE - 1
    OBVIOUS
  <2>2. IsFiniteSet(all) /\ Cardinality(all) = FD_SETSIZE /\ Low \in SUBSET all
    BY <1>3, <1>4, <2>1
  <2>3. IsFiniteSet(Low) /\ Cardinality(Low) <= FD_SETSIZE
    BY <2>2, FS_Subset
  <2> QED
    BY <2>3, FS_CardinalityType
<1>6. 0 .. FD_SETSIZE - 1 \subseteq Fd
  BY DEF Fd
<1>7. F \in [P -> Low]
  <2>1. \A e \in Event : S!Left(e, {}) \subseteq Low
    BY DEF Low, S!Triggered
  <2>2. \A p \in P : p[1] \in Event /\ p[2] \in S!Left(p[1], {})
    OBVIOUS
  <2>3. \A p \in P : p[2] \in Low
    BY <2>1, <2>2
  <2> QED
    BY <2>3
<1>8. \A p, q \in P : F[p] = F[q] => p = q
  <2> SUFFICES ASSUME NEW p \in P, NEW q \in P, p[2] = q[2] PROVE p = q
    OBVIOUS
  <2>1. p \in Event \X Fd /\ q \in Event \X Fd /\ p[2] \in want[p[1]] /\ q[2] \in want[q[1]]
    BY <1>2
  <2>2. p[1] \in asked[p[2]] /\ q[1] \in asked[p[2]] /\ p[2] \in Fd
    BY <2>1 DEF SelectInv, SelectAsked
  <2>3. p[1] = q[1]
    BY <2>2 DEF SelectOne
  <2> QED
    BY <2>1, <2>3
<1>9. \A f \in Low : \E p \in P : F[p] = f
  <2> SUFFICES ASSUME NEW f \in Low PROVE \E p \in P : F[p] = f
    OBVIOUS
  <2>1. PICK e \in Event : f \in S!Left(e, {})
    BY DEF Low, S!Triggered
  <2>2. <<e, f>> \in P
    BY <1>3, <1>6, <2>1
  <2> QED
    BY <2>2
<1> HIDE DEF P, F
<1>10. F \in Bijection(P, Low)
  BY <1>7, <1>8, <1>9 DEF Bijection, Injection, IsInjective, Surjection
<1>11. Cardinality(P) = Cardinality(Low)
  <2>1. F \in Injection(P, Low) /\ F \in Surjection(P, Low)
    BY <1>10 DEF Bijection
  <2>2. IsFiniteSet(P) /\ (Cardinality(P) = Cardinality(Low) <=> F \in Surjection(P, Low))
    BY <1>5, <2>1, FS_Injection
  <2> QED
    BY <2>1, <2>2
<1>12. S!Bits = Cardinality(P)
  BY SameCount DEF S!Bits, P, Fd, S!Fd
<1> QED
  BY <1>3, <1>5, <1>11, <1>12

(* A wait fills the slots with them in ascending order, as many as there   *)
(* are bits: what select may have left above maxfd comes behind.           *)
LEMMA SelectFills ==
  ASSUME SelectInv, AskedOK, SelectOne, SelectBuffer,
         NEW above \in SUBSET S!Above, S!Wait(above)
  PROVE  /\ DOMAIN ee' = 0 .. FD_SETSIZE - 1
         /\ \A f \in Low :
              /\ Rank(Low, f) \in 0 .. S!Bits - 1
              /\ ee'[Rank(Low, f)] = [fd |-> f, events |-> {e \in Event : f \in S!Left(e, {})}]
<1> USE PollApiAssumption
<1> DEFINE All == S!Triggered(above)
           Found(j) == {x \in All : S!Cardinality({g \in All : g < x}) = j}
<1>1. /\ Low \in SUBSET (0 .. FD_SETSIZE - 1) /\ IsFiniteSet(Low)
      /\ S!Bits = Cardinality(Low) /\ S!Bits \in 0 .. FD_SETSIZE
  BY BitsAreLow
<1>2. maxfd \in Int /\ \A e \in Event : want[e] \subseteq 0 .. FD_SETSIZE - 1
  BY DEF SelectInv, S!TypeOK
<1>3. \A e \in Event : \A f \in 0 .. FD_SETSIZE - 1 :
        /\ f \in S!Left(e, {}) => f <= maxfd
        /\ f <= maxfd => (f \in S!Left(e, above) <=> f \in S!Left(e, {}))
  BY DEF S!Left
<1>4. All \subseteq 0 .. FD_SETSIZE - 1
  BY <1>2 DEF S!Triggered, S!Left
<1>5. \A f \in 0 .. FD_SETSIZE - 1 : f \in Low <=> f \in All /\ f <= maxfd
  BY <1>3 DEF Low, S!Triggered
<1>6. /\ DOMAIN ee' = 0 .. FD_SETSIZE - 1
      /\ \A j \in 0 .. FD_SETSIZE - 1 : ee'[j] =
           IF j >= S!Bits \/ Found(j) = {} THEN ee[j]
           ELSE LET f == CHOOSE f \in Found(j) : TRUE
                IN  [fd |-> f, events |-> {e \in Event : f \in S!Left(e, above)}]
  BY DEF S!Wait, SelectBuffer
<1> HIDE DEF All, Found
<1>7. All \in SUBSET Nat /\ IsFiniteSet(All)
  <2>1. IsFiniteSet(0 .. FD_SETSIZE - 1) /\ 0 .. FD_SETSIZE - 1 \subseteq Nat
    BY FS_Interval
  <2>2. IsFiniteSet(All)
    BY <1>4, <2>1, FS_Subset
  <2> QED
    BY <1>4, <2>1, <2>2
<1>8. \A f : S!Cardinality({g \in All : g < f}) = Rank(All, f)
  BY SameCount DEF Rank
<1>9. ASSUME NEW f \in Low
      PROVE  /\ Rank(Low, f) \in 0 .. S!Bits - 1
             /\ ee'[Rank(Low, f)] = [fd |-> f, events |-> {e \in Event : f \in S!Left(e, {})}]
  <2> DEFINE j == Rank(Low, f)
  <2>1. Rank(Low, f) \in 0 .. Cardinality(Low) - 1
    BY <1>1, RankRises
  <2>2. f \in All /\ f <= maxfd /\ f \in 0 .. FD_SETSIZE - 1
    BY <1>1, <1>5
  <2>3. {g \in All : g < f} = {g \in Low : g < f}
    <3>1. ASSUME NEW g \in 0 .. FD_SETSIZE - 1, g < f PROVE g \in Low <=> g \in All
      <4>1. g <= maxfd
        BY <1>2, <2>2, <3>1
      <4> QED
        BY <1>5, <4>1
    <3> QED
      BY <1>1, <1>4, <3>1
  <2>4. Rank(All, f) = Rank(Low, f)
    BY <2>3 DEF Rank
  <2>5. \A h \in All : Rank(All, h) = Rank(Low, f) => h = f
    <3> SUFFICES ASSUME NEW h \in All, h # f PROVE Rank(All, h) # Rank(All, f)
      BY <2>4
    <3>1. h \in Nat /\ f \in Nat
      BY <1>7, <2>2
    <3>2. Rank(All, h) \in Int /\ Rank(All, f) \in Int
      BY <1>7, <2>2, RankRises
    <3>3. (h < f => Rank(All, h) < Rank(All, f)) /\ (f < h => Rank(All, f) < Rank(All, h))
      BY <1>7, <2>2, RankRises
    <3> QED
      BY <3>1, <3>2, <3>3
  <2>6. Found(j) = {f}
    <3>1. Found(j) = {x \in All : Rank(All, x) = j}
      BY <1>8 DEF Found
    <3>2. f \in All /\ Rank(All, f) = j /\ \A h \in All : Rank(All, h) = j => h = f
      BY <2>2, <2>4, <2>5
    <3> HIDE DEF j
    <3> QED
      BY <3>1, <3>2
  <2>7. j \in 0 .. FD_SETSIZE - 1 /\ ~(j >= S!Bits) /\ j \in 0 .. S!Bits - 1
    BY <1>1, <2>1
  <2>8. (CHOOSE x \in {f} : TRUE) = f /\ {f} # {}
    OBVIOUS
  <2> HIDE DEF j
  <2>9. ee'[j] = [fd |-> f, events |-> {e \in Event : f \in S!Left(e, above)}]
    BY <1>6, <2>6, <2>7, <2>8
  <2>10. {e \in Event : f \in S!Left(e, above)} = {e \in Event : f \in S!Left(e, {})}
    BY <1>3, <2>2
  <2> QED
    BY <2>7, <2>9, <2>10 DEF j
<1> QED
  BY <1>6, <1>9

(* The other way round: whose event a slot holds.                          *)
LEMMA SlotIs ==
  ASSUME SelectInv, AskedOK, SelectOne, SelectBuffer,
         NEW above \in SUBSET S!Above, S!Wait(above), NEW i \in 0 .. S!Bits - 1
  PROVE  \E f \in Low :
           /\ Rank(Low, f) = i
           /\ ee'[i] = [fd |-> f, events |-> {e \in Event : f \in S!Left(e, {})}]
           /\ ee'[i] \in SlotEvent /\ f \in known
<1> USE PollApiAssumption
<1>1. /\ Low \in SUBSET (0 .. FD_SETSIZE - 1) /\ IsFiniteSet(Low)
      /\ S!Bits = Cardinality(Low) /\ Low \in SUBSET Nat
  <2>1. 0 .. FD_SETSIZE - 1 \subseteq Nat
    OBVIOUS
  <2> QED
    BY <2>1, BitsAreLow
<1>2. PICK f \in Low : Rank(Low, f) = i
  BY <1>1, RankReachesAll
<1>3. ee'[i] = [fd |-> f, events |-> {e \in Event : f \in S!Left(e, {})}]
  BY <1>2, SelectFills
<1>4. PICK e \in Event : f \in S!Left(e, {})
  BY DEF Low, S!Triggered
<1>5. f \in known
  BY <1>4 DEF S!Left, SelectInv, SelectKnown
<1>6. {a \in Event : f \in S!Left(a, {})} \in (SUBSET Event) \ {{}}
  BY <1>4
<1>7. ee'[i] \in SlotEvent
  <2> DEFINE left == {a \in Event : f \in S!Left(a, {})}
  <2>1. f \in 0 .. FD_SETSIZE - 1
    BY <1>1
  <2> HIDE DEF left
  <2>2. [fd |-> f, events |-> left] \in SlotEvent
    BY <1>6, <2>1 DEF left, SlotEvent
  <2> QED
    BY <1>3, <2>2 DEF left
<1> QED
  BY <1>2, <1>3, <1>5, <1>7

LEMMA SelectWaitFills ==
  ASSUME SelectInv, AskedOK, SelectOne, SelectBuffer,
         NEW above \in SUBSET S!Above, S!Wait(above)
  PROVE  SelectBuffer'
<1> USE PollApiAssumption
<1>1. ready' = S!Bits /\ got' = NULL /\ known' = known
  BY DEF S!Wait
<1>2. S!Bits \in 0 .. FD_SETSIZE /\ Low \in SUBSET Nat /\ IsFiniteSet(Low)
  <2>1. 0 .. FD_SETSIZE - 1 \subseteq Nat
    OBVIOUS
  <2> QED
    BY <2>1, BitsAreLow
<1>3. DOMAIN ee' = 0 .. FD_SETSIZE - 1
  BY SelectFills
<1>4. ASSUME NEW i \in 0 .. S!Bits - 1
      PROVE  /\ i \in 0 .. FD_SETSIZE - 1 /\ ee'[i] \in SlotEvent /\ ee'[i].fd \in known
             /\ \A j \in 0 .. i - 1 : ee'[j].fd < ee'[i].fd
  <2>1. PICK f \in Low : Rank(Low, f) = i /\ ee'[i] \in SlotEvent /\ ee'[i].fd = f /\ f \in known
    <3>1. PICK f \in Low :
            /\ Rank(Low, f) = i
            /\ ee'[i] = [fd |-> f, events |-> {e \in Event : f \in S!Left(e, {})}]
            /\ ee'[i] \in SlotEvent /\ f \in known
      BY <1>4, SlotIs
    <3>2. ee'[i].fd = f
      BY <3>1
    <3> QED
      BY <3>1, <3>2
  <2>2. ASSUME NEW j \in 0 .. i - 1 PROVE ee'[j].fd < f
    <3>1. j \in 0 .. S!Bits - 1 /\ j < i /\ i \in Int /\ j \in Int
      BY <1>2, <1>4, <2>2
    <3>2. PICK g \in Low : Rank(Low, g) = j /\ ee'[j].fd = g
      <4>1. PICK g \in Low :
              /\ Rank(Low, g) = j
              /\ ee'[j] = [fd |-> g, events |-> {e \in Event : g \in S!Left(e, {})}]
              /\ ee'[j] \in SlotEvent /\ g \in known
        BY <3>1, SlotIs
      <4>2. ee'[j].fd = g
        BY <4>1
      <4> QED
        BY <4>1, <4>2
    <3>3. f \in Nat /\ g \in Nat
      BY <1>2
    <3>4. f < g => Rank(Low, f) < Rank(Low, g)
      BY <1>2, RankRises
    <3>5. f # g
      BY <2>1, <3>1, <3>2
    <3> QED
      BY <2>1, <3>1, <3>2, <3>3, <3>4, <3>5
  <2> QED
    BY <1>2, <1>4, <2>1, <2>2
<1>5. ready' \in Int /\ ready' >= -1
  BY <1>1, <1>2
<1> QED
  BY <1>1, <1>3, <1>4, <1>5 DEF SelectBuffer

(* No event asked for, or one.                                             *)
LEMMA AtMostOne ==
  ASSUME NEW events, events \subseteq Event, SelectMayAsk(events)
  PROVE  \A e, f \in events : e = f
<1>1. IsFiniteSet(events) /\ Cardinality(events) \in Nat
  <2>1. IsFiniteSet({"READABLE"} \cup {"WRITABLE"} \cup {"EXCEPT"})
    <3>1. IsFiniteSet({"READABLE"})
      BY FS_Singleton
    <3>2. IsFiniteSet({"READABLE"} \cup {"WRITABLE"})
      BY <3>1, FS_AddElement
    <3> QED
      BY <3>2, FS_AddElement
  <2>2. events \in SUBSET ({"READABLE"} \cup {"WRITABLE"} \cup {"EXCEPT"})
    BY PollApiAssumption
  <2>3. IsFiniteSet(events)
    BY <2>1, <2>2, FS_Subset
  <2> QED
    BY <2>3, FS_CardinalityType
<1>2. CASE Cardinality(events) = 0
  BY <1>1, <1>2, FS_EmptySet
<1>3. CASE Cardinality(events) = 1
  <2>1. \E x : events = {x}
    BY <1>1, <1>3, FS_Singleton
  <2> QED
    BY <2>1
<1> QED
  BY <1>1, <1>2, <1>3 DEF SelectMayAsk

LEMMA SelectOneNext ==
  ASSUME engine = "select", AskedOK, SelectOne, Next
  PROVE  SelectOne'
<1>1. ASSUME NEW fd \in Fd, NEW events \in SUBSET Event, SelectMayAsk(events), Asks(fd, events)
      PROVE  SelectOne'
  <2>1. \A e, f \in events : e = f
    BY <1>1, AtMostOne
  <2>2. asked'[fd] = events /\ \A f \in Fd \ {fd} : asked'[f] = asked[f]
    BY <1>1 DEF AskedOK, Asks
  <2> QED
    BY <2>1, <2>2 DEF SelectOne
<1>2. ASSUME NEW fd \in Fd, Asks(fd, {}) PROVE SelectOne'
  BY <1>2 DEF Asks, AskedOK, SelectOne
<1>3. CASE \E fd \in Fd, events \in SUBSET Event, data \in Data :
             Add(fd, events, data) \/ Mod(fd, events, data)
  <2>1. PICK fd \in Fd, events \in SUBSET Event, data \in Data :
          Add(fd, events, data) \/ Mod(fd, events, data)
    BY <1>3
  <2>2. CASE Add(fd, events, data)
    <3>1. SelectMayAsk(asked[fd] \cup events) /\ Asks(fd, asked[fd] \cup events)
      BY <2>2 DEF Add, WithEpoll, WithKqueue
    <3>2. asked[fd] \cup events \in SUBSET Event
      BY DEF AskedOK
    <3> QED
      BY <1>1, <3>1, <3>2
  <2>3. CASE Mod(fd, events, data)
    <3>1. SelectMayAsk(events) /\ Asks(fd, events)
      BY <2>3 DEF Mod, WithEpoll, WithKqueue
    <3> QED
      BY <1>1, <3>1
  <2> QED
    BY <2>1, <2>2, <2>3
<1>4. CASE \E fd \in Fd : Del(fd)
  BY <1>2, <1>4 DEF Del
<1>5. CASE Renew
  BY <1>5 DEF Renew, SelectOne
<1>6. CASE asked' = asked
  BY <1>6 DEF SelectOne
<1> QED
  BY <1>3, <1>4, <1>5, <1>6
  DEF Next, ModFails, DelFails, Open, Close, Happens, Wait, WaitFails, Fetch, WithEpoll, WithKqueue

LEMMA SelectFillNext ==
  ASSUME engine = "select", SelectInv, AskedOK, SelectFill, Next
  PROVE  SelectFill'
<1> USE PollApiAssumption
<1>1. SelectOne /\ SelectBuffer /\ SelectOne'
  BY SelectOneNext DEF SelectFill
<1>2. CASE Wait
  <2>1. PICK above \in SUBSET S!Above : S!Wait(above)
    BY <1>2 DEF Wait, WithEpoll, WithKqueue
  <2> QED
    BY <1>1, <2>1, SelectWaitFills DEF SelectFill
<1>3. CASE Fetch
  <2>1. S!Fetch
    BY <1>3 DEF Fetch, WithEpoll, WithKqueue
  <2>2. CASE ready > 0
    <3>1. ready' = ready - 1 /\ got' = ee[ready - 1] /\ UNCHANGED <<known, ee>>
      BY <2>1, <2>2, <1>1 DEF S!Fetch, SelectBuffer
    <3>2. \A i \in 0 .. ready - 2 : i \in 0 .. ready - 1 /\ i \in 0 .. (ready - 1) - 1
      BY <1>1 DEF SelectBuffer
    <3>3. \A i \in 0 .. ready - 2 : ee[i].fd < ee[ready - 1].fd
      BY <1>1, <2>2, <3>2 DEF SelectBuffer
    <3>4. \A i \in 0 .. ready - 2 : ee[i].fd # ee[ready - 1].fd
      <4>1. \A i \in 0 .. ready - 1 : ee[i].fd \in Int
        BY <1>1 DEF SelectBuffer, SlotEvent
      <4>2. ready - 1 \in 0 .. ready - 1
        BY <1>1, <2>2 DEF SelectBuffer
      <4> QED
        BY <3>2, <3>3, <4>1, <4>2
    <3>5. SelectBuffer'
      BY <1>1, <2>2, <3>1, <3>2, <3>4 DEF SelectBuffer
    <3> QED
      BY <1>1, <3>5 DEF SelectFill
  <2>3. CASE ~(ready > 0)
    BY <1>1, <2>1, <2>3 DEF S!Fetch, SelectFill, SelectBuffer
  <2> QED
    BY <2>2, <2>3
<1>4. CASE WaitFails
  <2>1. ready' = -1 /\ got' = NULL /\ UNCHANGED <<known, ee>>
    BY <1>4 DEF WaitFails, WithEpoll, WithKqueue, S!WaitFails
  <2> QED
    BY <1>1, <2>1 DEF SelectFill, SelectBuffer
<1>5. CASE Renew
  <2>1. ready' = 0 /\ got' = NULL /\ DOMAIN ee' = 0 .. FD_SETSIZE - 1
    BY <1>5 DEF Renew, WithEpoll, WithKqueue, S!Renew
  <2> QED
    BY <1>1, <2>1 DEF SelectFill, SelectBuffer
<1>6. CASE \E fd \in Fd : Del(fd)
  <2>1. PICK fd \in Fd : Del(fd)
    BY <1>6
  <2>2. SelectMayTouch(fd) /\ fd \in known /\ known' = known \ {fd} /\ UNCHANGED <<ee, ready, got>>
    BY <2>1 DEF Del, WithEpoll, WithKqueue, S!Del, S!MayChange
  <2>3. \A i \in 0 .. ready - 1 : ee[i].fd # fd
    BY <1>1, <2>2 DEF SelectMayTouch, SelectBuffer
  <2> QED
    BY <1>1, <2>2, <2>3 DEF SelectFill, SelectBuffer
<1>7. CASE known \subseteq known' /\ UNCHANGED <<ee, ready, got>>
  BY <1>1, <1>7 DEF SelectFill, SelectBuffer
<1>8. ASSUME NEW fd \in Fd, NEW events, NEW data,
             Add(fd, events, data) \/ Mod(fd, events, data) \/ Open(fd) \/ Close(fd)
             \/ \E conditions \in Cases : Happens(fd, conditions)
      PROVE  known \subseteq known' /\ UNCHANGED <<ee, ready, got>>
  BY <1>8 DEF Add, Mod, Open, Close, Happens, WithEpoll, WithKqueue, S!Add, S!Mod, S!MayChange, S!Open,
              S!Close, S!Happens
<1> QED
  BY <1>2, <1>3, <1>4, <1>5, <1>6, <1>7, <1>8
  DEF Next, ModFails, DelFails, WithKqueue

LEMMA SelectWaitIs ==
  ASSUME engine = "select", engine' = engine, SelectInv, AskedOK, SelectFill,
         NEW above \in SUBSET S!Above, S!Wait(above), asked' = asked
  PROVE  Abstract!Wait
<1> USE PollApiAssumption DEF SelectFill
<1>1. ready' = S!Bits /\ got' = NULL /\ UNCHANGED <<asked, io>>
  BY DEF S!Wait
<1>2. S!Bits \in Nat
  BY BitsAreLow
<1>3. Low \in SUBSET Fd /\ maxfd \in Int
  <2>1. 0 .. FD_SETSIZE - 1 \subseteq Fd
    BY DEF Fd
  <2> QED
    BY <2>1, BitsAreLow DEF SelectInv, S!TypeOK
<1>4. \A i \in 1 .. S!Bits : Handed(i)' = ee'[i - 1]
  BY DEF Handed
<1>5. \A e \in Event : Abstract!Cause(e) = S!Cause(e)
  BY DEF Abstract!Cause, S!Cause
<1>6. \A fd \in Fd, e \in Event : e \in asked[fd] <=> fd \in want[e]
  BY DEF SelectInv, SelectAsked
<1>7. \A fd \in Fd : asked[fd] \subseteq Event
  BY DEF AskedOK
<1>8. ASSUME NEW fd \in Fd
      PROVE  {e \in Event : fd \in S!Left(e, {})} = IF fd <= maxfd THEN Abstract!Ready(fd) ELSE {}
  <2>1. \A e \in Event : fd \in S!Left(e, {}) <=>
          e \in asked[fd] /\ fd <= maxfd /\ io[fd] \cap S!Cause(e) # {}
    BY <1>6 DEF S!Left
  <2> QED
    BY <1>5, <1>7, <2>1 DEF Abstract!Ready
<1>9. ASSUME NEW i \in 1 .. S!Bits
      PROVE  /\ Handed(i)'.events # {}
             /\ Handed(i)'.events \subseteq Abstract!Reportable(Handed(i)'.fd)
  <2>1. i - 1 \in 0 .. S!Bits - 1
    BY <1>2
  <2>2. PICK f \in Low :
          /\ ee'[i - 1] = [fd |-> f, events |-> {e \in Event : f \in S!Left(e, {})}]
          /\ ee'[i - 1] \in SlotEvent
    BY <2>1, SlotIs
  <2>3. /\ Handed(i)'.fd = f /\ Handed(i)'.events \subseteq Abstract!Ready(f)
        /\ Handed(i)'.events # {}
    BY <1>3, <1>4, <1>8, <2>2 DEF SlotEvent
  <2> QED
    BY <2>3 DEF Abstract!Reportable
<1>10. ASSUME NEW fd \in 0 .. maxfd, Abstract!Ready(fd) # {}
       PROVE  \E i \in 1 .. S!Bits : Handed(i)'.fd = fd
  <2>1. fd \in Fd /\ fd <= maxfd
    BY <1>3 DEF SelectInv, S!TypeOK, Fd
  <2>2. PICK e \in Event : fd \in S!Left(e, {})
    BY <1>8, <1>10, <2>1
  <2>3. fd \in Low
    BY <2>2 DEF Low, S!Triggered
  <2>4. /\ Rank(Low, fd) \in 0 .. S!Bits - 1
        /\ ee'[Rank(Low, fd)] = [fd |-> fd, events |-> {a \in Event : fd \in S!Left(a, {})}]
    BY <2>3, SelectFills
  <2>5. PICK i \in 1 .. S!Bits : i - 1 = Rank(Low, fd)
    <3>1. Rank(Low, fd) + 1 \in 1 .. S!Bits /\ (Rank(Low, fd) + 1) - 1 = Rank(Low, fd)
      BY <1>2, <2>4
    <3> QED
      BY <3>1
  <2> QED
    BY <1>4, <2>4, <2>5
<1> QED
  BY <1>1, <1>2, <1>9, <1>10, WaitIs

LEMMA SelectFetchIs ==
  ASSUME engine = "select", engine' = engine, SelectFill, S!Fetch, asked' = asked
  PROVE  Abstract!Fetch
<1> USE PollApiAssumption DEF SelectFill
<1>1. ready \in Int /\ ready >= -1 /\ DOMAIN ee = 0 .. FD_SETSIZE - 1
  BY DEF SelectBuffer
<1>2. UNCHANGED <<ee, io, asked>>
  BY DEF S!Fetch
<1>3. CASE ready > 0
  <2>1. ready - 1 \in 0 .. ready - 1
    BY <1>1, <1>3
  <2>2. ready - 1 \in 0 .. FD_SETSIZE - 1 /\ ee[ready - 1] \in SlotEvent
    BY <2>1 DEF SelectBuffer
  <2>3. ready' = ready - 1 /\ got' = ee[ready - 1]
    BY <1>1, <1>3, <2>2 DEF S!Fetch
  <2>4. got' = [fd |-> got'.fd, events |-> got'.events]
    BY <2>2, <2>3 DEF SlotEvent
  <2>5. got' # NULL
    BY <2>2, <2>3, SlotIsEvent
  <2>6. Got' = Handed(ready)
    BY <2>3, <2>4, <2>5 DEF Got, Handed
  <2>7. \A i \in 1 .. ready - 1 : Handed(i)' = Handed(i)
    BY <1>2 DEF Handed
  <2> QED
    BY <1>1, <1>2, <1>3, <2>3, <2>6, <2>7, FetchOne
<1>4. CASE ready <= 0
  <2>1. ready' = ready /\ Got' = NULL
    BY <1>1, <1>4 DEF S!Fetch, Got
  <2> QED
    BY <1>1, <1>2, <1>4, <2>1, FetchNone
<1> QED
  BY <1>1, <1>3, <1>4

-----------------------------------------------------------------------------
(* The theorems                                                            *)

(***************************************************************************)
(* The inductive invariant with the buffer of select: of each descriptor   *)
(* one event is asked for, so that there are as many slots filled as there *)
(* are bits.                                                               *)
(***************************************************************************)
FillInv == IInv /\ (engine = "select" => SelectFill)

THEOREM SlotsFilled == Spec => []FillInv
<1>1. Init => (engine = "select" => SelectFill)
  BY PollApiAssumption DEF Init, S!Init, SelectFill, SelectOne, SelectBuffer
<1>2. IInv /\ (engine = "select" => SelectFill) /\ [Next]_vars => (engine = "select" => SelectFill)'
  <2> SUFFICES ASSUME IInv, engine = "select" => SelectFill, [Next]_vars
               PROVE  (engine = "select" => SelectFill)'
    OBVIOUS
  <2>1. engine' = engine
    BY EngineSame
  <2>2. CASE Next
    BY <2>1, <2>2, SelectFillNext DEF IInv
  <2>3. CASE UNCHANGED vars
    BY <2>3 DEF vars, shared, select, SelectFill, SelectOne, SelectBuffer
  <2> QED
    BY <2>2, <2>3
<1> QED
  BY PollApiInvariance, <1>1, <1>2, PTL DEF Spec, FillInv

(***************************************************************************)
(* No event left in the buffer is stale, whichever the engine: a client    *)
(* that changes only what it fetched last is never handed an event of a    *)
(* descriptor that was closed or deleted since, and none twice.            *)
(***************************************************************************)
THEOREM BufferStaysFresh == Spec => []FreshBuffer
<1>1. FillInv => FreshBuffer
  <2> SUFFICES ASSUME FillInv PROVE FreshBuffer
    OBVIOUS
  <2>1. CASE engine = "select"
    <3>1. SelectBuffer
      BY <2>1 DEF FillInv, SelectFill
    <3>2. ASSUME NEW i \in 0 .. ready - 1
          PROVE  i \in DOMAIN ee /\ ee[i] # NULL /\ ee[i].events # {} /\ ee[i].fd \in known
      <4>1. i \in DOMAIN ee /\ ee[i] \in SlotEvent /\ ee[i].fd \in known
        BY <3>1, <3>2 DEF SelectBuffer
      <4> QED
        BY <4>1, SlotIsEvent
    <3>3. \A i \in 0 .. ready - 1 : \A j \in 0 .. i - 1 : ee[j].fd < ee[i].fd
      BY <3>1 DEF SelectBuffer
    <3> QED
      BY <2>1, <3>2, <3>3 DEF FreshBuffer, S!BufferFilled
  <2>2. CASE engine # "select"
    BY <2>2 DEF FillInv, IInv, FreshBuffer, EpollInv, KqueueInv
  <2> QED
    BY <2>1, <2>2
<1> QED
  BY SlotsFilled, <1>1, PTL

(***************************************************************************)
(* Each engine implements PollEngine: what a wait has left was asked for   *)
(* and is the case, nothing that is polled is missed unless the buffer is  *)
(* full, and fetch hands out all of it, once.  With kqueue, exceptional    *)
(* conditions must not be asked for.                                       *)
(***************************************************************************)
THEOREM EnginesImplement ==
  Spec /\ (engine = "kqueue" => NoExcept) => ImplementsPollEngine
<1>1. Init => Abstract!Init
  <2> SUFFICES ASSUME Init PROVE Abstract!Init
    OBVIOUS
  <2>1. ready = 0 /\ got = NULL /\ asked = [fd \in Fd |-> {}] /\ io = [fd \in Fd |-> {}]
    BY DEF Init, E!Init, S!Init, K!Init, Fd, S!Fd
  <2>2. Batch = [i \in 1 .. 0 |-> Batch[i]]
    BY <2>1 DEF Batch
  <2>3. Batch = <<>>
    BY <2>2, BatchIsSeq
  <2> QED
    BY <2>1, <2>3 DEF Abstract!Init, Batch
<1>2. FillInv /\ (engine = "kqueue" => NoExcept) /\ [Next]_vars => [Abstract!Next]_(Abstract!vars)
  <2> SUFFICES ASSUME FillInv, engine = "kqueue" => NoExcept, [Next]_vars
               PROVE  Abstract!Next \/ UNCHANGED Abstract!vars
    OBVIOUS
  <2>1. engine' = engine /\ AskedOK /\ engine \in {"epoll", "select", "kqueue"}
    BY EngineSame DEF FillInv, IInv
  <2>2. CASE Next /\ ~Wait /\ ~Fetch
    BY <2>1, <2>2, OthersImplement
  <2>3. CASE Wait
    <3>1. CASE engine = "epoll"
      <4>1. PICK batch \in E!Batches : E!Wait(batch) /\ asked' = asked
        BY <2>3, <3>1 DEF Wait, WithSelect, WithKqueue
      <4> QED
        BY <2>1, <3>1, <4>1, EpollWaitIs DEF FillInv, IInv, Abstract!Next
    <3>2. CASE engine = "select"
      <4>1. PICK above \in SUBSET S!Above : S!Wait(above) /\ asked' = asked
        BY <2>3, <3>2 DEF Wait, WithEpoll, WithKqueue
      <4> QED
        BY <2>1, <3>2, <4>1, SelectWaitIs DEF FillInv, IInv, Abstract!Next
    <3>3. CASE engine = "kqueue"
      <4>1. PICK batch \in K!Batches : K!Wait(batch) /\ asked' = asked
        BY <2>3, <3>3 DEF Wait, WithEpoll, WithSelect
      <4> QED
        BY <2>1, <3>3, <4>1, KqueueWaitIs DEF FillInv, IInv, Abstract!Next
    <3> QED
      BY <2>1, <3>1, <3>2, <3>3
  <2>4. CASE Fetch
    <3>1. /\ asked' = asked
          /\ engine = "epoll" => E!Fetch
          /\ engine = "select" => S!Fetch
          /\ engine = "kqueue" => K!Fetch
      BY <2>4 DEF Fetch, WithEpoll, WithSelect, WithKqueue
    <3> QED
      BY <2>1, <3>1, EpollFetchIs, SelectFetchIs, KqueueFetchIs
      DEF FillInv, IInv, Abstract!Next
  <2>5. CASE UNCHANGED vars
    <3>1. UNCHANGED <<engine, ee, ready, got, io, asked>>
      BY <2>5 DEF vars, shared
    <3> QED
      BY <3>1, OpenIs
  <2> QED
    BY <2>2, <2>3, <2>4, <2>5
<1> QED
  BY SlotsFilled, EngineStays, <1>1, <1>2, PTL DEF Spec, ImplementsPollEngine, Abstract!Spec
=============================================================================
