------------------------------ MODULE PollApi ------------------------------
(***************************************************************************)
(* The poll interface of libep (src/src/ep_pollapi.h): ep_pollapi_* are    *)
(* the functions of the one engine that platform.h and USE_SELECT choose,  *)
(* so all three must do for a client that keeps the contracts below.       *)
(***************************************************************************)
EXTENDS Integers, Sequences, FiniteSets

CONSTANTS
  FD_SETSIZE,  \* the descriptors are 0 .. FD_SETSIZE - 1, and one beyond
  Data,        \* what clients attach to a registration
  Event,       \* what they ask for
  Condition,   \* what can be the case at a descriptor,
  Cases,       \* and in which combinations
  NULL,        \* nothing was fetched
  sz           \* the size of the buffers of epoll and kqueue

ASSUME PollApiAssumption ==
  /\ FD_SETSIZE \in Nat \ {0} /\ sz \in Nat \ {0} /\ NULL \notin Data
  /\ Event \subseteq {"READABLE", "WRITABLE", "EXCEPT"}
  /\ Condition \subseteq {"IN", "OUT", "PRI", "ERR", "HUP"}
  /\ Cases \subseteq SUBSET Condition

(* ... and it is told apart from an event.                                 *)
ASSUME NullIsNoEvent ==
  LET events == SUBSET {"READABLE", "WRITABLE", "EXCEPT", "ERROR"}
  IN  /\ NULL \notin [fd : 0 .. FD_SETSIZE, data : Data, events : events]
      /\ NULL \notin [fd : 0 .. FD_SETSIZE, events : events]

VARIABLES
  engine,                          \* "epoll", "select" or "kqueue"
  open, io, ee, ready, got,        \* common to all
  interest,                        \* epoll
  known, want, fds, maxfd, errno,  \* select
  knote,                           \* kqueue
  asked    \* the events the client has asked for, by calls that returned 0

shared == <<open, io, ee, ready, got>>
epoll == <<interest>>
select == <<known, want, fds, maxfd, errno>>
kqueue == <<knote>>
vars == <<engine, shared, epoll, select, kqueue, asked>>

Fd == 0 .. FD_SETSIZE

E == INSTANCE Epoll WITH NoEvent <- NULL
S == INSTANCE Select WITH Garbage <- NULL, ClosesFirst <- TRUE
K == INSTANCE Kqueue WITH NoEvent <- NULL


(***************************************************************************)
(* Contracts.  All engines: while events are left, the client changes only *)
(* the descriptor it fetched last (Epoll and Kqueue say it in detail).     *)
(* Select counts events and not descriptors, so only one event is asked    *)
(* for at each.                                                            *)
(***************************************************************************)
SelectMayTouch(fd) == fd \notin known \/ ready <= 0 \/ (got # NULL /\ fd = got.fd)
SelectMayAsk(events) == Cardinality(events) <= 1

(* Bounds: the engines without a limit get no descriptor beyond it, and as *)
(* no engine watches that one, nothing happens there.                      *)
MayOpen(fd) == engine = "select" \/ fd < FD_SETSIZE

Init ==
  /\ asked = [fd \in Fd |-> {}]
  /\ interest = E!Nothing /\ knote = K!Nothing
  /\ known = {} /\ want = [e \in Event |-> {}] /\ fds = {} /\ maxfd = -1 /\ errno = "none"
  /\ \/ engine = "epoll" /\ E!Init
     \/ engine = "select" /\ S!Init
     \/ engine = "kqueue" /\ K!Init

WithEpoll == engine = "epoll" /\ UNCHANGED <<engine, select, kqueue>>
WithSelect == engine = "select" /\ UNCHANGED <<engine, epoll, kqueue>>
WithKqueue == engine = "kqueue" /\ UNCHANGED <<engine, epoll, select>>

Asks(fd, events) == asked' = [asked EXCEPT ![fd] = events]

Add(fd, events, data) ==
  /\ \/ WithEpoll /\ E!Add(fd, events, data)
     \/ WithSelect /\ SelectMayTouch(fd) /\ SelectMayAsk(asked[fd] \cup events) /\ S!Add(fd, events)
     \/ WithKqueue /\ K!Add(fd, events, data)
  /\ Asks(fd, asked[fd] \cup events)

Mod(fd, events, data) ==
  /\ \/ WithEpoll /\ E!Mod(fd, events, data)
     \/ WithSelect /\ SelectMayTouch(fd) /\ SelectMayAsk(events) /\ S!Mod(fd, events)
     \/ WithKqueue /\ K!Mod(fd, events, data)
  /\ Asks(fd, events)

Del(fd) ==
  /\ \/ WithEpoll /\ E!Del(fd)
     \/ WithSelect /\ SelectMayTouch(fd) /\ S!Del(fd)
     \/ WithKqueue /\ K!Del(fd)
  /\ Asks(fd, {})

(* The calls that return -1 half way, as far as they get.                  *)
ModFails(fd, events, data) ==
  /\ WithKqueue /\ K!ModFails(fd, events, data)
  /\ Asks(fd, (events \cap {"READABLE"}) \cup (asked[fd] \ {"READABLE"}))

DelFails(fd) ==
  /\ WithKqueue /\ K!DelFails(fd)
  /\ Asks(fd, {})

Open(fd) ==
  /\ MayOpen(fd)
  /\ \/ WithEpoll /\ E!Open(fd)
     \/ WithSelect /\ S!Open(fd)
     \/ WithKqueue /\ K!Open(fd)
  /\ UNCHANGED asked

(* Select does not learn that a descriptor is closed.                      *)
Close(fd) ==
  \/ WithEpoll /\ E!Close(fd) /\ Asks(fd, {})
  \/ WithSelect /\ SelectMayTouch(fd) /\ S!Close(fd) /\ UNCHANGED asked
  \/ WithKqueue /\ K!Close(fd) /\ Asks(fd, {})

Happens(fd, conditions) ==
  /\ \/ WithEpoll /\ E!Happens(fd, conditions)
     \/ WithSelect /\ S!Happens(fd, conditions)
     \/ WithKqueue /\ K!Happens(fd, conditions)
  /\ UNCHANGED asked

Wait ==
  /\ \/ WithEpoll /\ \E s \in E!Batches : E!Wait(s)
     \/ WithSelect /\ ~S!BadFd /\ \E above \in SUBSET S!Above : S!Wait(above)
     \/ WithKqueue /\ \E s \in K!Batches : K!Wait(s)
  /\ UNCHANGED asked

WaitFails ==
  /\ \/ WithEpoll /\ E!WaitFails
     \/ WithSelect /\ S!BadFd /\ S!WaitFails("EBADF")
     \/ WithSelect /\ S!Bits = 0 /\ S!WaitFails("EINTR")
     \/ WithKqueue /\ K!WaitFails
  /\ UNCHANGED asked

Fetch ==
  /\ \/ WithEpoll /\ E!Fetch
     \/ WithSelect /\ S!Fetch
     \/ WithKqueue /\ K!Fetch
  /\ UNCHANGED asked

Renew ==
  /\ \/ WithEpoll /\ E!Renew
     \/ WithSelect /\ S!Renew
     \/ WithKqueue /\ K!Renew
  /\ asked' = [fd \in Fd |-> {}]

Next ==
  \/ \E fd \in Fd, events \in SUBSET Event, data \in Data :
       \/ Add(fd, events, data) \/ Mod(fd, events, data)
       \/ ModFails(fd, events, data)
  \/ \E fd \in Fd : Del(fd) \/ DelFails(fd) \/ Open(fd) \/ Close(fd)
  \/ \E fd \in Fd \ {FD_SETSIZE}, conditions \in Cases : Happens(fd, conditions)
  \/ Wait \/ WaitFails \/ Fetch \/ Renew

Spec == Init /\ [][Next]_vars

-----------------------------------------------------------------------------
(* Properties                                                              *)

TypeOK ==
  CASE engine = "epoll"  -> E!TypeOK
    [] engine = "select" -> S!TypeOK
    [] engine = "kqueue" -> K!TypeOK

(***************************************************************************)
(* An event left in the buffer is of a descriptor that is registered, with *)
(* the data it is registered with: a client that closes the descriptor it  *)
(* was just given, and may get the same number back from accept, is never  *)
(* handed an event of the closed one.                                      *)
(***************************************************************************)
FreshBuffer ==
  CASE engine = "epoll"  -> E!FreshBuffer
    [] engine = "select" -> S!BufferFilled /\ \A i \in 0 .. ready - 1 : ee[i].fd \in known
    [] engine = "kqueue" -> K!FreshBuffer

(***************************************************************************)
(* After any mix of add, mod and del, failed ones and closes included,     *)
(* each engine watches for exactly what the client has asked for.          *)
(***************************************************************************)
Watches(fd) ==
  CASE engine = "epoll"  -> {e \in Event : fd \in E!Registered
                                           /\ E!EpollEvents({e}) \subseteq interest[fd].events}
    [] engine = "select" -> {e \in Event : fd \in want[e]}
    [] engine = "kqueue" -> {e \in Event : \E f \in K!FiltersOf(fd) :
                               K!Wants({e}, f) /\ knote[<<fd, f>>] # NULL}

AsAsked == \A fd \in Fd : Watches(fd) = asked[fd]

(***************************************************************************)
(* A select fails with EBADF only while the client has closed a descriptor *)
(* that it has not deleted: a deleted one is in none of the three sets.    *)
(***************************************************************************)
DeletedFirst == engine = "select" /\ S!BadFd => \E fd \in known : fd \notin open

(***************************************************************************)
(* Every engine implements the abstract one: what a wait has left is what  *)
(* was asked for and is the case, complete as far as the engine polls      *)
(* (select up to maxfd), and fetch hands out all of it.                    *)
(***************************************************************************)
Handed(i) ==
  CASE engine = "epoll"  -> [fd |-> ee[i].fd, events |-> E!EpEvents(ee[i].events)]
    [] engine = "select" -> ee[i - 1]
    [] engine = "kqueue" -> [fd |-> ee[i].fd, events |-> K!EpEvents(ee[i])]

Abstract == INSTANCE PollEngine WITH
  polled <- IF engine = "select" THEN 0 .. maxfd ELSE Fd,
  batch <- [i \in 1 .. ready |-> Handed(i)],
  got <- IF got = NULL THEN NULL ELSE [fd |-> got.fd, events |-> got.events]

ImplementsPollEngine == Abstract!Spec
=============================================================================
