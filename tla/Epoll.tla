------------------------------- MODULE Epoll -------------------------------
(***************************************************************************)
(* The epoll engine of libep (src/src/ep_epoll.h) and, as far as it is     *)
(* used, the kernel behind it: which descriptors are open and registered,  *)
(* and what is the case at each (level triggered).                         *)
(*                                                                         *)
(* ep_epoll_wait fills a buffer of sz events; ep_epoll_fetch hands them    *)
(* out one at a time, the last one first, and between two fetches the      *)
(* client adds, changes, deletes and closes descriptors.                   *)
(***************************************************************************)
EXTENDS Integers, Sequences, FiniteSets

CONSTANTS
  Fd,            \* the descriptors
  Data,          \* what clients attach to a registration
  Event,         \* the events that clients ask for
  Condition,     \* what can be the case at a descriptor
  NoEvent,       \* nothing was fetched
  sz             \* the size of the buffer

VARIABLES
  open,      \* the open descriptors
  interest,  \* the registered descriptors, with [events, data] of each
  io,        \* what is the case at each descriptor
  ee,        \* the buffer as epoll_wait filled it last
  ready,     \* how many of its events are left, -1 after an error
  got        \* what ep_epoll_fetch returned last: [fd, data, events]

kernel == <<open, interest, io>>
vars == <<open, interest, io, ee, ready, got>>

Registered == DOMAIN interest

(* EP_READABLE ... to EPOLLIN ..., in ep_epoll_add and ep_epoll_mod.       *)
EpollEvents(events) ==
  {CASE e = "READABLE" -> "IN" [] e = "WRITABLE" -> "OUT" [] e = "EXCEPT" -> "PRI"
     : e \in events}

(* ... and back, in ep_epoll_fetch: a hangup is an event to read.  (It     *)
(* looks for EPOLLRDHUP too, which is never asked for.)                    *)
EpEvents(conditions) ==
  UNION {CASE c \in {"IN", "HUP"} -> {"READABLE"} [] c = "OUT" -> {"WRITABLE"}
           [] c = "PRI" -> {"EXCEPT"} [] c = "ERR" -> {"ERROR"}
           : c \in conditions}

(* What epoll_wait reports of fd: the kernel adds errors and hangups.      *)
Pending(fd) == io[fd] \cap (interest[fd].events \cup {"ERR", "HUP"})
Triggered == {fd \in Registered : Pending(fd) # {}}

Nothing == [fd \in {} |-> NoEvent]

Init ==
  /\ interest = Nothing
  /\ ee = <<>>
  /\ ready = 0
  /\ got = NoEvent
  /\ open = {}
  /\ io = [fd \in Fd |-> {}]

(* ep_epoll_fini, and ep_epoll_init on a state to be used again.           *)
Renew ==
  /\ interest' = Nothing
  /\ ee' = <<>>
  /\ ready' = 0
  /\ got' = NoEvent
  /\ UNCHANGED <<open, io>>

(***************************************************************************)
(* What keeps the buffer fresh: while events are left in it, the client    *)
(* changes only the descriptor whose event it fetched last.                *)
(***************************************************************************)
MayTouch(fd) == ready <= 0 \/ (got # NoEvent /\ fd = got.fd)

Register(fd, events, data) ==
  interest' = [f \in Registered \cup {fd} |->
                 IF f = fd THEN [events |-> EpollEvents(events), data |-> data]
                 ELSE interest[f]]

Unregister(fd) == interest' = [f \in Registered \ {fd} |-> interest[f]]

(* epoll_ctl fails, and nothing changes, when the guard does not hold.     *)
Add(fd, events, data) ==
  /\ fd \in open \ Registered
  /\ Register(fd, events, data)
  /\ UNCHANGED <<open, io, ee, ready, got>>

Mod(fd, events, data) ==
  /\ fd \in Registered /\ MayTouch(fd)
  /\ Register(fd, events, data)
  /\ UNCHANGED <<open, io, ee, ready, got>>

Del(fd) ==
  /\ fd \in Registered /\ MayTouch(fd)
  /\ Unregister(fd)
  /\ UNCHANGED <<open, io, ee, ready, got>>

(* The client opens descriptors, and closes them without ep_del: the       *)
(* kernel then forgets the registration.                                   *)
Open(fd) ==
  /\ fd \notin open
  /\ open' = open \cup {fd}
  /\ UNCHANGED <<interest, io, ee, ready, got>>

Close(fd) ==
  /\ fd \in open /\ MayTouch(fd)
  /\ open' = open \ {fd}
  /\ Unregister(fd)
  /\ io' = [io EXCEPT ![fd] = {}]
  /\ UNCHANGED <<ee, ready, got>>

(* The world: data arrives, is read or written, a peer goes away.          *)
Happens(fd, conditions) ==
  /\ fd \in open
  /\ io' = [io EXCEPT ![fd] = conditions]
  /\ UNCHANGED <<open, interest, ee, ready, got>>

(* epoll_wait returns with the events s: up to sz triggered descriptors,   *)
(* none on a timeout, or ...                                               *)
Wait(s) ==
  /\ ee' = [i \in DOMAIN s |->
              [fd |-> s[i], data |-> interest[s[i]].data, events |-> Pending(s[i])]]
  /\ ready' = Len(s)
  /\ got' = NoEvent
  /\ UNCHANGED kernel

(* ... with -1, interrupted by a signal.                                   *)
WaitFails ==
  /\ ready' = -1
  /\ got' = NoEvent
  /\ UNCHANGED <<kernel, ee>>

Batches == {s \in UNION {[1 .. k -> Triggered] : k \in 0 .. sz} :
              /\ \A i, j \in DOMAIN s : i # j => s[i] # s[j]
              /\ Len(s) = IF Cardinality(Triggered) < sz THEN Cardinality(Triggered) ELSE sz}

FetchFirst ==  \* fault: from the wrong end
  /\ IF ready > 0
     THEN /\ ready' = ready - 1
          /\ got' = [ee[1] EXCEPT !.events = EpEvents(@)]
     ELSE got' = NoEvent /\ UNCHANGED ready
  /\ UNCHANGED <<kernel, ee>>

Fetch ==
  /\ IF ready > 0
     THEN /\ ready' = ready - 1
          /\ got' = [ee[ready] EXCEPT !.events = EpEvents(@)]
     ELSE got' = NoEvent /\ UNCHANGED ready
  /\ UNCHANGED <<kernel, ee>>

-----------------------------------------------------------------------------
(* Properties                                                              *)

TypeOK ==
  /\ Registered \subseteq open /\ open \subseteq Fd
  /\ \A fd \in Registered : /\ interest[fd].events \subseteq {"IN", "OUT", "PRI"}
                            /\ interest[fd].data \in Data
  /\ io \in [Fd -> SUBSET Condition]
  /\ Len(ee) <= sz /\ ready \in -1 .. Len(ee)

(***************************************************************************)
(* The events left in the buffer are of descriptors that are registered,   *)
(* each at most once, with the data they are registered with: a client     *)
(* that closes the descriptor it was just given, and may get the same      *)
(* number back from accept, is never handed an event of the closed one.    *)
(***************************************************************************)
FreshBuffer ==
  \A i \in 1 .. ready :
    /\ ee[i].fd \in Registered
    /\ ee[i].data = interest[ee[i].fd].data
    /\ \A j \in 1 .. ready : i # j => ee[i].fd # ee[j].fd
=============================================================================
