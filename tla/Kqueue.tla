------------------------------- MODULE Kqueue -------------------------------
(***************************************************************************)
(* The kqueue engine of libep (src/src/ep_kqueue.h) and the kernel behind  *)
(* it as far as it is used.  A descriptor is registered with up to two     *)
(* filters, each with an event of its own: ep_kqueue_mod and ep_kqueue_del *)
(* are two system calls each, the second of which may fail after the first *)
(* has done its work.                                                      *)
(***************************************************************************)
EXTENDS Integers, Sequences, FiniteSets

CONSTANTS
  Fd,         \* the descriptors
  Data,       \* what clients attach to a registration
  Event,      \* the events clients ask for
  NoEvent,    \* nothing was fetched; the data of a disabled filter
  sz          \* the size of the buffer

VARIABLES
  open,    \* the open descriptors
  knote,   \* the filters of the kqueue, with the data of each, NoEvent if disabled
  io,      \* what is the case at each descriptor
  ee,      \* the buffer as far as it is filled and not fetched
  ready,   \* how many events are left in it, -1 after an error
  got      \* what ep_kqueue_fetch returned last: [fd, data, events]

buffer == <<ee, ready, got>>
vars == <<open, knote, io, ee, ready, got>>

Filter == {"READ", "WRITE"}
Wants(events, f) == (IF f = "READ" THEN "READABLE" ELSE "WRITABLE") \in events
FiltersOf(fd) == {f \in Filter : <<fd, f>> \in DOMAIN knote}

Nothing == [k \in {} |-> NoEvent]

Init ==
  /\ open = {}
  /\ knote = Nothing
  /\ io = [fd \in Fd |-> {}]
  /\ ee = <<>>
  /\ ready = 0
  /\ got = NoEvent

(* ep_kqueue_fini, and ep_kqueue_init on the state.                        *)
Renew ==
  /\ knote' = Nothing
  /\ ee' = <<>>
  /\ ready' = 0
  /\ got' = NoEvent
  /\ UNCHANGED <<open, io>>

MayTouchLast(fd) ==  \* fault: the contract of the other engines
  FiltersOf(fd) = {} \/ ready <= 0 \/ (got # NoEvent /\ fd = got.fd)

(***************************************************************************)
(* What keeps the buffer fresh: while events are left in it, the client    *)
(* changes only the descriptor it fetched last, and only if that has one   *)
(* filter: the event of a second one may be among those left.              *)
(***************************************************************************)
MayTouch(fd) ==
  \/ FiltersOf(fd) = {} \/ ready <= 0
  \/ got # NoEvent /\ fd = got.fd /\ FiltersOf(fd) # Filter

(* kevent with EV_ADD, which enables, or EV_DISABLE, for some filters.     *)
Change(fd, filters, events, data) ==
  knote' = [k \in DOMAIN knote \cup ({fd} \X filters) |->
              IF k \notin {fd} \X filters THEN knote[k]
              ELSE IF Wants(events, k[2]) THEN data ELSE NoEvent]
Missing(fd, f, events) == ~Wants(events, f) /\ f \notin FiltersOf(fd)

Add(fd, events, data) ==
  /\ fd \in open /\ MayTouch(fd)
  /\ Change(fd, {f \in Filter : Wants(events, f)}, events, data)
  /\ UNCHANGED <<open, io, buffer>>

(* mod returns 0 if both filters could be changed, ...                     *)
Mod(fd, events, data) ==
  /\ fd \in open /\ MayTouch(fd)
  /\ \A f \in Filter : ~Missing(fd, f, events)
  /\ Change(fd, Filter, events, data)
  /\ UNCHANGED <<open, io, buffer>>

(* ... and -1 after the first if there is no second one to disable, or the *)
(* second call takes the data, passed for its timeout, for a bad address.  *)
(* With no read filter to disable it fails at once and nothing changes.    *)
ModFails(fd, events, data) ==
  /\ fd \in open /\ MayTouch(fd)
  /\ ~Missing(fd, "READ", events)
  /\ Change(fd, {"READ"}, events, data)
  /\ UNCHANGED <<open, io, buffer>>

Drop(ks) == knote' = [k \in DOMAIN knote \ ks |-> knote[k]]

DelRead(fd) ==  \* fault: the write filter stays
  /\ FiltersOf(fd) = Filter /\ MayTouch(fd)
  /\ Drop({<<fd, "READ">>})
  /\ UNCHANGED <<open, io, buffer>>

(* del returns 0 if there were two filters.  It returns -1 after it has    *)
(* deleted a read filter without a write filter, and without a read filter *)
(* it does not get to the write filter.                                    *)
Del(fd) ==
  /\ FiltersOf(fd) = Filter /\ MayTouch(fd)
  /\ Drop({fd} \X Filter)
  /\ UNCHANGED <<open, io, buffer>>

DelFails(fd) ==
  /\ FiltersOf(fd) = {"READ"} /\ MayTouch(fd)
  /\ Drop({<<fd, "READ">>})
  /\ UNCHANGED <<open, io, buffer>>

Open(fd) ==
  /\ fd \notin open
  /\ open' = open \cup {fd}
  /\ UNCHANGED <<knote, io, buffer>>

(* The kernel drops the filters of a descriptor that is closed.            *)
Close(fd) ==
  /\ fd \in open /\ MayTouch(fd)
  /\ open' = open \ {fd}
  /\ Drop({fd} \X Filter)
  /\ io' = [io EXCEPT ![fd] = {}]
  /\ UNCHANGED buffer

Happens(fd, conditions) ==
  /\ fd \in open
  /\ io' = [io EXCEPT ![fd] = conditions]
  /\ UNCHANGED <<open, knote, buffer>>

(* A hangup (EV_EOF) and an error trigger both filters.                    *)
Cause == [READ |-> {"IN", "HUP", "ERR"}, WRITE |-> {"OUT", "HUP", "ERR"}]
Triggered == {k \in DOMAIN knote : knote[k] # NoEvent /\ io[k[1]] \cap Cause[k[2]] # {}}

Batches == {s \in UNION {[1 .. k -> Triggered] : k \in 0 .. sz} :
              /\ \A i, j \in DOMAIN s : i # j => s[i] # s[j]
              /\ Len(s) = IF Cardinality(Triggered) < sz THEN Cardinality(Triggered) ELSE sz}

Wait(s) ==
  /\ ee' = [i \in DOMAIN s |->
              [fd |-> s[i][1], filter |-> s[i][2], data |-> knote[s[i]],
               eof |-> "HUP" \in io[s[i][1]]]]
  /\ ready' = Len(s)
  /\ got' = NoEvent
  /\ UNCHANGED <<open, knote, io>>

WaitFails ==
  /\ ready' = -1
  /\ ee' = <<>>
  /\ got' = NoEvent
  /\ UNCHANGED <<open, knote, io>>

(* A hangup at a write filter is an event to read.                         *)
EpEvents(e) == IF e.filter = "READ" \/ e.eof THEN {"READABLE"} ELSE {"WRITABLE"}

Fetch ==
  /\ IF ready > 0
     THEN /\ ready' = ready - 1
          /\ ee' = SubSeq(ee, 1, ready - 1)
          /\ got' = [fd |-> ee[ready].fd, data |-> ee[ready].data, events |-> EpEvents(ee[ready])]
     ELSE got' = NoEvent /\ UNCHANGED <<ee, ready>>
  /\ UNCHANGED <<open, knote, io>>

-----------------------------------------------------------------------------
(* Properties                                                              *)

TypeOK ==
  /\ \A k \in DOMAIN knote : /\ k[1] \in open /\ k[2] \in Filter
                             /\ knote[k] \in Data \cup {NoEvent}
  /\ Len(ee) <= sz /\ ready \in {-1, Len(ee)}

(***************************************************************************)
(* The events left in the buffer are of filters that are there, each at    *)
(* most once, with the data they were given last.                          *)
(***************************************************************************)
FreshBuffer ==
  \A i \in 1 .. ready :
    /\ ee[i].filter \in FiltersOf(ee[i].fd)
    /\ ee[i].data = knote[<<ee[i].fd, ee[i].filter>>]
    /\ \A j \in 1 .. ready : i # j => <<ee[i].fd, ee[i].filter>> # <<ee[j].fd, ee[j].filter>>
=============================================================================
