----------------------------- MODULE PollEngine -----------------------------
(***************************************************************************)
(* What the poll engines of libep promise to the loop above them, whatever *)
(* they are made of: a wait collects events that were asked for and are    *)
(* the case, misses no descriptor it polls unless the buffer is full, and  *)
(* fetch hands these events out, each once, the last one first.            *)
(*                                                                         *)
(* PollApi shows that the epoll, select and kqueue engines implement it.   *)
(***************************************************************************)
EXTENDS Naturals, Sequences

CONSTANTS
  Fd,         \* the descriptors
  Event,      \* what clients can ask for
  Condition,  \* what can be the case at a descriptor
  NULL,       \* nothing was fetched
  sz          \* the size of the buffer

VARIABLES
  asked,   \* the events asked for at each descriptor
  io,      \* what is the case there
  polled,  \* the descriptors the engine looks at when it waits
  batch,   \* the events of the last wait that are left
  got      \* the event fetched last

vars == <<asked, io, batch, got>>

(* A hangup is an event to read, an error one to read or write.            *)
Cause(e) ==
  CASE e = "READABLE" -> {"IN", "HUP", "ERR"}
    [] e = "WRITABLE" -> {"OUT", "ERR"}
    [] e = "EXCEPT"   -> {"PRI"}

Ready(fd) == {e \in asked[fd] : io[fd] \cap Cause(e) # {}}

(* Errors and hangups are reported to whoever asks for anything.           *)
Reportable(fd) ==
  Ready(fd) \cup {e \in {"ERROR"} : "ERR" \in io[fd]}
            \cup {e \in {"READABLE"} : "HUP" \in io[fd]}

Init ==
  /\ asked = [fd \in Fd |-> {}]
  /\ io = [fd \in Fd |-> {}]
  /\ batch = <<>>
  /\ got = NULL

Ask(fd, events) ==
  /\ asked' = [asked EXCEPT ![fd] = events]
  /\ UNCHANGED <<io, batch, got>>

Happens(fd, conditions) ==
  /\ io' = [io EXCEPT ![fd] = conditions]
  /\ UNCHANGED <<asked, batch, got>>

(* What becomes of the request when its descriptor is closed differs.      *)
Close(fd) ==
  /\ asked' \in {asked, [asked EXCEPT ![fd] = {}]}
  /\ io' = [io EXCEPT ![fd] = {}]
  /\ UNCHANGED <<batch, got>>

Wait ==
  /\ \A i \in DOMAIN batch' :
       /\ batch'[i].events # {}
       /\ batch'[i].events \subseteq Reportable(batch'[i].fd)
  /\ \A fd \in polled :
       Ready(fd) # {} => \/ Len(batch') >= sz
                         \/ \E i \in DOMAIN batch' : batch'[i].fd = fd
  /\ got' = NULL
  /\ UNCHANGED <<asked, io>>

WaitFails ==
  /\ batch' = <<>>
  /\ got' = NULL
  /\ UNCHANGED <<asked, io>>

Fetch ==
  /\ IF batch = <<>> THEN got' = NULL /\ UNCHANGED batch
     ELSE /\ got' = batch[Len(batch)]
          /\ batch' = SubSeq(batch, 1, Len(batch) - 1)
  /\ UNCHANGED <<asked, io>>

Renew ==
  /\ asked' = [fd \in Fd |-> {}]
  /\ batch' = <<>>
  /\ got' = NULL
  /\ UNCHANGED io

Next ==
  \/ \E fd \in Fd, events \in SUBSET Event : Ask(fd, events)
  \/ \E fd \in Fd, conditions \in SUBSET Condition : Happens(fd, conditions)
  \/ \E fd \in Fd : Close(fd)
  \/ Wait \/ WaitFails \/ Fetch \/ Renew

Spec == Init /\ [][Next]_vars
=============================================================================
