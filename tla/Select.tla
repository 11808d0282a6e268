------------------------------- MODULE Select -------------------------------
(***************************************************************************)
(* The select engine of libep (src/src/ep_select.h), and select(2) behind  *)
(* it as far as it is used.  Descriptors are numbers here: the engine      *)
(* keeps the highest one and polls all up to it.                           *)
(***************************************************************************)
EXTENDS Integers, FiniteSets

CONSTANTS
  FD_SETSIZE,   \* the number of descriptors a set has room for
  Event,        \* the events clients ask for
  Condition,    \* what can be the case at a descriptor
  Garbage,      \* a slot of the buffer that was never written
  ClosesFirst   \* TRUE: the client may close a descriptor without ep_del

(* One more than there is room for: programs have higher descriptors too.  *)
Fd == 0 .. FD_SETSIZE

VARIABLES
  open,    \* the open descriptors
  known,   \* those the client has added and not deleted
  io,      \* what is the case at each
  want,    \* rfds, wfds, efds: the descriptors watched for each event
  fds,     \* the set fds of the state
  maxfd,
  ee,      \* the buffer
  ready,   \* how many events fetch believes are left in it
  errno,   \* how the last wait failed
  got      \* what the last fetch returned

vars == <<open, known, io, want, fds, maxfd, ee, ready, errno, got>>

Init ==
  /\ open = {}
  /\ known = {}
  /\ io = [fd \in Fd |-> {}]
  /\ want = [e \in Event |-> {}]
  /\ fds = {}
  /\ maxfd = -1
  /\ ee = [j \in 0 .. FD_SETSIZE - 1 |-> Garbage]
  /\ ready = 0
  /\ errno = "none"
  /\ got = Garbage

(* ep_select_fini, and ep_select_init on the state.                        *)
Renew ==
  /\ known' = {}
  /\ want' = [e \in Event |-> {}]
  /\ fds' = {}
  /\ maxfd' = -1
  /\ ee' = [j \in 0 .. FD_SETSIZE - 1 |-> Garbage]
  /\ ready' = 0
  /\ errno' = "none"
  /\ got' = Garbage
  /\ UNCHANGED <<open, io>>

Watched == UNION {want[e] : e \in Event}

(* Fault: the limit is one too high.                                       *)
AddBeyond(fd, events) ==
  /\ fd \in open /\ fd <= FD_SETSIZE
  /\ known' = known \cup {fd}
  /\ want' = [e \in Event |-> IF e \in events THEN want[e] \cup {fd} ELSE want[e]]
  /\ maxfd' = IF fd > maxfd THEN fd ELSE maxfd
  /\ UNCHANGED <<open, io, fds, ee, ready, errno, got>>

(* Beyond FD_SETSIZE add and mod fail, and change nothing.                 *)
Add(fd, events) ==
  /\ fd \in open /\ fd < FD_SETSIZE
  /\ known' = known \cup {fd}
  /\ want' = [e \in Event |-> IF e \in events THEN want[e] \cup {fd} ELSE want[e]]
  /\ maxfd' = IF fd > maxfd THEN fd ELSE maxfd
  /\ UNCHANGED <<open, io, fds, ee, ready, errno, got>>

(***************************************************************************)
(* Contract of mod and del: the descriptor was added and not yet deleted.  *)
(* epoll refuses others with ENOENT; select does not look, and would watch *)
(* a descriptor that is above maxfd, where no wait finds it.               *)
(***************************************************************************)
MayChange(fd) == fd \in known

Mod(fd, events) ==
  /\ MayChange(fd)
  /\ want' = [e \in Event |-> IF e \in events THEN want[e] \cup {fd} ELSE want[e] \ {fd}]
  /\ UNCHANGED <<open, known, io, fds, maxfd, ee, ready, errno, got>>

(* Fault: only the set of descriptors to read is cleared.                  *)
DelRead(fd) ==
  /\ MayChange(fd)
  /\ known' = known \ {fd}
  /\ want' = [want EXCEPT !["READABLE"] = @ \ {fd}]
  /\ UNCHANGED <<open, io, fds, maxfd, ee, ready, errno, got>>

(* del looks for the next lower maxfd in fds.                              *)
Del(fd) ==
  /\ MayChange(fd)
  /\ known' = known \ {fd}
  /\ want' = [e \in Event |-> want[e] \ {fd}]
  /\ fds' = fds \ {fd}
  /\ maxfd' = IF fd = maxfd
              THEN CHOOSE m \in -1 .. fd - 1 :
                     /\ m >= 0 => m \in fds'
                     /\ \A f \in m + 1 .. fd - 1 : f \notin fds'
              ELSE maxfd
  /\ UNCHANGED <<open, io, ee, ready, errno, got>>

Open(fd) ==
  /\ fd \notin open
  /\ open' = open \cup {fd}
  /\ UNCHANGED <<known, io, want, fds, maxfd, ee, ready, errno, got>>

Close(fd) ==
  /\ fd \in open
  /\ ClosesFirst \/ fd \notin known
  /\ open' = open \ {fd}
  /\ io' = [io EXCEPT ![fd] = {}]
  /\ UNCHANGED <<known, want, fds, maxfd, ee, ready, errno, got>>

Happens(fd, conditions) ==
  /\ fd \in open
  /\ io' = [io EXCEPT ![fd] = conditions]
  /\ UNCHANGED <<open, known, want, fds, maxfd, ee, ready, errno, got>>

(***************************************************************************)
(* select(maxfd + 1, ...) leaves in each set the descriptors its event is  *)
(* the case at, and returns the number of bits in the three sets together. *)
(* It does not look at descriptors above maxfd, and may leave their bits   *)
(* as they were: those of the descriptors in above.                        *)
(***************************************************************************)
Cause(e) == CASE e = "READABLE" -> {"IN", "HUP", "ERR"}
              [] e = "WRITABLE" -> {"OUT", "ERR"}
              [] e = "EXCEPT"   -> {"PRI"}

Left(e, above) ==
  {fd \in want[e] : IF fd <= maxfd THEN io[fd] \cap Cause(e) # {} ELSE fd \in above}
Triggered(above) == UNION {Left(e, above) : e \in Event}
Bits == Cardinality({p \in Event \X Fd : p[2] \in Left(p[1], {})})
Above == {fd \in Watched : fd > maxfd}

(* The j-th entry is the j-th lowest descriptor with any bit set, for as   *)
(* long as j is less than the number of bits.                              *)
Wait(above) ==
  /\ errno' = "none"
  /\ ready' = Bits
  /\ ee' = [j \in DOMAIN ee |->
              LET set == Triggered(above)
                  fd == {f \in set : Cardinality({g \in set : g < f}) = j}
              IN  IF j >= Bits \/ fd = {} THEN ee[j]
                  ELSE LET f == CHOOSE f \in fd : TRUE
                       IN  [fd |-> f, events |-> {e \in Event : f \in Left(e, above)}]]
  /\ got' = Garbage
  /\ UNCHANGED <<open, known, io, want, fds, maxfd>>

BadFd == \E fd \in Watched : fd <= maxfd /\ fd \notin open

WaitFails(e) ==
  /\ errno' = e
  /\ ready' = -1
  /\ got' = Garbage
  /\ UNCHANGED <<open, known, io, want, fds, maxfd, ee>>

Fetch ==
  /\ IF ready > 0
     THEN /\ ready' = ready - 1
          /\ got' = IF ready - 1 \in DOMAIN ee THEN ee[ready - 1] ELSE Garbage
     ELSE got' = Garbage /\ UNCHANGED ready
  /\ UNCHANGED <<open, known, io, want, fds, maxfd, ee, errno>>

Next ==
  \/ \E fd \in Fd, events \in SUBSET Event : Add(fd, events) \/ Mod(fd, events)
  \/ \E fd \in Fd : Del(fd) \/ Open(fd) \/ Close(fd)
  \/ \E fd \in Fd, conditions \in SUBSET Condition : Happens(fd, conditions)
  \/ ~BadFd /\ \E above \in SUBSET Above : Wait(above)
  \/ BadFd /\ WaitFails("EBADF")
  \/ Bits = 0 /\ WaitFails("EINTR")
  \/ Fetch

Spec == Init /\ [][Next]_vars

-----------------------------------------------------------------------------
(* Properties                                                              *)

TypeOK ==
  /\ open \subseteq Fd /\ known \subseteq 0 .. FD_SETSIZE - 1
  /\ io \in [Fd -> SUBSET Condition]
  /\ want \in [Event -> SUBSET (0 .. FD_SETSIZE - 1)]
  /\ fds = {}
  /\ maxfd \in -1 .. FD_SETSIZE - 1

(***************************************************************************)
(* What fetch will hand out is what the last wait has put into the buffer: *)
(* descriptors in ascending order, each once, with an event at least.      *)
(***************************************************************************)
BufferFilled ==
  \A i \in 0 .. ready - 1 :
    /\ i \in DOMAIN ee /\ ee[i] # Garbage
    /\ ee[i].events # {}
    /\ \A j \in 0 .. i - 1 : ee[j].fd < ee[i].fd

(***************************************************************************)
(* Every registered descriptor is polled: "supported event multiplexing    *)
(* model: select" (readme.md).                                             *)
(***************************************************************************)
RegisteredArePolled == \A fd \in Watched : fd <= maxfd
=============================================================================
