-------------------------------- MODULE Sock --------------------------------
(***************************************************************************)
(* How libep makes sockets (src/src/ep_sock.h): the connects, the servers  *)
(* and the accepts, as the system calls each makes in order, every one of  *)
(* which may fail.                                                         *)
(*                                                                         *)
(* The functions keep nothing between calls, but they run in a process     *)
(* whose other threads open and close descriptors too: a number that was   *)
(* closed can be somebody else's a moment later.                           *)
(*                                                                         *)
(* A function is a list of steps: what is done to the new socket, and      *)
(* what follows when that fails:                                           *)
(*   "err"     close it and return -1                                      *)
(*   "leave"   return -1                                                   *)
(*   "ret"     return it as it is                                          *)
(*   "closed"  close it, and return its number a moment later              *)
(*   "next"    close it and try the next address                           *)
(* getaddrinfo is a step of the environment: it yields some number of      *)
(* addresses, and what it allocates is not represented.                    *)
(***************************************************************************)
EXTENDS Naturals, Sequences

CONSTANTS
  Fd,       \* the descriptors of the process
  NoFd,     \* -1
  Address   \* how many addresses getaddrinfo yields at most

ASSUME SockAssumption == NoFd \notin Fd /\ Address \in Nat \ {0}

VARIABLES
  sock,   \* the open descriptors, each with who made it and what was done to it
  held,   \* the descriptors that clients and other threads hold
  call,   \* the call, also after it has returned
  pc,     \* "idle", "resolve", "socket", "setup", "closed", "accept" or "crashed"
  left,   \* the addresses it has yet to try
  todo,   \* the steps to be done to the socket
  s,      \* the socket
  ret,    \* what the last call has returned
  errno   \* why the last accept has failed

vars == <<sock, held, call, pc, left, todo, s, ret, errno>>

-----------------------------------------------------------------------------
(* The functions                                                           *)

Do(does, orElse) == <<[does |-> does, orElse |-> orElse]>>
Asked(c, does, orElse) == IF does \in c.opts THEN Do(does, orElse) ELSE <<>>

TcpConnectLeaving(c) ==  \* fault: the socket is not closed
  Do("reuse", "err") \o Asked(c, "nonblock", "leave") \o Asked(c, "lookup", "err")
  \o Asked(c, "source", "ret") \o Do("connect", "next")

TcpConnect(c) ==
  Do("reuse", "err") \o Asked(c, "nonblock", "err") \o Asked(c, "lookup", "err")
  \o Asked(c, "source", "ret") \o Do("connect", "next")

UdpConnect(c) == TcpConnect(c)

UnixConnect(c) ==
  Do("reuse", "err") \o Asked(c, "nonblock", "closed") \o Do("connect", "closed")

TcpServer(c) ==
  Asked(c, "v6only", "err") \o Do("reuse", "leave") \o Do("bind", "leave")
  \o Do("listen", "leave")

UdpServer(c) ==
  Asked(c, "v6only", "err") \o Do("reuse", "leave") \o Do("bind", "leave")

UnixServer(c) ==
  Do("reuse", "err") \o Do("bind", "leave") \o Do("listen", "leave")
  \o Asked(c, "perm", "ret")

Steps(c) ==
  CASE c.kind = "tcpconnect"  -> TcpConnect(c)
    [] c.kind = "udpconnect"  -> UdpConnect(c)
    [] c.kind = "unixconnect" -> UnixConnect(c)
    [] c.kind = "tcpserver"   -> TcpServer(c)
    [] c.kind = "udpserver"   -> UdpServer(c)
    [] c.kind = "unixserver"  -> UnixServer(c)
    [] c.kind = "accept"      -> <<>>

Does(c) == {Steps(c)[i].does : i \in DOMAIN Steps(c)}

Connects == {"tcpconnect", "udpconnect"}
Servers == {"tcpserver", "udpserver"}
Locals == {"unixconnect", "unixserver"}

(* The entry points, each with the optional steps it asks for.             *)
Entry(kinds, opts) == [kind : kinds, opts : opts]

Ways == {{}, {"nonblock"}, {"lookup", "source"}, {"nonblock", "lookup", "source"}}
TcpConnectCalls == Entry({"tcpconnect"}, Ways)
UdpConnectCalls == Entry({"udpconnect"}, Ways)
UnixConnectCalls == Entry({"unixconnect"}, {{}, {"nonblock"}})
TcpServerCalls == Entry({"tcpserver"}, {{}, {"v6only"}})
UdpServerCalls == Entry({"udpserver"}, {{}, {"v6only"}})
UnixServerCalls == Entry({"unixserver"}, {{}, {"perm"}})
AcceptCalls == Entry({"accept"}, {{}})
Calls == TcpConnectCalls \cup UdpConnectCalls \cup UnixConnectCalls \cup TcpServerCalls
         \cup UdpServerCalls \cup UnixServerCalls \cup AcceptCalls

-----------------------------------------------------------------------------
Open == DOMAIN sock
Without(fd) == [f \in Open \ {fd} |-> sock[f]]
With(fd, record) == [f \in Open \cup {fd} |-> IF f = fd THEN record ELSE sock[f]]

Fresh(by) == [by |-> by, done |-> {}]
Did(what) == [sock EXCEPT ![s].done = @ \cup {what}]

(* The call returns r, which the client holds if it is open.               *)
Return(r) ==
  /\ pc' = "idle"
  /\ ret' = r
  /\ held' = held \cup ({r} \cap DOMAIN sock')
  /\ s' = NoFd
  /\ left' = 0
  /\ todo' = <<>>
  /\ UNCHANGED call

Init ==
  /\ sock = [fd \in {} |-> Fresh("other")]
  /\ held = {}
  /\ call = [kind |-> "accept", opts |-> {}]
  /\ pc = "idle"
  /\ left = 0
  /\ todo = <<>>
  /\ s = NoFd
  /\ ret = NoFd
  /\ errno = "none"

(* A client calls one of the functions; those for local sockets have one   *)
(* address, which is not looked up.                                        *)
Call(c) ==
  /\ pc = "idle"
  /\ call' = c
  /\ pc' = CASE c.kind \in Connects \cup Servers -> "resolve"
             [] c.kind \in Locals                -> "socket"
             [] c.kind = "accept"               -> "accept"
  /\ left' = IF c.kind \in Locals THEN 1 ELSE 0
  /\ errno' = "none"
  /\ UNCHANGED <<sock, held, todo, s, ret>>

Resolve ==
  /\ pc = "resolve"
  /\ pc' = "socket"
  /\ left' \in 1 .. Address
  /\ UNCHANGED <<sock, held, call, todo, s, ret, errno>>

(* The servers go on to free the list that getaddrinfo never returned,     *)
(* through an uninitialised pointer: the process may crash.                *)
ResolveFails ==
  /\ pc = "resolve"
  /\ UNCHANGED <<sock, errno>>
  /\ \/ Return(NoFd)
     \/ /\ call.kind \in Servers
        /\ pc' = "crashed"
        /\ UNCHANGED <<held, call, left, todo, s, ret>>

Socket(fd) ==
  /\ pc = "socket" /\ left > 0
  /\ fd \notin Open
  /\ left' = left - 1
  /\ s' = fd
  /\ sock' = With(fd, Fresh(call.kind))
  /\ todo' = Steps(call)
  /\ pc' = "setup"
  /\ UNCHANGED <<held, call, ret, errno>>

SocketUnchecked ==  \* fault: the setup goes on with -1
  /\ pc = "socket" /\ left > 0
  /\ left' = left - 1
  /\ s' = NoFd
  /\ todo' = Steps(call)
  /\ pc' = "setup"
  /\ UNCHANGED <<sock, held, call, ret, errno>>

SocketAgain ==  \* fault: tries the same address for ever
  /\ pc = "socket" /\ left > 0
  /\ s' = NoFd
  /\ UNCHANGED <<sock, held, call, pc, left, todo, ret, errno>>

SocketFails ==
  /\ pc = "socket" /\ left > 0
  /\ left' = left - 1
  /\ s' = NoFd
  /\ UNCHANGED <<sock, held, call, pc, todo, ret, errno>>

(* Behind the last address: a socket that is still there is closed.        *)
NoAddress ==
  /\ pc = "socket" /\ left = 0
  /\ sock' = Without(s)
  /\ Return(NoFd)
  /\ UNCHANGED errno

Done ==
  /\ pc = "setup"
  /\ ~(call.kind = "unixconnect" /\ Head(todo).does = "nonblock")
  /\ sock' = Did(Head(todo).does)
  /\ IF Len(todo) = 1
     THEN Return(s)
     ELSE todo' = Tail(todo) /\ UNCHANGED <<held, call, pc, left, s, ret>>
  /\ UNCHANGED errno

(* A non-blocking TCP connect returns while it is under way.               *)
InProgressAlways ==  \* fault: whether it is non-blocking or not
  /\ pc = "setup" /\ Head(todo).does = "connect"
  /\ call.kind = "tcpconnect"
  /\ sock' = Did("connecting")
  /\ Return(s)
  /\ UNCHANGED errno

InProgress ==
  /\ pc = "setup" /\ Head(todo).does = "connect"
  /\ call.kind = "tcpconnect" /\ "nonblock" \in call.opts
  /\ sock' = Did("connecting")
  /\ Return(s)
  /\ UNCHANGED errno

NextAddressKeeping ==  \* fault: s is not reset
  /\ sock' = Without(s)
  /\ pc' = "socket"
  /\ todo' = <<>>
  /\ UNCHANGED <<held, call, left, s, ret>>

NextAddress ==
  /\ sock' = Without(s)
  /\ s' = NoFd
  /\ pc' = "socket"
  /\ todo' = <<>>
  /\ UNCHANGED <<held, call, left, ret>>

(* The number stays in s, and may be another thread's when it is returned. *)
CloseFirst ==
  /\ sock' = Without(s)
  /\ pc' = "closed"
  /\ todo' = <<>>
  /\ UNCHANGED <<held, call, left, s, ret>>

Fails ==
  /\ pc = "setup"
  /\ LET orElse == Head(todo).orElse
     IN  \/ orElse = "err"    /\ sock' = Without(s) /\ Return(NoFd)
         \/ orElse = "leave"  /\ sock' = sock       /\ Return(NoFd)
         \/ orElse = "ret"    /\ sock' = sock       /\ Return(s)
         \/ orElse = "closed" /\ CloseFirst
         \/ orElse = "next"   /\ NextAddress
  /\ UNCHANGED errno

ReturnClosed ==
  /\ pc = "closed"
  /\ UNCHANGED <<sock, errno>>
  /\ Return(s)

Accept(fd) ==
  /\ pc = "accept"
  /\ fd \notin Open
  /\ sock' = With(fd, Fresh(call.kind))
  /\ Return(fd)
  /\ UNCHANGED errno

InterruptedReturns ==  \* fault: gives up
  /\ pc = "accept"
  /\ errno' = "EINTR"
  /\ UNCHANGED sock
  /\ Return(NoFd)

Interrupted ==
  /\ pc = "accept"
  /\ errno' = "EINTR"
  /\ UNCHANGED <<sock, held, call, pc, left, todo, s, ret>>

AcceptFails ==
  /\ pc = "accept"
  /\ errno' = "other"
  /\ UNCHANGED sock
  /\ Return(NoFd)

Function ==
  \/ Resolve \/ ResolveFails
  \/ \E fd \in Fd : Socket(fd)
  \/ SocketFails \/ NoAddress \/ Done \/ InProgress \/ Fails \/ ReturnClosed
  \/ \E fd \in Fd : Accept(fd)
  \/ Interrupted \/ AcceptFails

(* Clients and other threads.                                              *)
Opens(fd) ==
  /\ pc # "crashed"
  /\ fd \notin Open
  /\ sock' = With(fd, Fresh("other"))
  /\ held' = held \cup {fd}
  /\ UNCHANGED <<call, pc, left, todo, s, ret, errno>>

Closes(fd) ==
  /\ pc # "crashed"
  /\ fd \in held
  /\ sock' = Without(fd)
  /\ held' = held \ {fd}
  /\ UNCHANGED <<call, pc, left, todo, s, ret, errno>>

Next ==
  \/ \E c \in Calls : Call(c)
  \/ Function
  \/ \E fd \in Fd : Opens(fd) \/ Closes(fd)

(* A call goes on, unless it waits for somebody to connect.                *)
Advance == pc # "accept" /\ Function

Spec == Init /\ [][Next]_vars /\ WF_vars(Advance)

-----------------------------------------------------------------------------
(* Properties                                                              *)

TypeOK ==
  /\ Open \subseteq Fd
  /\ held \subseteq Fd
  /\ call \in Calls
  /\ pc \in {"idle", "resolve", "socket", "setup", "closed", "accept", "crashed"}
  /\ left \in 0 .. Address
  /\ {s, ret} \subseteq Fd \cup {NoFd}
  /\ pc = "setup" => s \in Open \ held /\ todo # <<>>
  /\ errno \in {"none", "EINTR", "other"}

(***************************************************************************)
(* Whatever fails, no socket is lost: an open descriptor that nobody holds *)
(* is the socket of the call in progress, or was left by a server that     *)
(* could not be set up; of the connects none is ever left.                 *)
(***************************************************************************)
NothingLost ==
  \A fd \in Open \ (held \cup {s}) : sock[fd].by \in Servers \cup {"unixserver"}

(***************************************************************************)
(* What somebody holds stays open until they close it: no error path of    *)
(* connect or server closes a number twice, which may by then be the       *)
(* socket of another thread.                                               *)
(***************************************************************************)
HeldOpen == held \subseteq Open

(***************************************************************************)
(* A descriptor that is returned is the caller's own, open, and everything *)
(* asked for was done to it, with four exceptions: a non-blocking TCP      *)
(* connect is under way; a socket that could not be bound to the source    *)
(* address is returned unconnected; a local server's mode may not have     *)
(* been set; and a failed local connect returns a number it has closed,    *)
(* which may be another thread's by then.  accept never gives up because   *)
(* of a signal.                                                            *)
(***************************************************************************)
ReturnedFit ==
  [][ pc # "idle" /\ pc' = "idle" =>
        \/ ret' = NoFd /\ errno' # "EINTR"
        \/ /\ call.kind = "unixconnect"
           /\ ret' \in DOMAIN sock' => sock'[ret'].by = "other"
        \/ /\ sock'[ret'].by = call.kind
           /\ LET missing == Does(call) \ sock'[ret'].done
              IN  \/ missing \in {{}, {"source", "connect"}, {"perm"}}
                  \/ /\ missing = {"connect"} /\ call.kind = "tcpconnect"
                     /\ {"connecting", "nonblock"} \subseteq sock'[ret'].done ]_vars

(***************************************************************************)
(* Every call but accept returns, whatever fails, or takes the process     *)
(* with it: the loops over the addresses come to their end.                *)
(***************************************************************************)
CallEnds == pc \in {"resolve", "socket", "setup", "closed"} ~> pc \in {"idle", "crashed"}
=============================================================================
