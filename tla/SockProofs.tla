----------------------------- MODULE SockProofs -----------------------------
(***************************************************************************)
(* Proofs about Sock, for any descriptors and any number of addresses: no  *)
(* connect loses its socket, no error path closes a descriptor that is     *)
(* somebody else's by then, and what is returned is what was asked for.    *)
(***************************************************************************)
EXTENDS Sock, SequenceTheorems, TLAPS

Leavers == Servers \cup {"unixserver"}
Deed == {"reuse", "nonblock", "lookup", "source", "connect", "bind", "listen",
         "v6only", "perm"}
Reaction == {"err", "leave", "ret", "closed", "next"}

(* The steps a function may have: only servers leave their socket behind.  *)
Reactions(kind) == IF kind \in Leavers THEN Reaction ELSE Reaction \ {"leave"}
StepsOf(kind) == [does : Deed, orElse : Reactions(kind)]

Maker == Connects \cup Locals \cup Servers \cup {"accept", "other"}
Record == [by : Maker, done : SUBSET (Deed \cup {"connecting"})]

Typed ==
  /\ sock \in [Open -> Record]
  /\ pc \notin {"setup", "closed"} => s = NoFd
  /\ pc \in {"resolve", "socket"} => call.kind # "accept"

(* The socket in progress is the call's own, and its steps are of its kind. *)
InSetup ==
  pc = "setup" =>
    sock[s].by = call.kind /\ call.kind # "accept" /\ todo \in Seq(StepsOf(call.kind))

IInv == TypeOK /\ NothingLost /\ HeldOpen /\ Typed /\ InSetup

-----------------------------------------------------------------------------
(* One step is a sequence, of one element or of none if it is not asked    *)
(* for.                                                                    *)
LEMMA DoFits ==
  ASSUME NEW kind, NEW c, NEW does \in Deed,
         NEW orElse \in Reactions(kind)
  PROVE  /\ Do(does, orElse) \in Seq(StepsOf(kind)) /\ Len(Do(does, orElse)) > 0
         /\ Asked(c, does, orElse) \in Seq(StepsOf(kind))
<1>1. [does |-> does, orElse |-> orElse] \in StepsOf(kind)
  BY DEF StepsOf
<1>2. Do(does, orElse) \in Seq(StepsOf(kind)) /\ Len(Do(does, orElse)) > 0
  BY <1>1 DEF Do
<1> QED
  BY <1>2, EmptySeq DEF Asked

(* Two such sequences, the one or the other not empty, make a third.       *)
LEMMA Both ==
  ASSUME NEW S, NEW a \in Seq(S), NEW b \in Seq(S), Len(a) > 0 \/ Len(b) > 0
  PROVE  a \o b \in Seq(S) /\ Len(a \o b) > 0
<1>1. a \o b \in Seq(S) /\ Len(a \o b) = Len(a) + Len(b)
  BY ConcatProperties
<1>2. Len(a) \in Nat /\ Len(b) \in Nat
  BY LenProperties
<1> QED
  BY <1>1, <1>2

(* Every function that makes a socket has a step at least, and leaves it   *)
(* open and unknown only if it is a server.                                *)
LEMMA StepsFit ==
  ASSUME NEW c \in Calls, c.kind # "accept"
  PROVE  Steps(c) \in Seq(StepsOf(c.kind)) /\ Steps(c) # <<>>
<1> DEFINE k == c.kind
           S == StepsOf(k)
           Good(q) == q \in Seq(S) /\ Len(q) > 0
<1>0. \A does \in Deed, orElse \in Reactions(k) :
        Good(Do(does, orElse)) /\ Asked(c, does, orElse) \in Seq(S)
  BY DoFits
<1>1. k \in Connects \cup Servers \cup Locals
  BY DEF Calls, Entry, TcpConnectCalls, UdpConnectCalls, UnixConnectCalls, TcpServerCalls,
         UdpServerCalls, UnixServerCalls, AcceptCalls, Connects, Servers, Locals
<1>2. CASE k \in Connects
  <2>0. {"err", "ret", "next"} \subseteq Reactions(k)
    BY DEF Reactions, Reaction
  <2>1. /\ Good(Do("reuse", "err")) /\ Good(Do("connect", "next"))
        /\ Asked(c, "nonblock", "err") \in Seq(S)
        /\ Asked(c, "lookup", "err") \in Seq(S)
        /\ Asked(c, "source", "ret") \in Seq(S)
    BY <1>0, <2>0 DEF Deed
  <2>2. Good(Do("reuse", "err") \o Asked(c, "nonblock", "err"))
    BY <2>1, Both
  <2>3. Good(Do("reuse", "err") \o Asked(c, "nonblock", "err") \o Asked(c, "lookup", "err"))
    BY <2>1, <2>2, Both
  <2>4. Good(Do("reuse", "err") \o Asked(c, "nonblock", "err") \o Asked(c, "lookup", "err")
             \o Asked(c, "source", "ret"))
    BY <2>1, <2>3, Both
  <2>5. Good(TcpConnect(c))
    BY <2>1, <2>4, Both DEF TcpConnect
  <2>6. Steps(c) = TcpConnect(c)
    BY <1>2 DEF Steps, UdpConnect, Connects
  <2> QED
    BY <2>5, <2>6, EmptySeq
<1>3. CASE k = "unixconnect"
  <2>0. {"err", "closed"} \subseteq Reactions(k)
    BY DEF Reactions, Reaction
  <2>1. /\ Good(Do("reuse", "err")) /\ Good(Do("connect", "closed"))
        /\ Asked(c, "nonblock", "closed") \in Seq(S)
    BY <1>0, <2>0 DEF Deed
  <2>2. Good(Do("reuse", "err") \o Asked(c, "nonblock", "closed"))
    BY <2>1, Both
  <2>3. Good(UnixConnect(c))
    BY <2>1, <2>2, Both DEF UnixConnect
  <2> QED
    BY <1>3, <2>3, EmptySeq DEF Steps
<1>4. CASE k \in Leavers
  <2>0. Reactions(k) = Reaction /\ {"err", "leave", "ret"} \subseteq Reaction
    BY <1>4 DEF Reactions, Reaction
  <2>1. /\ Good(Do("reuse", "leave")) /\ Good(Do("reuse", "err"))
        /\ Good(Do("bind", "leave")) /\ Good(Do("listen", "leave"))
        /\ Asked(c, "v6only", "err") \in Seq(S)
        /\ Asked(c, "perm", "ret") \in Seq(S)
    BY <1>0, <2>0 DEF Deed
  <2>2. Good(Asked(c, "v6only", "err") \o Do("reuse", "leave"))
    BY <2>1, Both
  <2>3. Good(UdpServer(c))
    BY <2>1, <2>2, Both DEF UdpServer
  <2>4. Good(TcpServer(c))
    BY <2>1, <2>3, Both DEF TcpServer, UdpServer
  <2>5. Good(Do("reuse", "err") \o Do("bind", "leave"))
    BY <2>1, Both
  <2>6. Good(Do("reuse", "err") \o Do("bind", "leave") \o Do("listen", "leave"))
    BY <2>1, <2>5, Both
  <2>7. Good(UnixServer(c))
    BY <2>1, <2>6, Both DEF UnixServer
  <2>8. Steps(c) \in {UdpServer(c), TcpServer(c), UnixServer(c)}
    BY <1>4 DEF Steps, Leavers, Servers
  <2> QED
    BY <2>3, <2>4, <2>7, <2>8, EmptySeq
<1> QED
  BY <1>1, <1>2, <1>3, <1>4 DEF Locals, Leavers

-----------------------------------------------------------------------------
(* What closing, opening and working on a socket leaves of the others.     *)
LEMMA WithoutFits ==
  ASSUME Typed, NEW fd, sock' = Without(fd)
  PROVE  /\ Open' = Open \ {fd}
         /\ sock' \in [Open' -> Record]
         /\ \A f \in Open' : sock'[f] = sock[f]
<1>1. Open' = Open \ {fd} /\ \A f \in Open' : sock'[f] = sock[f]
  BY DEF Without, Open
<1>2. sock' \in [Open \ {fd} -> Record]
  BY DEF Typed, Without, Open
<1> QED
  BY <1>1, <1>2

LEMMA WithFits ==
  ASSUME Typed, NEW fd, fd \notin Open, NEW by \in Maker, sock' = With(fd, Fresh(by))
  PROVE  /\ Open' = Open \cup {fd}
         /\ sock' \in [Open' -> Record]
         /\ sock'[fd].by = by
         /\ \A f \in Open : sock'[f] = sock[f]
<1>1. Fresh(by) \in Record /\ Fresh(by).by = by
  BY DEF Fresh, Record
<1>2. /\ Open' = Open \cup {fd}
      /\ sock'[fd] = Fresh(by)
      /\ \A f \in Open : sock'[f] = sock[f]
  BY DEF With, Open
<1>3. sock' \in [Open \cup {fd} -> Record]
  BY <1>1 DEF Typed, With, Open
<1> QED
  BY <1>1, <1>2, <1>3

LEMMA DidFits ==
  ASSUME Typed, s \in Open, NEW what \in Deed \cup {"connecting"}, sock' = Did(what)
  PROVE  /\ Open' = Open
         /\ sock' \in [Open' -> Record]
         /\ \A f \in Open : sock'[f].by = sock[f].by
<1>1. sock \in [Open -> Record]
  BY DEF Typed
<1>2. sock' = [sock EXCEPT ![s] = [sock[s] EXCEPT !.done = sock[s].done \cup {what}]]
  BY DEF Did
<1>3. sock[s] \in Record
  BY <1>1
<1>4. /\ [sock[s] EXCEPT !.done = sock[s].done \cup {what}] \in Record
      /\ [sock[s] EXCEPT !.done = sock[s].done \cup {what}].by = sock[s].by
  BY <1>3 DEF Record
<1>5. Open' = Open
  BY <1>2 DEF Open
<1>6. sock' \in [Open -> Record]
  BY <1>1, <1>2, <1>4
<1>7. \A f \in Open : sock'[f].by = sock[f].by
  BY <1>1, <1>2, <1>4 DEF Open
<1> QED
  BY <1>5, <1>6, <1>7

(* A call returns in a good state if nothing is lost but what it returns,  *)
(* and nothing that is held was closed.                                    *)
LEMMA ReturnFits ==
  ASSUME IInv, NEW r \in Fd \cup {NoFd}, Return(r),
         sock' \in [Open' -> Record], Open' \subseteq Fd, held \subseteq Open',
         \A f \in Open' \ (held \cup {r}) : sock'[f].by \in Leavers,
         errno' \in {"none", "EINTR", "other"}
  PROVE  IInv'
<1> USE SockAssumption
<1>1. pc' = "idle" /\ ret' = r /\ s' = NoFd /\ left' = 0 /\ call' = call
      /\ held' = held \cup ({r} \cap Open')
  BY DEF Return, Open
<1>2. TypeOK'
  BY <1>1 DEF IInv, TypeOK
<1>3. NothingLost'
  BY <1>1 DEF NothingLost, Leavers
<1>4. HeldOpen'
  BY <1>1 DEF HeldOpen
<1>5. Typed'
  BY <1>1 DEF Typed
<1>6. InSetup'
  BY <1>1 DEF InSetup
<1> QED
  BY <1>2, <1>3, <1>4, <1>5, <1>6 DEF IInv

-----------------------------------------------------------------------------
(* The first of a sequence, and the rest of it.                            *)
LEMMA FirstAndRest ==
  ASSUME NEW S, NEW q \in Seq(S), q # <<>>
  PROVE  Head(q) \in S /\ Tail(q) \in Seq(S) /\ (Len(q) # 1 => Tail(q) # <<>>)
<1>1. Head(q) \in S /\ Tail(q) \in Seq(S) /\ Len(Tail(q)) = Len(q) - 1
  BY HeadTailProperties
<1>2. Len(q) \in Nat
  BY LenProperties
<1>3. Tail(q) = <<>> => Len(q) - 1 = 0
  BY <1>1
<1> QED
  BY <1>1, <1>2, <1>3

LEMMA Initially == Init => IInv
<1> SUFFICES ASSUME Init PROVE IInv
  OBVIOUS
<1> USE SockAssumption
<1>1. Open = {}
  BY DEF Init, Open
<1>2. call \in Calls
  BY DEF Init, Calls, AcceptCalls, Entry
<1>3. TypeOK
  BY <1>1, <1>2 DEF Init, TypeOK
<1>4. Typed
  BY <1>1 DEF Init, Typed, Open
<1> QED
  BY <1>1, <1>3, <1>4 DEF Init, IInv, NothingLost, HeldOpen, InSetup

(* The steps that touch no descriptor.                                     *)
LEMMA QuietFits ==
  ASSUME IInv,
         (\E c \in Calls : Call(c)) \/ Resolve \/ SocketFails \/ Interrupted
  PROVE  IInv'
<1> USE SockAssumption DEF IInv
<1>1. sock' = sock /\ held' = held /\ Open' = Open /\ ret' = ret
      /\ pc # "setup" /\ s = NoFd
  BY DEF Call, Resolve, SocketFails, Interrupted, Open, Typed
<1>2. pc' \in {"resolve", "socket", "accept"} /\ s' = NoFd /\ call' \in Calls
      /\ left' \in 0 .. Address /\ errno' \in {"none", "EINTR", "other"}
      /\ (pc' \in {"resolve", "socket"} => call'.kind # "accept")
  <2>1. CASE \E c \in Calls : Call(c)
    <3>1. PICK c \in Calls : Call(c)
      BY <2>1
    <3>2. c.kind \in Connects \cup Servers \cup Locals \cup {"accept"}
      BY DEF Calls, Entry, TcpConnectCalls, UdpConnectCalls, UnixConnectCalls,
             TcpServerCalls, UdpServerCalls, UnixServerCalls, AcceptCalls, Connects,
             Servers, Locals
    <3> QED
      BY <1>1, <3>1, <3>2 DEF Call, Connects, Servers, Locals
  <2>2. CASE Resolve
    BY <1>1, <2>2 DEF Resolve, TypeOK, Typed
  <2>3. CASE SocketFails
    BY <1>1, <2>3 DEF SocketFails, TypeOK, Typed
  <2>4. CASE Interrupted
    BY <1>1, <2>4 DEF Interrupted, TypeOK, Typed
  <2> QED
    BY <2>1, <2>2, <2>3, <2>4
<1>3. TypeOK'
  BY <1>1, <1>2 DEF TypeOK
<1>4. NothingLost' /\ HeldOpen'
  BY <1>1, <1>2 DEF NothingLost, HeldOpen
<1>5. Typed' /\ InSetup'
  BY <1>1, <1>2 DEF Typed, InSetup
<1> QED
  BY <1>3, <1>4, <1>5

(* socket() gives the call a descriptor that was nobody's.                 *)
LEMMA SocketFits ==
  ASSUME IInv, NEW fd \in Fd, Socket(fd)
  PROVE  IInv'
<1> USE SockAssumption DEF IInv
<1>1. call.kind # "accept" /\ call.kind \in Maker
  BY DEF Socket, TypeOK, Typed, Calls, Entry, TcpConnectCalls, UdpConnectCalls,
         UnixConnectCalls, TcpServerCalls, UdpServerCalls, UnixServerCalls, AcceptCalls,
         Maker, Connects, Servers, Locals
<1>2. Steps(call) \in Seq(StepsOf(call.kind)) /\ Steps(call) # <<>>
  BY <1>1, StepsFit DEF TypeOK
<1>3. /\ Open' = Open \cup {fd}
      /\ sock' \in [Open' -> Record]
      /\ sock'[fd].by = call.kind
      /\ \A f \in Open : sock'[f] = sock[f]
  BY <1>1, WithFits DEF Socket
<1>4. s' = fd /\ fd \notin Open /\ held' = held /\ call' = call /\ todo' = Steps(call)
      /\ pc = "socket" /\ pc' = "setup" /\ left' = left - 1 /\ left > 0 /\ ret' = ret
      /\ errno' = errno /\ s = NoFd
  BY DEF Socket, Typed
<1>5. TypeOK'
  BY <1>2, <1>3, <1>4 DEF TypeOK, HeldOpen
<1>6. NothingLost' /\ HeldOpen'
  BY <1>3, <1>4 DEF NothingLost, HeldOpen, TypeOK
<1>7. Typed' /\ InSetup'
  BY <1>2, <1>3, <1>4 DEF Typed, InSetup
<1> QED
  BY <1>5, <1>6, <1>7

(* What the call does to its socket keeps it; the last step returns it.    *)
LEMMA DoneFits ==
  ASSUME IInv, Done \/ InProgress
  PROVE  IInv'
<1> USE SockAssumption DEF IInv
<1>1. /\ pc = "setup" /\ s \in Open \ held /\ s \in Fd /\ Open \subseteq Fd
      /\ todo \in Seq(StepsOf(call.kind)) /\ todo # <<>>
      /\ sock[s].by = call.kind /\ held \subseteq Open /\ errno' = errno
  BY DEF Done, InProgress, TypeOK, InSetup, HeldOpen
<1>2. Head(todo).does \in Deed
  <2>1. Head(todo) \in StepsOf(call.kind)
    BY <1>1, FirstAndRest
  <2> QED
    BY <2>1 DEF StepsOf
<1>3. /\ Open' = Open
      /\ sock' \in [Open' -> Record]
      /\ \A f \in Open : sock'[f].by = sock[f].by
  BY <1>1, <1>2, DidFits DEF Done, InProgress
<1>4. \A f \in Open' \ (held \cup {s}) : sock'[f].by \in Leavers
  BY <1>3 DEF NothingLost, Leavers
<1>5. CASE Return(s)
  BY <1>1, <1>3, <1>4, <1>5, ReturnFits DEF TypeOK
<1>6. CASE ~Return(s)
  <2>1. Len(todo) # 1 /\ todo' = Tail(todo) /\ UNCHANGED <<held, call, pc, left, s, ret>>
    BY <1>6 DEF Done, InProgress
  <2>2. Tail(todo) \in Seq(StepsOf(call.kind)) /\ Tail(todo) # <<>>
    BY <1>1, <2>1, FirstAndRest
  <2>3. TypeOK'
    BY <1>1, <1>3, <2>1, <2>2 DEF TypeOK
  <2>4. NothingLost' /\ HeldOpen'
    BY <1>1, <1>3, <1>4, <2>1 DEF NothingLost, HeldOpen, Leavers
  <2>5. Typed' /\ InSetup'
    BY <1>1, <1>3, <2>1, <2>2 DEF Typed, InSetup
  <2> QED
    BY <2>3, <2>4, <2>5
<1> QED
  BY <1>5, <1>6

(* Every way out of a step that failed.                                    *)
LEMMA FailsFits ==
  ASSUME IInv, Fails
  PROVE  IInv'
<1> USE SockAssumption DEF IInv
<1>1. /\ pc = "setup" /\ s \in Open \ held /\ s \in Fd /\ Open \subseteq Fd
      /\ todo \in Seq(StepsOf(call.kind)) /\ todo # <<>>
      /\ sock[s].by = call.kind /\ held \subseteq Open /\ errno' = errno
      /\ errno \in {"none", "EINTR", "other"}
  BY DEF Fails, TypeOK, InSetup, HeldOpen
<1>2. Head(todo).orElse \in Reactions(call.kind)
  <2>1. Head(todo) \in StepsOf(call.kind)
    BY <1>1, FirstAndRest
  <2> QED
    BY <2>1 DEF StepsOf
<1>3. sock \in [Open -> Record]
  BY DEF Typed
<1>4. ASSUME sock' = Without(s)
      PROVE  /\ Open' = Open \ {s} /\ sock' \in [Open' -> Record]
             /\ \A f \in Open' : sock'[f] = sock[f]
             /\ \A f \in Open' \ held : sock'[f].by \in Leavers
             /\ held \subseteq Open'
  BY <1>1, <1>4, WithoutFits DEF NothingLost, Leavers
<1>5. CASE sock' = Without(s) /\ Return(NoFd)
  BY <1>1, <1>4, <1>5, ReturnFits
<1>6. CASE CloseFirst
  <2>1. sock' = Without(s) /\ pc' = "closed" /\ UNCHANGED <<held, call, left, s, ret>>
    BY <1>6 DEF CloseFirst
  <2>2. TypeOK'
    BY <1>1, <1>4, <2>1 DEF TypeOK
  <2>3. NothingLost' /\ HeldOpen'
    BY <1>1, <1>4, <2>1 DEF NothingLost, HeldOpen, Leavers
  <2>4. Typed' /\ InSetup'
    BY <1>4, <2>1 DEF Typed, InSetup
  <2> QED
    BY <2>2, <2>3, <2>4
<1>7. CASE sock' = sock /\ Return(s)
  <2>1. \A f \in Open \ (held \cup {s}) : sock[f].by \in Leavers
    BY DEF NothingLost, Leavers
  <2> QED
    BY <1>1, <1>3, <1>7, <2>1, ReturnFits DEF Open
<1>8. CASE Head(todo).orElse = "leave" /\ sock' = sock /\ Return(NoFd)
  <2>1. call.kind \in Leavers
    BY <1>2, <1>8 DEF Reactions, Reaction
  <2>2. \A f \in Open \ held : sock[f].by \in Leavers
    BY <1>1, <2>1 DEF NothingLost, Leavers
  <2> QED
    BY <1>1, <1>3, <1>8, <2>2, ReturnFits DEF Open
<1>9. CASE Head(todo).orElse = "next" /\ NextAddress
  <2>1. call.kind # "accept"
    BY <1>1 DEF InSetup
  <2>2. sock' = Without(s) /\ s' = NoFd /\ pc' = "socket"
        /\ UNCHANGED <<held, call, left, ret>>
    BY <1>9 DEF NextAddress
  <2>3. TypeOK'
    BY <1>1, <1>4, <2>2 DEF TypeOK
  <2>4. NothingLost' /\ HeldOpen'
    BY <1>1, <1>4, <2>2 DEF NothingLost, HeldOpen, Leavers
  <2>5. Typed' /\ InSetup'
    BY <1>4, <2>1, <2>2 DEF Typed, InSetup
  <2> QED
    BY <2>3, <2>4, <2>5
<1> QED
  BY <1>5, <1>6, <1>7, <1>8, <1>9 DEF Fails

(* The number that is returned is nobody's, or somebody else's.            *)
LEMMA ReturnClosedFits ==
  ASSUME IInv, ReturnClosed
  PROVE  IInv'
<1>1. /\ Return(s) /\ sock' = sock /\ Open' = Open /\ errno' = errno
      /\ s \in Fd \cup {NoFd} /\ held \subseteq Open /\ Open \subseteq Fd
      /\ sock \in [Open -> Record] /\ errno \in {"none", "EINTR", "other"}
  BY DEF ReturnClosed, Open, IInv, TypeOK, HeldOpen, Typed
<1>2. \A f \in Open \ (held \cup {s}) : sock[f].by \in Leavers
  BY DEF IInv, NothingLost, Leavers
<1> QED
  BY <1>1, <1>2, ReturnFits

(* The calls that return without a socket.                                 *)
LEMMA EmptyHandedFits ==
  ASSUME IInv, ResolveFails \/ NoAddress \/ AcceptFails
  PROVE  IInv'
<1> USE SockAssumption DEF IInv
<1>1. /\ pc # "setup" /\ s = NoFd /\ held \subseteq Open /\ Open \subseteq Fd
      /\ sock \in [Open -> Record]
      /\ \A f \in Open \ (held \cup {NoFd}) : sock[f].by \in Leavers
  BY DEF ResolveFails, NoAddress, AcceptFails, Typed, TypeOK, HeldOpen, NothingLost, Leavers
<1>2. Open' = Open /\ sock' \in [Open' -> Record] /\ \A f \in Open : sock'[f] = sock[f]
  <2>1. CASE NoAddress
    BY <1>1, <2>1, WithoutFits DEF NoAddress
  <2>2. CASE sock' = sock
    BY <1>1, <2>2 DEF Open
  <2> QED
    BY <2>1, <2>2 DEF ResolveFails, AcceptFails
<1>3. errno' \in {"none", "EINTR", "other"}
  BY DEF ResolveFails, NoAddress, AcceptFails, TypeOK
<1>4. CASE Return(NoFd)
  BY <1>1, <1>2, <1>3, <1>4, ReturnFits
<1>5. CASE ~Return(NoFd)
  <2>1. pc' = "crashed" /\ UNCHANGED <<sock, held, call, left, todo, s, ret>>
    BY <1>5 DEF ResolveFails, NoAddress, AcceptFails
  <2>2. TypeOK' /\ NothingLost' /\ HeldOpen'
    BY <1>2, <1>3, <2>1 DEF TypeOK, NothingLost, HeldOpen, Open
  <2>3. Typed' /\ InSetup'
    BY <1>1, <1>2, <2>1 DEF Typed, InSetup
  <2> QED
    BY <2>2, <2>3
<1> QED
  BY <1>4, <1>5

LEMMA AcceptFits ==
  ASSUME IInv, NEW fd \in Fd, Accept(fd)
  PROVE  IInv'
<1> USE SockAssumption DEF IInv
<1>1. fd \notin Open /\ call.kind \in Maker /\ s = NoFd /\ errno' = errno /\ Return(fd)
  BY DEF Accept, TypeOK, Typed, Calls, Entry, TcpConnectCalls, UdpConnectCalls,
         UnixConnectCalls, TcpServerCalls, UdpServerCalls, UnixServerCalls, AcceptCalls,
         Maker, Connects, Servers, Locals
<1>2. /\ Open' = Open \cup {fd}
      /\ sock' \in [Open' -> Record]
      /\ \A f \in Open : sock'[f] = sock[f]
  BY <1>1, WithFits DEF Accept
<1> QED
  BY <1>1, <1>2, ReturnFits DEF TypeOK, HeldOpen, NothingLost, Leavers

(* Other threads get only descriptors that are nobody's, and close only    *)
(* what they hold: never the socket of the call.                           *)
LEMMA OpensFits ==
  ASSUME IInv, NEW fd \in Fd, Opens(fd)
  PROVE  IInv'
<1> USE SockAssumption DEF IInv
<1>1. /\ Open' = Open \cup {fd}
      /\ sock' \in [Open' -> Record]
      /\ \A f \in Open : sock'[f] = sock[f]
  BY WithFits DEF Opens, Maker
<1>2. fd \notin Open /\ held' = held \cup {fd}
      /\ UNCHANGED <<call, pc, left, todo, s, ret, errno>>
  BY DEF Opens
<1>3. TypeOK'
  BY <1>1, <1>2 DEF TypeOK
<1>4. NothingLost' /\ HeldOpen'
  BY <1>1, <1>2 DEF NothingLost, HeldOpen
<1>5. Typed' /\ InSetup'
  BY <1>1, <1>2 DEF Typed, InSetup, TypeOK
<1> QED
  BY <1>3, <1>4, <1>5

LEMMA ClosesFits ==
  ASSUME IInv, NEW fd \in Fd, Closes(fd)
  PROVE  IInv'
<1> USE SockAssumption DEF IInv
<1>1. /\ Open' = Open \ {fd}
      /\ sock' \in [Open' -> Record]
      /\ \A f \in Open' : sock'[f] = sock[f]
  BY WithoutFits DEF Closes
<1>2. fd \in held /\ held' = held \ {fd}
      /\ UNCHANGED <<call, pc, left, todo, s, ret, errno>>
  BY DEF Closes
<1>3. TypeOK'
  BY <1>1, <1>2 DEF TypeOK
<1>4. NothingLost' /\ HeldOpen'
  BY <1>1, <1>2 DEF NothingLost, HeldOpen
<1>5. Typed' /\ InSetup'
  BY <1>1, <1>2 DEF Typed, InSetup, TypeOK
<1> QED
  BY <1>3, <1>4, <1>5

(* Every step keeps the invariant.                                         *)
LEMMA NextFits == IInv /\ [Next]_vars => IInv'
<1> SUFFICES ASSUME IInv, [Next]_vars PROVE IInv'
  OBVIOUS
<1>1. CASE (\E c \in Calls : Call(c)) \/ Resolve \/ SocketFails \/ Interrupted
  BY <1>1, QuietFits
<1>2. CASE ResolveFails \/ NoAddress \/ AcceptFails
  BY <1>2, EmptyHandedFits
<1>3. CASE \E fd \in Fd : Socket(fd)
  BY <1>3, SocketFits
<1>4. CASE Done \/ InProgress
  BY <1>4, DoneFits
<1>5. CASE Fails
  BY <1>5, FailsFits
<1>6. CASE \E fd \in Fd : Accept(fd)
  BY <1>6, AcceptFits
<1>7. CASE \E fd \in Fd : Opens(fd) \/ Closes(fd)
  BY <1>7, OpensFits, ClosesFits
<1>8. CASE ReturnClosed
  BY <1>8, ReturnClosedFits
<1>9. CASE UNCHANGED vars
  BY <1>9 DEF vars, IInv, TypeOK, NothingLost, HeldOpen, Typed, InSetup, Open
<1> QED
  BY <1>1, <1>2, <1>3, <1>4, <1>5, <1>6, <1>7, <1>8, <1>9 DEF Next, Function

-----------------------------------------------------------------------------
(* The theorems                                                            *)

(***************************************************************************)
(* The inductive invariant: besides what is stated, the steps that a call  *)
(* has still to do are those of its kind, so that only a server can leave  *)
(* its socket behind, and the socket in progress is the call's own.        *)
(***************************************************************************)
THEOREM SockInvariance == Spec => []IInv
<1> QED
  BY Initially, NextFits, PTL DEF Spec

(* Every value stays of its type, the socket of a call in progress is      *)
(* open, and nobody else holds it.                                         *)
THEOREM SockTypeCorrect == Spec => []TypeOK
<1>1. IInv => TypeOK
  BY DEF IInv
<1> QED
  BY SockInvariance, <1>1, PTL

(* Whichever steps fail, no connect, accept or successful server loses the *)
(* socket it has made.                                                     *)
THEOREM NoSocketLost == Spec => []NothingLost
<1>1. IInv => NothingLost
  BY DEF IInv
<1> QED
  BY SockInvariance, <1>1, PTL

(* No error path closes a descriptor that somebody else holds by then.     *)
THEOREM HeldStaysOpen == Spec => []HeldOpen
<1>1. IInv => HeldOpen
  BY DEF IInv
<1> QED
  BY SockInvariance, <1>1, PTL

-----------------------------------------------------------------------------
(***************************************************************************)
(* ReturnedFit: what the functions return is what they were asked for, up  *)
(* to the exceptions that their tables of steps make.                      *)
(***************************************************************************)

(* A step, as the tables have it.                                          *)
Row == [does : Deed, orElse : Reaction]

(* What the first n steps of q do, and what all of them do.                *)
Before(q, n) == {q[j].does : j \in 1 .. n}
All(q) == Before(q, Len(q))

(***************************************************************************)
(* Where the way out of a step may return the socket, when all the steps   *)
(* do F and those before it have done D: see the exceptions of ReturnedFit *)
(***************************************************************************)
Excused(c, F, D, row) ==
  /\ row.orElse = "ret" => F \ D = {"source", "connect"} \/ F \ D = {"perm"}
  /\ row.orElse = "closed" => c.kind = "unixconnect"
  /\ row.does = "connect" /\ c.kind = "tcpconnect"
       => F \ D = {"connect"} /\ ("nonblock" \in c.opts => "nonblock" \in D)

Sound(c, F, q) ==
  /\ q \in Seq(Row)
  /\ \A i \in 1 .. Len(q) : Excused(c, F, Before(q, i - 1), q[i])

(* The call in progress has done the steps in front of those to be done.   *)
Progress ==
  /\ pc \in {"resolve", "socket", "setup"} => errno = "none"
  /\ pc = "accept" => call.kind = "accept"
  /\ pc = "closed" =>
       call.kind = "unixconnect" /\ (s \in Open => sock[s].by = "other")
  /\ pc = "setup" =>
       \E n \in 0 .. Len(Steps(call)) :
         /\ Len(todo) = Len(Steps(call)) - n
         /\ \A i \in 1 .. Len(todo) : todo[i] = Steps(call)[n + i]
         /\ sock[s].done = Before(Steps(call), n)

-----------------------------------------------------------------------------
(* The tables, built from one step to the next.                            *)

(* A table without steps is sound.                                         *)
LEMMA Nothing ==
  ASSUME NEW c, NEW F
  PROVE  Sound(c, F, <<>>) /\ All(<<>>) = {}
BY DEF Sound, All, Before

(* A sound table with one more step, if that is excused where it stands.   *)
LEMMA Extend ==
  ASSUME NEW c, NEW F, NEW q, Sound(c, F, q), NEW does \in Deed, NEW orElse \in Reaction,
         Excused(c, F, All(q), [does |-> does, orElse |-> orElse])
  PROVE  /\ Sound(c, F, q \o Do(does, orElse))
         /\ All(q \o Do(does, orElse)) = All(q) \cup {does}
<1> DEFINE row == [does |-> does, orElse |-> orElse]
           r == q \o <<row>>
<1>1. q \in Seq(Row) /\ Len(q) \in Nat /\ row \in Row /\ <<row>> \in Seq(Row)
  BY LenProperties DEF Sound, Row
<1>2. r \in Seq(Row) /\ Len(r) = Len(q) + 1 /\ \A i \in 1 .. Len(q) + 1 :
        r[i] = IF i <= Len(q) THEN q[i] ELSE row
  BY <1>1, ConcatProperties
<1>3. q \o Do(does, orElse) = r
  BY DEF Do
<1> HIDE DEF r
<1>4. \A n \in 0 .. Len(q) : Before(r, n) = Before(q, n)
  BY <1>1, <1>2 DEF Before
<1>5. r[Len(q) + 1] = row /\ row.does = does
  BY <1>1, <1>2
<1>6. Before(r, Len(q) + 1) = Before(r, Len(q)) \cup {does}
  <2>1. \A j \in 1 .. Len(q) + 1 : j \in 1 .. Len(q) \/ j = Len(q) + 1
    BY <1>1
  <2>2. \A j \in 1 .. Len(q) : j \in 1 .. Len(q) + 1
    BY <1>1
  <2>3. Len(q) + 1 \in 1 .. Len(q) + 1
    BY <1>1
  <2> HIDE DEF row
  <2> QED
    BY <1>5, <2>1, <2>2, <2>3 DEF Before
<1>7. All(r) = All(q) \cup {does}
  <2>1. Len(q) \in 0 .. Len(q)
    BY <1>1
  <2> QED
    BY <1>2, <1>4, <1>6, <2>1 DEF All
<1>8. ASSUME NEW i \in 1 .. Len(r) PROVE Excused(c, F, Before(r, i - 1), r[i])
  <2>1. CASE i <= Len(q)
    <3>1. i \in 1 .. Len(q) /\ i - 1 \in 0 .. Len(q)
      BY <1>1, <1>2, <2>1
    <3>2. r[i] = q[i] /\ Before(r, i - 1) = Before(q, i - 1)
      BY <1>1, <1>2, <1>4, <3>1
    <3> QED
      BY <3>1, <3>2 DEF Sound
  <2>2. CASE ~(i <= Len(q))
    <3>1. i = Len(q) + 1 /\ i - 1 = Len(q) /\ Len(q) \in 0 .. Len(q)
      BY <1>1, <1>2, <2>2
    <3>2. r[i] = row /\ Before(r, i - 1) = All(q)
      BY <1>4, <1>5, <3>1 DEF All
    <3> QED
      BY <3>2
  <2> QED
    BY <2>1, <2>2
<1> QED
  BY <1>2, <1>3, <1>7, <1>8 DEF Sound

(* The same for a step that is there only if it is asked for.              *)
LEMMA ExtendAsked ==
  ASSUME NEW c, NEW F, NEW q, Sound(c, F, q), NEW does \in Deed, NEW orElse \in Reaction,
         does \in c.opts => Excused(c, F, All(q), [does |-> does, orElse |-> orElse])
  PROVE  /\ Sound(c, F, q \o Asked(c, does, orElse))
         /\ All(q \o Asked(c, does, orElse)) = All(q) \cup ({does} \cap c.opts)
<1>1. CASE does \in c.opts
  BY <1>1, Extend DEF Asked
<1>2. CASE does \notin c.opts
  <2>1. q \o <<>> = q
    BY ConcatEmptySeq DEF Sound
  <2>2. {does} \cap c.opts = {}
    BY <1>2
  <2> QED
    BY <1>2, <2>1, <2>2 DEF Asked
<1> QED
  BY <1>1, <1>2

(* The first step.                                                         *)
LEMMA First ==
  ASSUME NEW c, NEW F, NEW does \in Deed, NEW orElse \in Reaction
  PROVE  /\ Excused(c, F, {}, [does |-> does, orElse |-> orElse])
              => Sound(c, F, Do(does, orElse)) /\ All(Do(does, orElse)) = {does}
         /\ (does \in c.opts => Excused(c, F, {}, [does |-> does, orElse |-> orElse]))
              => /\ Sound(c, F, Asked(c, does, orElse))
                 /\ All(Asked(c, does, orElse)) = {does} \cap c.opts
<1>0. PICK e : e = <<>>
  OBVIOUS
<1>1. Sound(c, F, e) /\ All(e) = {}
  BY <1>0, Nothing
<1>2. [does |-> does, orElse |-> orElse] \in Row
  BY DEF Row
<1>3. Do(does, orElse) \in Seq(Row) /\ Asked(c, does, orElse) \in Seq(Row)
  BY <1>2, EmptySeq DEF Do, Asked
<1>4. e \o Do(does, orElse) = Do(does, orElse)
      /\ e \o Asked(c, does, orElse) = Asked(c, does, orElse)
  BY <1>0, <1>3, ConcatEmptySeq
<1>5. ASSUME Excused(c, F, {}, [does |-> does, orElse |-> orElse])
      PROVE  Sound(c, F, Do(does, orElse)) /\ All(Do(does, orElse)) = {does}
  <2>1. Excused(c, F, All(e), [does |-> does, orElse |-> orElse])
    BY <1>1, <1>5
  <2>2. /\ Sound(c, F, e \o Do(does, orElse))
        /\ All(e \o Do(does, orElse)) = All(e) \cup {does}
    BY <1>1, <2>1, Extend
  <2> QED
    BY <1>1, <1>4, <2>2
<1>6. ASSUME does \in c.opts => Excused(c, F, {}, [does |-> does, orElse |-> orElse])
      PROVE  /\ Sound(c, F, Asked(c, does, orElse))
             /\ All(Asked(c, does, orElse)) = {does} \cap c.opts
  <2>1. does \in c.opts => Excused(c, F, All(e), [does |-> does, orElse |-> orElse])
    BY <1>1, <1>6
  <2>2. /\ Sound(c, F, e \o Asked(c, does, orElse))
        /\ All(e \o Asked(c, does, orElse)) = All(e) \cup ({does} \cap c.opts)
    BY <1>1, <2>1, ExtendAsked
  <2> QED
    BY <1>1, <1>4, <2>2
<1> QED
  BY <1>5, <1>6

(***************************************************************************)
(* The two connects with addresses: only a socket that could not be bound  *)
(* to its source is returned before the connect, and the connect is the    *)
(* last step.                                                              *)
(***************************************************************************)
LEMMA TcpConnectSound ==
  ASSUME NEW c, c.kind \in Connects
  PROVE  Sound(c, All(TcpConnect(c)), TcpConnect(c))
<1> DEFINE F == {"reuse", "connect"} \cup ({"nonblock", "lookup", "source"} \cap c.opts)
           q1 == Do("reuse", "err")
           q2 == q1 \o Asked(c, "nonblock", "err")
           q3 == q2 \o Asked(c, "lookup", "err")
           q4 == q3 \o Asked(c, "source", "ret")
           q5 == q4 \o Do("connect", "next")
<1>0. {"reuse", "nonblock", "lookup", "source", "connect"} \subseteq Deed
      /\ {"err", "ret", "next"} \subseteq Reaction
  BY DEF Deed, Reaction
<1>1. Sound(c, F, q1) /\ All(q1) = {"reuse"}
  BY <1>0, First DEF Excused
<1>2. Sound(c, F, q2) /\ All(q2) = {"reuse"} \cup ({"nonblock"} \cap c.opts)
  BY <1>0, <1>1, ExtendAsked DEF Excused
<1>3. Sound(c, F, q3) /\ All(q3) = {"reuse"} \cup ({"nonblock", "lookup"} \cap c.opts)
  <2>1. Sound(c, F, q3) /\ All(q3) = All(q2) \cup ({"lookup"} \cap c.opts)
    BY <1>0, <1>2, ExtendAsked DEF Excused
  <2> QED
    BY <1>2, <2>1
<1>4. Sound(c, F, q4) /\ All(q4) = {"reuse"} \cup ({"nonblock", "lookup", "source"} \cap c.opts)
  <2>1. "source" \in c.opts => F \ All(q3) = {"source", "connect"}
    BY <1>3
  <2>2. Sound(c, F, q4) /\ All(q4) = All(q3) \cup ({"source"} \cap c.opts)
    BY <1>0, <1>3, <2>1, ExtendAsked DEF Excused
  <2> QED
    BY <1>3, <2>2
<1>5. Sound(c, F, q5) /\ All(q5) = F
  <2>1. F \ All(q4) = {"connect"} /\ ("nonblock" \in c.opts => "nonblock" \in All(q4))
    BY <1>4
  <2>2. Sound(c, F, q5) /\ All(q5) = All(q4) \cup {"connect"}
    BY <1>0, <1>4, <2>1, Extend DEF Excused
  <2> QED
    BY <1>4, <2>2
<1> QED
  BY <1>5 DEF TcpConnect

(* A local connect returns numbers of sockets it has closed.               *)
LEMMA UnixConnectSound ==
  ASSUME NEW c, c.kind = "unixconnect"
  PROVE  Sound(c, All(UnixConnect(c)), UnixConnect(c))
<1> DEFINE F == All(UnixConnect(c))
           q1 == Do("reuse", "err")
           q2 == q1 \o Asked(c, "nonblock", "closed")
           q3 == q2 \o Do("connect", "closed")
<1> HIDE DEF F
<1>0. {"reuse", "nonblock", "connect"} \subseteq Deed /\ {"err", "closed"} \subseteq Reaction
  BY DEF Deed, Reaction
<1>1. Sound(c, F, q1)
  BY <1>0, First DEF Excused
<1>2. Sound(c, F, q2)
  BY <1>0, <1>1, ExtendAsked DEF Excused
<1>3. Sound(c, F, q3)
  BY <1>0, <1>2, Extend DEF Excused
<1> QED
  BY <1>3 DEF UnixConnect, F

(* The servers return nothing but what is set up ...                       *)
LEMMA TcpServerSound ==
  ASSUME NEW c
  PROVE  Sound(c, All(TcpServer(c)), TcpServer(c))
<1> DEFINE F == All(TcpServer(c))
           q1 == Asked(c, "v6only", "err")
           q2 == q1 \o Do("reuse", "leave")
           q3 == q2 \o Do("bind", "leave")
           q4 == q3 \o Do("listen", "leave")
<1> HIDE DEF F
<1>0. {"v6only", "reuse", "bind", "listen"} \subseteq Deed /\ {"err", "leave"} \subseteq Reaction
  BY DEF Deed, Reaction
<1>1. Sound(c, F, q1)
  BY <1>0, First DEF Excused
<1>2. Sound(c, F, q2)
  BY <1>0, <1>1, Extend DEF Excused
<1>3. Sound(c, F, q3)
  BY <1>0, <1>2, Extend DEF Excused
<1>4. Sound(c, F, q4)
  BY <1>0, <1>3, Extend DEF Excused
<1> QED
  BY <1>4 DEF TcpServer, F

(* ... whether they listen ...                                             *)
LEMMA UdpServerSound ==
  ASSUME NEW c
  PROVE  Sound(c, All(UdpServer(c)), UdpServer(c))
<1> DEFINE F == All(UdpServer(c))
           q1 == Asked(c, "v6only", "err")
           q2 == q1 \o Do("reuse", "leave")
           q3 == q2 \o Do("bind", "leave")
<1> HIDE DEF F
<1>0. {"v6only", "reuse", "bind"} \subseteq Deed /\ {"err", "leave"} \subseteq Reaction
  BY DEF Deed, Reaction
<1>1. Sound(c, F, q1)
  BY <1>0, First DEF Excused
<1>2. Sound(c, F, q2)
  BY <1>0, <1>1, Extend DEF Excused
<1>3. Sound(c, F, q3)
  BY <1>0, <1>2, Extend DEF Excused
<1> QED
  BY <1>3 DEF UdpServer, F

(* ... or not, save a local one whose mode could not be set.               *)
LEMMA UnixServerSound ==
  ASSUME NEW c
  PROVE  Sound(c, All(UnixServer(c)), UnixServer(c))
<1> DEFINE F == {"reuse", "bind", "listen"} \cup ({"perm"} \cap c.opts)
           q1 == Do("reuse", "err")
           q2 == q1 \o Do("bind", "leave")
           q3 == q2 \o Do("listen", "leave")
           q4 == q3 \o Asked(c, "perm", "ret")
<1>0. {"reuse", "bind", "listen", "perm"} \subseteq Deed
      /\ {"err", "leave", "ret"} \subseteq Reaction
  BY DEF Deed, Reaction
<1>1. Sound(c, F, q1) /\ All(q1) = {"reuse"}
  BY <1>0, First DEF Excused
<1>2. Sound(c, F, q2) /\ All(q2) = {"reuse"} \cup {"bind"}
  BY <1>0, <1>1, Extend DEF Excused
<1>3. Sound(c, F, q3) /\ All(q3) = {"reuse", "bind", "listen"}
  <2>1. Sound(c, F, q3) /\ All(q3) = All(q2) \cup {"listen"}
    BY <1>0, <1>2, Extend DEF Excused
  <2> QED
    BY <1>2, <2>1
<1>4. Sound(c, F, q4) /\ All(q4) = F
  <2>1. "perm" \in c.opts => F \ All(q3) = {"perm"}
    BY <1>3
  <2>2. Sound(c, F, q4) /\ All(q4) = All(q3) \cup ({"perm"} \cap c.opts)
    BY <1>0, <1>3, <2>1, ExtendAsked DEF Excused
  <2> QED
    BY <1>3, <2>2
<1> QED
  BY <1>4 DEF UnixServer

(* All the tables.                                                         *)
LEMMA TablesSound ==
  ASSUME NEW c \in Calls
  PROVE  Sound(c, Does(c), Steps(c))
<1>1. c.kind \in Connects \cup Servers \cup Locals \cup {"accept"}
  BY DEF Calls, Entry, TcpConnectCalls, UdpConnectCalls, UnixConnectCalls, TcpServerCalls,
         UdpServerCalls, UnixServerCalls, AcceptCalls, Connects, Servers, Locals
<1>2. c.kind = "tcpconnect" => Steps(c) = TcpConnect(c)
  BY DEF Steps
<1>3. c.kind = "udpconnect" => Steps(c) = TcpConnect(c)
  BY DEF Steps, UdpConnect
<1>4. c.kind = "unixconnect" => Steps(c) = UnixConnect(c)
  BY DEF Steps
<1>5. c.kind = "tcpserver" => Steps(c) = TcpServer(c)
  BY DEF Steps
<1>6. c.kind = "udpserver" => Steps(c) = UdpServer(c)
  BY DEF Steps
<1>7. c.kind = "unixserver" => Steps(c) = UnixServer(c)
  BY DEF Steps
<1>8. c.kind = "accept" => Steps(c) = <<>>
  BY DEF Steps
<1>9. Sound(c, All(Steps(c)), Steps(c))
  <2>1. CASE c.kind \in Connects
    BY <1>2, <1>3, <2>1, TcpConnectSound DEF Connects
  <2>2. CASE c.kind = "unixconnect"
    BY <1>4, <2>2, UnixConnectSound
  <2>3. CASE c.kind = "tcpserver"
    BY <1>5, <2>3, TcpServerSound
  <2>4. CASE c.kind = "udpserver"
    BY <1>6, <2>4, UdpServerSound
  <2>5. CASE c.kind = "unixserver"
    BY <1>7, <2>5, UnixServerSound
  <2>6. CASE c.kind = "accept"
    BY <1>8, <2>6, Nothing
  <2> QED
    BY <1>1, <2>1, <2>2, <2>3, <2>4, <2>5, <2>6 DEF Connects, Servers, Locals
<1>10. All(Steps(c)) = Does(c)
  BY <1>9, LenProperties DEF All, Before, Does, Sound
<1> QED
  BY <1>9, <1>10

-----------------------------------------------------------------------------
(* The call in progress.                                                   *)

(* The inductive invariant.                                                *)
RInv == IInv /\ Progress

LEMMA RInitially == Init => RInv
BY Initially DEF Init, RInv, Progress

(* Where the call stands: the next step is the one of its table, and what  *)
(* was done to its socket is what the steps in front of it do.             *)
LEMMA AtStep ==
  ASSUME RInv, pc = "setup"
  PROVE  /\ call \in Calls /\ Steps(call) \in Seq(Row)
         /\ \E n \in 1 .. Len(Steps(call)) :
              /\ Len(todo) = Len(Steps(call)) - n + 1
              /\ Head(todo) = Steps(call)[n]
              /\ Tail(todo) \in Seq(StepsOf(call.kind))
              /\ Len(Tail(todo)) = Len(Steps(call)) - n
              /\ \A i \in 1 .. Len(Tail(todo)) : Tail(todo)[i] = Steps(call)[n + i]
              /\ sock[s].done = Before(Steps(call), n - 1)
              /\ Excused(call, Does(call), sock[s].done, Head(todo))
              /\ Before(Steps(call), n) = sock[s].done \cup {Head(todo).does}
              /\ n = Len(Steps(call)) => Before(Steps(call), n) = Does(call)
<1> DEFINE q == Steps(call)
<1>1. call \in Calls /\ Sound(call, Does(call), q) /\ q \in Seq(Row) /\ Len(q) \in Nat
  BY TablesSound, LenProperties DEF RInv, IInv, TypeOK, Sound
<1>2. todo \in Seq(StepsOf(call.kind)) /\ todo # <<>> /\ Len(todo) \in Nat \ {0}
  BY LenProperties, EmptySeq DEF RInv, IInv, InSetup, TypeOK
<1>3. PICK m \in 0 .. Len(q) : /\ Len(todo) = Len(q) - m
                               /\ \A i \in 1 .. Len(todo) : todo[i] = q[m + i]
                               /\ sock[s].done = Before(q, m)
  BY DEF RInv, Progress
<1> HIDE DEF q
<1>4. m + 1 \in 1 .. Len(q) /\ 1 \in 1 .. Len(todo) /\ Len(todo) = Len(q) - (m + 1) + 1
      /\ (m + 1) - 1 = m
  BY <1>1, <1>2, <1>3
<1>5. Head(todo) = q[m + 1]
  BY <1>2, <1>3, <1>4, HeadTailProperties
<1>6. /\ Tail(todo) \in Seq(StepsOf(call.kind)) /\ Len(Tail(todo)) = Len(q) - (m + 1)
      /\ \A i \in 1 .. Len(Tail(todo)) : Tail(todo)[i] = q[m + 1 + i]
  <2>1. /\ Tail(todo) \in Seq(StepsOf(call.kind)) /\ Len(Tail(todo)) = Len(todo) - 1
        /\ \A i \in 1 .. Len(Tail(todo)) : Tail(todo)[i] = todo[i + 1]
    BY <1>2, HeadTailProperties
  <2>2. \A i \in 1 .. Len(Tail(todo)) : i + 1 \in 1 .. Len(todo) /\ m + (i + 1) = m + 1 + i
    BY <1>2, <1>3, <2>1
  <2> QED
    BY <1>3, <1>4, <2>1, <2>2
<1>7. Excused(call, Does(call), sock[s].done, Head(todo))
  BY <1>1, <1>3, <1>4, <1>5 DEF Sound
<1>8. Before(q, m + 1) = sock[s].done \cup {Head(todo).does}
  <2>1. \A j \in 1 .. m + 1 : j \in 1 .. m \/ j = m + 1
    BY <1>3
  <2>2. \A j \in 1 .. m : j \in 1 .. m + 1
    BY <1>3
  <2>3. m + 1 \in 1 .. m + 1
    BY <1>3
  <2> QED
    BY <1>3, <1>5, <2>1, <2>2, <2>3 DEF Before
<1>9. Before(q, Len(q)) = Does(call)
  BY <1>1, LenProperties DEF Before, Does, q
<1>10. /\ Len(todo) = Len(q) - (m + 1) + 1 /\ sock[s].done = Before(q, (m + 1) - 1)
       /\ m + 1 = Len(q) => Before(q, m + 1) = Does(call)
  BY <1>3, <1>4, <1>9
<1> QED
  BY <1>1, <1>4, <1>5, <1>6, <1>7, <1>8, <1>10 DEF q

(* What a step adds to the socket's record.                                *)
LEMMA DidDone ==
  ASSUME Typed, s \in Open, NEW what, sock' = Did(what)
  PROVE  sock'[s].done = sock[s].done \cup {what} /\ sock'[s].by = sock[s].by
<1>1. sock \in [Open -> Record] /\ sock[s] \in Record
  BY DEF Typed
<1>2. sock' = [sock EXCEPT ![s] = [sock[s] EXCEPT !.done = sock[s].done \cup {what}]]
  BY DEF Did
<1>3. [sock[s] EXCEPT !.done = sock[s].done \cup {what}].done = sock[s].done \cup {what}
      /\ [sock[s] EXCEPT !.done = sock[s].done \cup {what}].by = sock[s].by
  BY <1>1 DEF Record
<1> QED
  BY <1>1, <1>2, <1>3

(* The invariant of the call in progress.                                  *)
LEMMA ProgressKept ==
  ASSUME RInv, [Next]_vars
  PROVE  Progress'
<1>0. IInv
  BY DEF RInv
<1>1. CASE pc' \notin {"resolve", "socket", "setup", "closed", "accept"}
  BY <1>1 DEF Progress
<1>2. CASE \E c \in Calls : Call(c)
  BY <1>2 DEF Call, Connects, Servers, Locals, Progress, Calls, Entry, TcpConnectCalls,
     UdpConnectCalls, UnixConnectCalls, TcpServerCalls, UdpServerCalls, UnixServerCalls,
     AcceptCalls
<1>3. CASE Resolve \/ SocketFails
  BY <1>3 DEF Resolve, SocketFails, RInv, Progress
<1>4. CASE \E fd \in Fd : Socket(fd)
  <2>1. PICK fd \in Fd : Socket(fd)
    BY <1>4
  <2>2. /\ call' = call /\ todo' = Steps(call) /\ s' = fd /\ pc = "socket" /\ pc' = "setup"
        /\ errno' = errno
        /\ sock' = With(fd, Fresh(call.kind))
    BY <2>1 DEF Socket
  <2>3. Steps(call)' = Steps(call) /\ Steps(call) \in Seq(Row) /\ Len(Steps(call)) \in Nat
    BY <1>0, <2>2, TablesSound, LenProperties DEF IInv, TypeOK, Sound, Steps, TcpConnect,
       UdpConnect, UnixConnect, TcpServer, UdpServer, UnixServer, Asked
  <2>4. sock'[fd].done = {} /\ Before(Steps(call), 0) = {}
    BY <2>2 DEF With, Fresh, Before
  <2>5. 0 \in 0 .. Len(Steps(call)) /\ Len(Steps(call)) = Len(Steps(call)) - 0
        /\ \A i \in 1 .. Len(Steps(call)) : 0 + i = i
    BY <2>3
  <2>6. errno' = "none"
    BY <2>2 DEF RInv, Progress
  <2>7. \E n \in 0 .. Len(Steps(call')) :
          /\ Len(todo') = Len(Steps(call')) - n
          /\ \A i \in 1 .. Len(todo') : todo'[i] = Steps(call')[n + i]
          /\ sock'[s'].done = Before(Steps(call'), n)
    BY <2>2, <2>3, <2>4, <2>5
  <2> QED
    BY <2>2, <2>6, <2>7 DEF Progress, Before
<1>5. CASE Done /\ pc' = "setup"
  <2>1. /\ pc = "setup" /\ sock' = Did(Head(todo).does) /\ todo' = Tail(todo) /\ Len(todo) # 1
        /\ UNCHANGED <<call, s, errno>>
    BY <1>5 DEF Done, Return
  <2>2. PICK n \in 1 .. Len(Steps(call)) :
          /\ Len(Tail(todo)) = Len(Steps(call)) - n
          /\ \A i \in 1 .. Len(Tail(todo)) : Tail(todo)[i] = Steps(call)[n + i]
          /\ Before(Steps(call), n) = sock[s].done \cup {Head(todo).does}
    BY <2>1, AtStep
  <2>3. sock'[s].done = Before(Steps(call), n)
    BY <1>0, <2>1, <2>2, DidDone DEF IInv, TypeOK
  <2>4. n \in 0 .. Len(Steps(call)) /\ errno = "none"
    BY <2>1 DEF RInv, Progress
  <2>5. \E m \in 0 .. Len(Steps(call')) :
          /\ Len(todo') = Len(Steps(call')) - m
          /\ \A i \in 1 .. Len(todo') : todo'[i] = Steps(call')[m + i]
          /\ sock'[s'].done = Before(Steps(call'), m)
    BY <2>1, <2>2, <2>3, <2>4
  <2> QED
    BY <1>5, <2>1, <2>4, <2>5 DEF Progress, Before
<1>6. CASE (Fails \/ InProgress) /\ pc' \in {"resolve", "socket", "setup"}
  <2>1. pc = "setup" /\ pc' = "socket" /\ errno' = errno
    BY <1>6 DEF Fails, InProgress, Return, NextAddress, CloseFirst
  <2> QED
    BY <2>1 DEF RInv, Progress
<1>c. CASE Fails /\ pc' = "closed"
  <2>1. /\ pc = "setup" /\ CloseFirst /\ Head(todo).orElse = "closed"
    BY <1>c DEF Fails, Return, NextAddress
  <2>2. call.kind = "unixconnect"
    BY <2>1, AtStep DEF Excused
  <2>3. s' \notin Open' /\ call' = call
    BY <2>1 DEF CloseFirst, Without, Open
  <2> QED
    BY <1>c, <2>2, <2>3 DEF Progress
<1>7. CASE \E fd \in Fd : Opens(fd) \/ Closes(fd)
  <2>1. UNCHANGED <<call, pc, left, todo, s, ret, errno>>
    BY <1>7 DEF Opens, Closes
  <2>2. pc = "setup" => sock'[s] = sock[s]
    BY <1>0, <1>7 DEF Opens, Closes, With, Without, IInv, TypeOK
  <2>3. pc' = "setup" => \E m \in 0 .. Len(Steps(call')) :
          /\ Len(todo') = Len(Steps(call')) - m
          /\ \A i \in 1 .. Len(todo') : todo'[i] = Steps(call')[m + i]
          /\ sock'[s'].done = Before(Steps(call'), m)
    BY <2>1, <2>2 DEF RInv, Progress
  <2>4. pc = "closed" => (s \in Open' => sock'[s].by = "other")
    BY <1>7 DEF Opens, Closes, With, Without, Open, Fresh, RInv, Progress
  <2> QED
    BY <2>1, <2>3, <2>4 DEF RInv, Progress, Before
<1>8. CASE Interrupted
  BY <1>8 DEF Interrupted, RInv, Progress
<1>9. CASE UNCHANGED vars
  BY <1>9 DEF vars, RInv, Progress, Before, Open
<1> QED
  BY <1>1, <1>2, <1>3, <1>4, <1>5, <1>6, <1>c, <1>7, <1>8, <1>9 DEF Next, Function, ResolveFails,
     NoAddress, Done, InProgress, Fails, NextAddress, CloseFirst, ReturnClosed, Accept,
     AcceptFails, Return

-----------------------------------------------------------------------------
(* What a step that returns leaves.                                        *)
Fit(c, r) ==
  \/ r = NoFd /\ errno' # "EINTR"
  \/ /\ c.kind = "unixconnect"
     /\ r \in DOMAIN sock' => sock'[r].by = "other"
  \/ /\ sock'[r].by = c.kind
     /\ LET missing == Does(c) \ sock'[r].done
        IN  \/ missing \in {{}, {"source", "connect"}, {"perm"}}
            \/ /\ missing = {"connect"} /\ c.kind = "tcpconnect"
               /\ {"connecting", "nonblock"} \subseteq sock'[r].done

(* One lemma for each way to return.                                       *)
LEMMA AcceptReturns ==
  ASSUME RInv, NEW fd \in Fd, Accept(fd)
  PROVE  Fit(call, ret')
<1>1. pc = "accept" /\ ret' = fd /\ sock' = With(fd, Fresh(call.kind))
  BY DEF Accept, Return
<1>2. sock'[fd] = Fresh(call.kind)
  BY <1>1 DEF With
<1>3. sock'[fd].by = call.kind /\ sock'[fd].done = {}
  BY <1>2 DEF Fresh
<1>4. call.kind = "accept"
  BY <1>1 DEF RInv, Progress
<1>5. Does(call) = {}
  BY <1>4 DEF Does, Steps
<1> QED
  BY <1>1, <1>3, <1>5 DEF Fit

(* Behind the last step: everything in the table was done.                 *)
LEMMA DoneReturns ==
  ASSUME RInv, Done, pc' = "idle"
  PROVE  Fit(call, ret')
<1>1. /\ pc = "setup" /\ sock' = Did(Head(todo).does) /\ ret' = s /\ Len(todo) = 1
      /\ s \in Open /\ Typed /\ sock[s].by = call.kind
  BY DEF Done, Return, RInv, IInv, TypeOK, InSetup
<1>2. sock'[s].done = sock[s].done \cup {Head(todo).does} /\ sock'[s].by = sock[s].by
  BY <1>1, DidDone
<1>3. sock'[s].done = Does(call)
  <2>1. PICK n \in 1 .. Len(Steps(call)) :
          /\ Len(todo) = Len(Steps(call)) - n + 1
          /\ Before(Steps(call), n) = sock[s].done \cup {Head(todo).does}
          /\ n = Len(Steps(call)) => Before(Steps(call), n) = Does(call)
    BY <1>1, AtStep
  <2>2. Len(Steps(call)) \in Nat
    BY <1>1, AtStep, LenProperties
  <2>3. \A a \in Nat : \A b \in 1 .. a : 1 = a - b + 1 => b = a
    OBVIOUS
  <2>4. 1 = Len(Steps(call)) - n + 1
    BY <1>1, <2>1
  <2>5. n = Len(Steps(call))
    BY <2>2, <2>3, <2>4
  <2> QED
    BY <1>2, <2>1, <2>5
<1> QED
  BY <1>1, <1>2, <1>3 DEF Fit

(* While the connect is under way: everything else was done.               *)
LEMMA InProgressReturns ==
  ASSUME RInv, InProgress
  PROVE  Fit(call, ret')
<1>1. /\ pc = "setup" /\ sock' = Did("connecting") /\ ret' = s /\ Head(todo).does = "connect"
      /\ call.kind = "tcpconnect" /\ "nonblock" \in call.opts
      /\ s \in Open /\ Typed /\ sock[s].by = call.kind
  BY DEF InProgress, Return, RInv, IInv, TypeOK, InSetup
<1>2. sock'[s].done = sock[s].done \cup {"connecting"} /\ sock'[s].by = sock[s].by
  BY <1>1, DidDone
<1>3. Does(call) \ sock[s].done = {"connect"} /\ "nonblock" \in sock[s].done
  BY <1>1, AtStep DEF Excused
<1>4. Does(call) \ sock'[s].done = {"connect"}
  BY <1>2, <1>3
<1>5. {"connecting", "nonblock"} \subseteq sock'[s].done
  BY <1>2, <1>3
<1> QED
  BY <1>1, <1>2, <1>4, <1>5 DEF Fit

(* Because a step failed: the table excuses it.                            *)
LEMMA FailsReturns ==
  ASSUME RInv, Fails, pc' = "idle"
  PROVE  Fit(call, ret')
<1>1. pc = "setup" /\ errno' = "none" /\ s \in Open /\ sock[s].by = call.kind
  BY DEF Fails, RInv, Progress, IInv, InSetup, TypeOK
<1>2. Excused(call, Does(call), sock[s].done, Head(todo))
  BY <1>1, AtStep
<1>3. CASE Return(NoFd)
  BY <1>1, <1>3 DEF Return, Fit
<1>4. CASE Head(todo).orElse = "ret" /\ sock' = sock /\ Return(s)
  <2>1. ret' = s
    BY <1>4 DEF Return
  <2>2. Does(call) \ sock[s].done \in {{}, {"source", "connect"}, {"perm"}}
    BY <1>2, <1>4 DEF Excused
  <2> QED
    BY <1>1, <1>4, <2>1, <2>2 DEF Fit
<1>5. CASE NextAddress \/ CloseFirst
  BY <1>5 DEF NextAddress, CloseFirst
<1> QED
  BY <1>3, <1>4, <1>5 DEF Fails

(* The other steps do not return.                                          *)
LEMMA ReturnsFit ==
  ASSUME RInv, [Next]_vars, pc # "idle", pc' = "idle"
  PROVE  Fit(call, ret')
<1>1. CASE ResolveFails \/ NoAddress \/ AcceptFails
  BY <1>1 DEF ResolveFails, NoAddress, AcceptFails, Return, RInv, Progress, Fit
<1>2. CASE \E fd \in Fd : Accept(fd)
  BY <1>2, AcceptReturns
<1>3. CASE Done \/ InProgress \/ Fails
  BY <1>3, DoneReturns, InProgressReturns, FailsReturns
<1>c. CASE ReturnClosed
  BY <1>c DEF ReturnClosed, Return, RInv, Progress, Fit, Open
<1>4. CASE (\E c \in Calls : Call(c)) \/ Resolve \/ (\E fd \in Fd : Socket(fd)) \/ SocketFails
           \/ Interrupted \/ (\E fd \in Fd : Opens(fd) \/ Closes(fd)) \/ UNCHANGED vars
  BY <1>4 DEF Call, Resolve, Socket, SocketFails, Interrupted, Opens, Closes, vars
<1> QED
  BY <1>1, <1>2, <1>3, <1>c, <1>4 DEF Next, Function

(***************************************************************************)
(* In every reachable state the socket of the call in progress has had     *)
(* done to it what the steps in front of those to be done do.              *)
(***************************************************************************)
THEOREM CallsInvariance == Spec => []RInv
<1>1. RInv /\ [Next]_vars => RInv'
  BY ProgressKept, NextFits DEF RInv
<1> QED
  BY RInitially, <1>1, PTL DEF Spec

(***************************************************************************)
(* Whatever system calls fail and whatever other threads open and close, a *)
(* connect, server or accept of ep_sock.h returns -1, or a socket of its   *)
(* own with everything asked for done to it, or one of the four exceptions *)
(* that ReturnedFit names.                                                 *)
(***************************************************************************)
THEOREM WhatIsReturnedFits == Spec => ReturnedFit
<1>1. RInv /\ [Next]_vars =>
        [pc # "idle" /\ pc' = "idle" => Fit(call, ret')]_vars
  BY ReturnsFit
<1>2. Spec => [][pc # "idle" /\ pc' = "idle" => Fit(call, ret')]_vars
  BY CallsInvariance, <1>1, PTL DEF Spec
<1> QED
  BY <1>2 DEF ReturnedFit, Fit
=============================================================================
