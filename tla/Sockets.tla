------------------------------- MODULE Sockets -------------------------------
(***************************************************************************)
(* Socket, ServerSocket and ClientSocket objects and the descriptors they  *)
(* own: construction, open(), deferred bind(), listen() and connect(),     *)
(* accept(), acceptInNewThread(), adoption of a descriptor by              *)
(* Socket::create(), and destruction.                                      *)
(*                                                                         *)
(* A step is one system call of one thread with the code up to the next    *)
(* one, so calls of different threads interleave between the system calls  *)
(* that a single library call makes.  A call whose system call fails with  *)
(* nothing to undo throws and leaves the state as it was: it is not a step.*)
(*                                                                         *)
(* The kernel's side (descriptor table, endpoints, address bookkeeping) is *)
(* external and modelled as far as the calls' outcomes depend on it.       *)
(***************************************************************************)
EXTENDS SockAddr, FiniteSets

CONSTANTS
  Threads,        \* threads that can ever run
  InitialThreads, \* those that do not come from acceptInNewThread()
  Fds,            \* descriptor numbers
  Endpoints,      \* kernel sockets; bound: how many can ever exist
  Objects,        \* Socket objects
  Addresses,
  Domain,         \* the SocketDomain of each Address
  Backlog,        \* pending connections a listening endpoint holds
  MaxHeld,        \* bound: Sockets a thread creates for itself
  GarbageLens,    \* values lowLevelAccept()'s `len' can start with
  SpawnMayFail,   \* whether the std::thread constructor can throw
  NoFd, NoEndpoint, NoObject, NoThread, NoAddress

ASSUME ConstantsAssumption ==
  /\ InitialThreads \subseteq Threads
  /\ Domain \in [Addresses -> Domains]
  /\ Backlog \in Nat /\ MaxHeld \in Nat
  /\ GarbageLens \subseteq 0..(LenModulus - 1)
  /\ SpawnMayFail \in BOOLEAN
  /\ NoFd \notin Fds /\ NoEndpoint \notin Endpoints /\ NoObject \notin Objects
  /\ NoThread \notin Threads /\ NoAddress \notin Addresses

VARIABLES
  fdTable,  \* kernel: the endpoint each descriptor refers to
  ep,       \* kernel: state, local address, reuse options, queue length
  files,    \* kernel: local addresses that have a socket file
  sock,     \* the Socket objects
  pc,       \* where each thread is
  frame     \* the locals of the library call it is in

kernelVars == <<fdTable, ep, files>>
vars == <<fdTable, ep, files, sock, pc, frame>>
-----------------------------------------------------------------------------
(***************************************************************************)
(* A Socket's holder is the thread whose shared_ptrs keep it alive: the    *)
(* library hands every Socket to one thread, and a holder stands for all   *)
(* the copies that thread makes.  `given' is the endpoint the descriptor   *)
(* referred to when the constructor ran, `opened' tells open() from        *)
(* create(), `reuse' is open()'s argument, `peerKnown' that the Address    *)
(* holds the whole peer address.                                           *)
(***************************************************************************)
Kinds == {"server", "client", "plain"}

SocketRecord ==
  [holder : Threads \cup {NoThread}, kind : Kinds, fd : Fds \cup {NoFd},
   addr : Addresses \cup {NoAddress}, given : Endpoints \cup {NoEndpoint},
   opened : BOOLEAN, reuse : BOOLEAN, peerKnown : BOOLEAN]

DeadSocket ==
  [holder |-> NoThread, kind |-> "plain", fd |-> NoFd, addr |-> NoAddress,
   given |-> NoEndpoint, opened |-> FALSE, reuse |-> FALSE, peerKnown |-> TRUE]

\* "waiting" is what a connection's end becomes when it is closed in order.
EndpointStates ==
  {"unused", "created", "bound", "listening", "connected", "waiting", "closed"}

EndpointRecord ==
  [st : EndpointStates, addr : Addresses \cup {NoAddress}, reuse : BOOLEAN,
   pending : 0..Backlog]

(***************************************************************************)
(* `obj' is the Socket that open() is working on; `fd', `addr', `len' and  *)
(* `copied' are what lowLevelAccept() holds, or the closure of a thread    *)
(* that has not started.                                                   *)
(***************************************************************************)
FrameRecord ==
  [obj : Objects \cup {NoObject}, fd : Fds \cup {NoFd},
   addr : Addresses \cup {NoAddress}, len : 0..(LenModulus - 1),
   copied : 0..(LenModulus - 1)]

UnusedEndpoint ==
  [st |-> "unused", addr |-> NoAddress, reuse |-> FALSE, pending |-> 0]

ClosedEndpoint ==
  [st |-> "closed", addr |-> NoAddress, reuse |-> FALSE, pending |-> 0]

NoFrame ==
  [obj |-> NoObject, fd |-> NoFd, addr |-> NoAddress, len |-> 0, copied |-> 0]

Places ==
  {"unborn", "idle", "settingReuse", "settingReusePort", "binding", "listening",
   "connecting", "holding", "accepted", "acceptedInNewThread", "starting", "exited"}

Opening == {"settingReuse", "settingReusePort", "binding", "listening", "connecting"}

TypeOK ==
  /\ fdTable \in [Fds -> Endpoints \cup {NoEndpoint}]
  /\ ep \in [Endpoints -> EndpointRecord]
  /\ files \subseteq Addresses
  /\ sock \in [Objects -> SocketRecord]
  /\ pc \in [Threads -> Places]
  /\ frame \in [Threads -> FrameRecord]

Alive == {o \in Objects : sock[o].holder # NoThread}
Held(t) == {o \in Objects : sock[o].holder = t}
FreeFds == {f \in Fds : fdTable[f] = NoEndpoint}
UnusedEndpoints == {e \in Endpoints : ep[e].st = "unused"}

\* The endpoint a system call on o's descriptor reaches, if any.
Target(o) == IF sock[o].fd = NoFd THEN NoEndpoint ELSE fdTable[sock[o].fd]

Init ==
  /\ fdTable = [f \in Fds |-> NoEndpoint]
  /\ ep = [e \in Endpoints |-> UnusedEndpoint]
  /\ files = {}
  /\ sock = [o \in Objects |-> DeadSocket]
  /\ pc = [t \in Threads |-> IF t \in InitialThreads THEN "idle" ELSE "unborn"]
  /\ frame = [t \in Threads |-> NoFrame]

Goto(t, place) == pc' = [pc EXCEPT ![t] = place]
-----------------------------------------------------------------------------
(***************************************************************************)
(* Construction and destruction.                                           *)
(***************************************************************************)

NewSocket(t, k, f, e, a, opened, reuse, known) ==
  [holder |-> t, kind |-> k, fd |-> f, addr |-> a, given |-> e,
   opened |-> opened, reuse |-> reuse, peerKnown |-> known]

\* The Socket(Address) constructor: whatever socket() returns is kept.
Construct(t, o, k, a, opened, reuse) ==
  /\ o \in Objects \ Alive
  /\ \/ \E f \in FreeFds, e \in UnusedEndpoints :
          /\ fdTable' = [fdTable EXCEPT ![f] = e]
          /\ ep' = [ep EXCEPT ![e].st = "created"]
          /\ sock' = [sock EXCEPT ![o] = NewSocket(t, k, f, e, a, opened, reuse, TRUE)]
     \/ /\ sock' = [sock EXCEPT ![o] =
                      NewSocket(t, k, NoFd, NoEndpoint, a, opened, reuse, TRUE)]
        /\ UNCHANGED <<fdTable, ep>>
  /\ UNCHANGED files

\* The Socket(Address, int) constructor over a descriptor that is not -1.
ConstructOver(t, o, f, a, known) ==
  /\ o \in Objects \ Alive
  /\ sock' = [sock EXCEPT ![o] =
                NewSocket(t, "plain", f, fdTable[f], a, FALSE, FALSE, known)]

HasInternetAddress(e) == ep[e].addr \in Addresses /\ Domain[ep[e].addr] # "LOCAL"

(***************************************************************************)
(* ~Socket() of every object of S.  The queue of a listening endpoint goes *)
(* with it; this end of an internet connection may stay at its address for *)
(* a while, TIME_WAIT and what comes before it.                            *)
(***************************************************************************)
Destroy(S) ==
  LET fds  == {sock[o].fd : o \in S} \ {NoFd}
      gone == {fdTable[f] : f \in fds} \ {NoEndpoint}
      ends == {e \in gone : ep[e].st = "connected" /\ HasInternetAddress(e)}
  IN /\ fdTable' = [f \in Fds |-> IF f \in fds THEN NoEndpoint ELSE fdTable[f]]
     /\ \E lasting \in SUBSET ends :
          ep' = [e \in Endpoints |->
                   IF e \in lasting THEN [ep[e] EXCEPT !.st = "waiting"]
                   ELSE IF e \in gone THEN ClosedEndpoint ELSE ep[e]]
     /\ sock' = [o \in Objects |-> IF o \in S THEN DeadSocket ELSE sock[o]]
     /\ UNCHANGED files

\* ServerSocket::create() and ClientSocket::create().
Create(t, k, a) ==
  /\ pc[t] = "idle" /\ k \in {"server", "client"}
  /\ Cardinality(Held(t)) < MaxHeld
  /\ \E o \in Objects : Construct(t, o, k, a, FALSE, FALSE)
  /\ UNCHANGED <<pc, frame>>

\* The last shared_ptr to an object goes away.
Release(t, o) ==
  /\ pc[t] = "idle" /\ o \in Held(t)
  /\ Destroy({o})
  /\ UNCHANGED <<pc, frame>>

\* The caller has a descriptor of its own, from outside the library ...
ForeignDescriptor(t) ==
  /\ pc[t] = "idle" /\ Cardinality(Held(t)) < MaxHeld
  /\ \E f \in FreeFds, e \in UnusedEndpoints :
       /\ fdTable' = [fdTable EXCEPT ![f] = e]
       /\ ep' = [ep EXCEPT ![e].st = "connected"]
       /\ frame' = [frame EXCEPT ![t].fd = f]
  /\ Goto(t, "holding")
  /\ UNCHANGED <<files, sock>>

\* ... and gives it to Socket::create().
Adopt(t, a) ==
  /\ pc[t] = "holding"
  /\ \E o \in Objects : ConstructOver(t, o, frame[t].fd, a, TRUE)
  /\ Goto(t, "idle")
  /\ frame' = [frame EXCEPT ![t] = NoFrame]
  /\ UNCHANGED kernelVars
-----------------------------------------------------------------------------
(***************************************************************************)
(* bind(), listen() and connect().                                         *)
(***************************************************************************)

\* Where an endpoint is, for bind(): a listener, a connection, or its remains.
At(e, a) ==
  ep[e].st \in {"bound", "listening", "connected", "waiting"} /\ ep[e].addr = a

(***************************************************************************)
(* Whether the kernel finds address a taken: a socket file outlives its    *)
(* socket, and an internet address is shared when both sides allow it, the *)
(* connection that is waiting no less than the listener.                   *)
(***************************************************************************)
InUse(a, reuse) ==
  \/ a \in files
  \/ \E e \in Endpoints : At(e, a) /\ ~(reuse /\ ep[e].reuse)

CanBind(e, a) ==
  /\ e \in Endpoints /\ ep[e].st = "created"
  /\ BufferLen[Domain[a]] >= MinNameLen[Domain[a]]
  /\ ~InUse(a, ep[e].reuse)

BindEndpoint(e, a) ==
  /\ CanBind(e, a)
  /\ ep' = [ep EXCEPT ![e].st = "bound", ![e].addr = a]
  /\ files' = IF Domain[a] = "LOCAL" THEN files \cup {a} ELSE files
  /\ UNCHANGED fdTable

\* An internet endpoint without a name gets one of the kernel's choice.
ListenEndpoint(e, a) ==
  /\ e \in Endpoints
  /\ ep[e].st \in {"bound", "listening"} \/ (ep[e].st = "created" /\ Domain[a] # "LOCAL")
  /\ ep' = [ep EXCEPT ![e].st = "listening"]
  /\ UNCHANGED <<fdTable, files>>

ConnectEndpoint(e, a) ==
  /\ e \in Endpoints /\ ep[e].st = "created"
  /\ BufferLen[Domain[a]] >= MinNameLen[Domain[a]]
  /\ \E l \in Endpoints :
       /\ ep[l].st = "listening" /\ ep[l].addr = a /\ ep[l].pending < Backlog
       /\ ep' = [ep EXCEPT ![e].st = "connected", ![l].pending = @ + 1]
  /\ UNCHANGED <<fdTable, files>>

\* The calls made one by one, on a Socket from create().
Bind(t, o) ==
  /\ pc[t] = "idle" /\ o \in Held(t) /\ sock[o].kind = "server"
  /\ BindEndpoint(Target(o), sock[o].addr)
  /\ UNCHANGED <<sock, pc, frame>>

Listen(t, o) ==
  /\ pc[t] = "idle" /\ o \in Held(t) /\ sock[o].kind = "server"
  /\ ListenEndpoint(Target(o), sock[o].addr)
  /\ UNCHANGED <<sock, pc, frame>>

Connect(t, o) ==
  /\ pc[t] = "idle" /\ o \in Held(t) /\ sock[o].kind = "client"
  /\ ConnectEndpoint(Target(o), sock[o].addr)
  /\ UNCHANGED <<sock, pc, frame>>
-----------------------------------------------------------------------------
\* Mutant: a server always asks for reuse.
FirstCallAlwaysReuse(k, reuse) == IF k = "client" THEN "connecting" ELSE "settingReuse"

\* Mutant: a server never does.
FirstCallNeverReuse(k, reuse) == IF k = "client" THEN "connecting" ELSE "binding"

(***************************************************************************)
(* ServerSocket::open() and ClientSocket::open().  An exception out of a   *)
(* member call drops the only shared_ptr, which destroys the Socket.       *)
(***************************************************************************)
FirstCall(k, reuse) ==
  CASE k = "client" -> "connecting"
    [] k = "server" /\ reuse -> "settingReuse"
    [] OTHER -> "binding"

Open(t, k, a, reuse) ==
  /\ pc[t] = "idle" /\ k \in {"server", "client"} /\ (reuse => k = "server")
  /\ Cardinality(Held(t)) < MaxHeld
  /\ \E o \in Objects :
       /\ Construct(t, o, k, a, TRUE, reuse)
       /\ frame' = [frame EXCEPT ![t].obj = o]
  /\ Goto(t, FirstCall(k, reuse))

Returns(t) == Goto(t, "idle") /\ frame' = [frame EXCEPT ![t] = NoFrame]

\* Mutant: the Socket is held by a raw pointer, which an exception forgets.
UnwindForgets(t) ==
  /\ sock' = [sock EXCEPT ![frame[t].obj] = DeadSocket]
  /\ Returns(t)
  /\ UNCHANGED kernelVars

Unwind(t) == Destroy({frame[t].obj}) /\ Returns(t)

\* SO_REUSEADDR, and then SO_REUSEPORT; either may be refused.
OpenSetReuse(t) ==
  /\ pc[t] = "settingReuse"
  /\ \/ /\ Target(frame[t].obj) # NoEndpoint
        /\ Goto(t, "settingReusePort")
        /\ UNCHANGED <<fdTable, ep, files, sock, frame>>
     \/ Unwind(t)

\* `reuse' is both: with the first alone the endpoint has no address yet.
OpenSetReusePort(t) ==
  /\ pc[t] = "settingReusePort"
  /\ LET e == Target(frame[t].obj) IN
       \/ /\ e # NoEndpoint
          /\ ep' = [ep EXCEPT ![e].reuse = TRUE]
          /\ Goto(t, "binding")
          /\ UNCHANGED <<fdTable, files, sock, frame>>
       \/ Unwind(t)

\* bind() may be refused for other reasons than those of CanBind ...
OpenBind(t) ==
  /\ pc[t] = "binding"
  /\ LET o == frame[t].obj IN
       \/ /\ BindEndpoint(Target(o), sock[o].addr)
          /\ Goto(t, "listening")
          /\ UNCHANGED <<sock, frame>>
       \/ Unwind(t)

\* Mutant: listen()'s result is not looked at.
OpenListenUnchecked(t) ==
  /\ pc[t] = "listening"
  /\ LET o == frame[t].obj IN
       \/ ListenEndpoint(Target(o), sock[o].addr)
       \/ UNCHANGED kernelVars
  /\ Returns(t)
  /\ UNCHANGED sock

\* ... and so may listen() and connect().
OpenListen(t) ==
  /\ pc[t] = "listening"
  /\ LET o == frame[t].obj IN
       \/ ListenEndpoint(Target(o), sock[o].addr) /\ Returns(t) /\ UNCHANGED sock
       \/ Unwind(t)

OpenConnect(t) ==
  /\ pc[t] = "connecting"
  /\ LET o == frame[t].obj IN
       \/ ConnectEndpoint(Target(o), sock[o].addr) /\ Returns(t) /\ UNCHANGED sock
       \/ Unwind(t)
-----------------------------------------------------------------------------
(***************************************************************************)
(* accept() and acceptInNewThread().  `len' is passed to the kernel        *)
(* without a value, so it starts with any of GarbageLens.                  *)
(***************************************************************************)
AfterAccept == {"accepted", "acceptedInNewThread"}

CanAccept(t, o, then) ==
  /\ pc[t] = "idle" /\ o \in Held(t) /\ sock[o].kind = "server"
  /\ then \in AfterAccept

\* Mutant: a connection is taken from an empty queue.
HasConnectionAlways(e) == e \in Endpoints /\ ep[e].st = "listening"

HasConnection(e) == e \in Endpoints /\ ep[e].st = "listening" /\ ep[e].pending > 0

\* Refused, interrupted, or out of descriptors: `len' stays as it was.
AcceptFails(t, o, then) ==
  /\ CanAccept(t, o, then)
  /\ \E len \in GarbageLens :
       frame' = [frame EXCEPT ![t].addr = sock[o].addr, ![t].len = len]
  /\ Goto(t, then)
  /\ UNCHANGED <<fdTable, ep, files, sock>>

\* A negative length is found out when the connection is off the queue.
AcceptDrops(t, o, then) ==
  /\ CanAccept(t, o, then) /\ HasConnection(Target(o))
  /\ ep' = [ep EXCEPT ![Target(o)].pending = @ - 1]
  /\ \E len \in {n \in GarbageLens : Negative(n)} :
       frame' = [frame EXCEPT ![t].addr = sock[o].addr, ![t].len = len]
  /\ Goto(t, then)
  /\ UNCHANGED <<fdTable, files, sock>>

\* The connection's end is at the listener's address, with its options.
AcceptTakes(t, o, then) ==
  /\ CanAccept(t, o, then) /\ HasConnection(Target(o))
  /\ \E f \in FreeFds, e \in UnusedEndpoints,
        len \in {n \in GarbageLens : ~Negative(n)},
        peerLen \in PeerLens[Domain[sock[o].addr]] :
       /\ fdTable' = [fdTable EXCEPT ![f] = e]
       /\ ep' = [ep EXCEPT ![Target(o)].pending = @ - 1, ![e].st = "connected",
                           ![e].addr = ep[Target(o)].addr, ![e].reuse = ep[Target(o)].reuse]
       /\ frame' = [frame EXCEPT ![t].addr = sock[o].addr, ![t].fd = f,
                                 ![t].len = peerLen, ![t].copied = Copied(len, peerLen)]
  /\ Goto(t, then)
  /\ UNCHANGED <<files, sock>>

Verdict(t) ==
  AcceptError(Domain[frame[t].addr], frame[t].fd # NoFd, frame[t].len, frame[t].copied)

PeerKnown(t) == frame[t].copied = frame[t].len

\* The rest of lowLevelAccept() throws; nothing closes the descriptor it has.
AcceptThrows(t) ==
  /\ pc[t] \in AfterAccept /\ Verdict(t) # "none"
  /\ Returns(t)
  /\ UNCHANGED <<fdTable, ep, files, sock>>

AcceptReturns(t) ==
  /\ pc[t] = "accepted" /\ Verdict(t) = "none"
  /\ \E o \in Objects : ConstructOver(t, o, frame[t].fd, frame[t].addr, PeerKnown(t))
  /\ Returns(t)
  /\ UNCHANGED kernelVars

\* Mutant: the accepting thread keeps the descriptor as well.
SpawnKeeps(t, n) ==
  /\ pc[t] = "acceptedInNewThread" /\ Verdict(t) = "none"
  /\ pc[n] = "unborn"
  /\ pc' = [pc EXCEPT ![t] = "idle", ![n] = "starting"]
  /\ frame' = [frame EXCEPT ![n] = frame[t]]
  /\ UNCHANGED <<fdTable, ep, files, sock>>

\* Mutant: it closes its "copy", as after a fork().
SpawnCloses(t, n) ==
  /\ pc[t] = "acceptedInNewThread" /\ Verdict(t) = "none"
  /\ pc[n] = "unborn"
  /\ pc' = [pc EXCEPT ![t] = "idle", ![n] = "starting"]
  /\ fdTable' = [fdTable EXCEPT ![frame[t].fd] = NoEndpoint]
  /\ frame' = [frame EXCEPT ![t] = NoFrame, ![n] = frame[t]]
  /\ UNCHANGED <<ep, files, sock>>

\* The new thread's closure holds the descriptor as a plain int.
Spawn(t, n) ==
  /\ pc[t] = "acceptedInNewThread" /\ Verdict(t) = "none"
  /\ pc[n] = "unborn"
  /\ pc' = [pc EXCEPT ![t] = "idle", ![n] = "starting"]
  /\ frame' = [frame EXCEPT ![t] = NoFrame, ![n] = frame[t]]
  /\ UNCHANGED <<fdTable, ep, files, sock>>

SpawnThrows(t) ==
  /\ SpawnMayFail
  /\ pc[t] = "acceptedInNewThread" /\ Verdict(t) = "none"
  /\ Returns(t)
  /\ UNCHANGED <<fdTable, ep, files, sock>>

\* In the new thread: make the Socket and call toCall() with it ...
ThreadStarts(t) ==
  /\ pc[t] = "starting"
  /\ \E o \in Objects : ConstructOver(t, o, frame[t].fd, frame[t].addr, PeerKnown(t))
  /\ Returns(t)
  /\ UNCHANGED kernelVars

\* ... and, when toCall() is back, let go of everything.
ThreadReturns(t) ==
  /\ t \notin InitialThreads /\ pc[t] = "idle"
  /\ Destroy(Held(t))
  /\ Goto(t, "exited")
  /\ UNCHANGED frame
-----------------------------------------------------------------------------
\* A client of another process connects ...
RemoteConnect(l) ==
  /\ ep[l].st = "listening" /\ ep[l].pending < Backlog
  /\ ep' = [ep EXCEPT ![l].pending = @ + 1]
  /\ UNCHANGED <<fdTable, files, sock, pc, frame>>

\* ... breaks its connection off, which frees this end's address ...
RemoteReset(e) ==
  /\ ep[e].st = "connected" /\ HasInternetAddress(e)
  /\ ep' = [ep EXCEPT ![e].addr = NoAddress]
  /\ UNCHANGED <<fdTable, files, sock, pc, frame>>

\* ... or the time of a closed one is over.
Expire(e) ==
  /\ ep[e].st = "waiting"
  /\ ep' = [ep EXCEPT ![e] = ClosedEndpoint]
  /\ UNCHANGED <<fdTable, files, sock, pc, frame>>

Step(t) ==
  \/ \E k \in Kinds, a \in Addresses : Create(t, k, a)
  \/ \E o \in Objects : Release(t, o)
  \/ ForeignDescriptor(t)
  \/ \E a \in Addresses : Adopt(t, a)
  \/ \E o \in Objects : Bind(t, o)
  \/ \E o \in Objects : Listen(t, o)
  \/ \E o \in Objects : Connect(t, o)
  \/ \E k \in Kinds, a \in Addresses, reuse \in BOOLEAN : Open(t, k, a, reuse)
  \/ OpenSetReuse(t)
  \/ OpenSetReusePort(t)
  \/ OpenBind(t)
  \/ OpenListen(t)
  \/ OpenConnect(t)
  \/ \E o \in Objects, then \in AfterAccept : AcceptFails(t, o, then)
  \/ \E o \in Objects, then \in AfterAccept : AcceptDrops(t, o, then)
  \/ \E o \in Objects, then \in AfterAccept : AcceptTakes(t, o, then)
  \/ AcceptThrows(t)
  \/ AcceptReturns(t)
  \/ \E n \in Threads : Spawn(t, n)
  \/ SpawnThrows(t)
  \/ ThreadStarts(t)
  \/ ThreadReturns(t)

Next ==
  \/ \E t \in Threads : Step(t)
  \/ \E l \in Endpoints : RemoteConnect(l)
  \/ \E e \in Endpoints : RemoteReset(e)
  \/ \E e \in Endpoints : Expire(e)

Spec == Init /\ [][Next]_vars
-----------------------------------------------------------------------------
(***************************************************************************)
(* A descriptor has at most one owner: a Socket, a call that has it in a   *)
(* local, or a thread about to make a Socket of it.  With two, the first   *)
(* to close it would pull it from under the other (Socket.cpp:29-36).      *)
(***************************************************************************)
OneOwner ==
  /\ \A o, p \in Alive : o # p /\ sock[o].fd # NoFd => sock[o].fd # sock[p].fd
  /\ \A t, u \in Threads : t # u /\ frame[t].fd # NoFd => frame[t].fd # frame[u].fd
  /\ \A o \in Alive, t \in Threads : sock[o].fd # NoFd => sock[o].fd # frame[t].fd

(***************************************************************************)
(* An owned descriptor is open, and a Socket's still refers to what it     *)
(* referred to at construction: no number is closed and reused under it.   *)
(***************************************************************************)
HandlesValid ==
  /\ \A o \in Alive : sock[o].fd # NoFd =>
       fdTable[sock[o].fd] = sock[o].given /\ sock[o].given \in Endpoints
  /\ \A t \in Threads : frame[t].fd # NoFd => fdTable[frame[t].fd] \in Endpoints

ExclusiveOwnership == OneOwner /\ HandlesValid

OwnedFds == {sock[o].fd : o \in Alive} \cup {frame[t].fd : t \in Threads}

(***************************************************************************)
(* Every open descriptor has an owner that will close it, whatever call    *)
(* threw in between: closing is the destructor's job (dox/Socket.dox), and *)
(* no Socket outlives the thread it was accepted into                      *)
(* (ServerSocket.cpp:134-137).                                             *)
(***************************************************************************)
NoDescriptorLeak ==
  /\ \A f \in Fds : fdTable[f] # NoEndpoint => f \in OwnedFds
  /\ \A o \in Alive : pc[sock[o].holder] # "exited"

UsedFds == {f \in Fds : fdTable[f] # NoEndpoint}
SocketFds == [o \in Objects |-> sock[o].fd]
CallFds == [t \in Threads |-> frame[t].fd]

\* What throws when accept() has returned a descriptor.
MayThrowLate ==
  SpawnMayFail \/ \E d \in Domains : \E n \in PeerLens[d] : n > BufferLen[d]

(***************************************************************************)
(* Descriptors are in the hands that DescriptorCustody says, and pass from *)
(* one to the next as it says: from lowLevelAccept()'s local, by value     *)
(* into a closure (ServerSocket.cpp:134-137) or not, to a Socket, whose    *)
(* destructor alone closes them.                                           *)
(***************************************************************************)
Custody == INSTANCE DescriptorCustody WITH
  Sockets <- Objects, Calls <- Threads, MayDrop <- MayThrowLate,
  open <- UsedFds, owned <- SocketFds, held <- CallFds

CustodyKept == Custody!Spec

OpenInProgress(o) == \E t \in Threads : frame[t].obj = o

(***************************************************************************)
(* A Socket that open() gave its caller is a valid one: listening at its   *)
(* address, or connected (ServerSocket.cpp:91-101, ClientSocket.cpp).      *)
(***************************************************************************)
OpenDelivers ==
  \A o \in Alive : sock[o].opened /\ ~OpenInProgress(o) =>
    /\ Target(o) \in Endpoints
    /\ sock[o].kind = "client" => ep[Target(o)].st = "connected"
    /\ sock[o].kind = "server" =>
         ep[Target(o)].st = "listening" /\ ep[Target(o)].addr = sock[o].addr

OpenedServers ==
  {o \in Alive : sock[o].opened /\ sock[o].kind = "server" /\ ~OpenInProgress(o)}

(***************************************************************************)
(* Two opened ServerSockets share an address only if both asked for reuse  *)
(* (ServerSocket.cpp:93-98).                                               *)
(***************************************************************************)
SharedByConsent ==
  \A o, p \in OpenedServers : o # p /\ sock[o].addr = sock[p].addr =>
    sock[o].reuse /\ sock[p].reuse

(***************************************************************************)
(* When open() with reuse gets to bind(), an IPv4 address is refused it    *)
(* for being taken only on account of an endpoint without the option, and  *)
(* no ServerSocket that was opened with reuse has such a one: servers that *)
(* all ask for reuse restart, and run side by side (ServerSocket.cpp:93).  *)
(***************************************************************************)
ReuseNotRefused ==
  \A t \in Threads :
    LET o == frame[t].obj
        a == sock[o].addr
    IN pc[t] = "binding" /\ sock[o].reuse /\ Domain[a] = "INET4"
         /\ Target(o) # NoEndpoint /\ ~CanBind(Target(o), a)
       => \E e \in Endpoints :
            /\ At(e, a) /\ ~ep[e].reuse
            /\ \A p \in OpenedServers : sock[p].reuse => Target(p) # e

(***************************************************************************)
(* A connection leaves a live listener's queue only into accept()'s local. *)
(***************************************************************************)
NoConnectionLost ==
  [][\A l \in Endpoints :
       ep[l].st = "listening" /\ ep'[l].st = "listening" /\ ep'[l].pending < ep[l].pending
       => \E t \in Threads : frame[t].fd = NoFd /\ frame'[t].fd # NoFd]_vars

(***************************************************************************)
(* An accepted connection whose name fits the structure is not turned away *)
(* for its family, even when no family came back (ServerSocket.cpp:72-77). *)
(***************************************************************************)
UnnamedPeerTaken ==
  \A t \in Threads :
    pc[t] \in AfterAccept /\ frame[t].fd # NoFd
      /\ frame[t].len <= BufferLen[Domain[frame[t].addr]]
    => Verdict(t) = "none"

(***************************************************************************)
(* When open() gets to bind(), the address is acceptable to it unless      *)
(* something is there already, in every domain: InetAddress is "supporting *)
(* IPv4 and IPv6" (InetAddress.h:31).                                      *)
(***************************************************************************)
FreeAddressBindable ==
  \A t \in Threads :
    LET o == frame[t].obj IN
    pc[t] = "binding" /\ Target(o) # NoEndpoint /\ ~CanBind(Target(o), sock[o].addr)
    => InUse(sock[o].addr, ep[Target(o)].reuse)

(***************************************************************************)
(* The Address of an accepted Socket is the peer's: "Address connected to" *)
(* (ServerSocket.cpp:46), whole, and not what is left of it after a cut.   *)
(***************************************************************************)
AcceptedAddressIsPeer == \A o \in Alive : sock[o].peerKnown
=============================================================================
