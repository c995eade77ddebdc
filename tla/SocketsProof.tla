----------------------------- MODULE SocketsProof -----------------------------
(***************************************************************************)
(* Proofs about Sockets: types, and exclusive ownership of descriptors.    *)
(***************************************************************************)
EXTENDS Sockets, TLAPS

(***************************************************************************)
(* What each place in the code says of the frame.                          *)
(***************************************************************************)
ShapeOf(t) ==
  /\ pc[t] \in {"unborn", "idle", "exited"} => frame[t] = NoFrame
  /\ pc[t] \in Opening =>
       /\ frame[t].obj \in Objects /\ sock[frame[t].obj].holder = t
       /\ frame[t].fd = NoFd
  /\ pc[t] \notin Opening => frame[t].obj = NoObject
  /\ pc[t] \in AfterAccept \cup {"starting"} => frame[t].addr \in Addresses
  /\ pc[t] \in {"holding", "starting"} => frame[t].fd \in Fds

FrameShape == \A t \in Threads : ShapeOf(t)

AliveShape == \A o \in Alive : sock[o].addr \in Addresses

IInv ==
  /\ TypeOK
  /\ FrameShape
  /\ AliveShape
  /\ OneOwner
  /\ HandlesValid

USE DEF SocketRecord, DeadSocket, EndpointStates, EndpointRecord, FrameRecord,
        NoFrame, Places, Opening, Kinds, AfterAccept, ShapeOf

\* Initially nothing is open, alive or held.
LEMMA InitHolds == Init => IInv
<1> SUFFICES ASSUME Init PROVE IInv
  OBVIOUS
<1>1. TypeOK
  BY ConstantsAssumption, LensAssumption DEF Init, TypeOK, UnusedEndpoint
<1>2. FrameShape
  BY ConstantsAssumption DEF Init, FrameShape
<1>3. Alive = {}
  BY DEF Init, Alive
<1>4. OneOwner /\ HandlesValid /\ AliveShape
  BY <1>3, ConstantsAssumption DEF Init, OneOwner, HandlesValid, AliveShape
<1> QED BY <1>1, <1>2, <1>4 DEF IInv

(***************************************************************************)
(* The calls that only change an endpoint.                                 *)
(***************************************************************************)
LEMMA EndpointStateTyped ==
  ASSUME TypeOK, NEW e \in Endpoints, NEW st \in EndpointStates,
         ep' = [ep EXCEPT ![e].st = st]
  PROVE  ep' \in [Endpoints -> EndpointRecord]
<1>1. ep[e] \in EndpointRecord
  BY DEF TypeOK
<1>2. [ep[e] EXCEPT !.st = st] \in EndpointRecord
  BY <1>1
<1> QED BY <1>1, <1>2 DEF TypeOK

\* bind(), listen() and connect() keep the kernel's records typed.
LEMMA EndpointCallsTyped ==
  ASSUME TypeOK, NEW e, NEW a \in Addresses,
         BindEndpoint(e, a) \/ ListenEndpoint(e, a) \/ ConnectEndpoint(e, a)
  PROVE  /\ ep' \in [Endpoints -> EndpointRecord]
         /\ files' \subseteq Addresses
         /\ UNCHANGED fdTable
<1>1. CASE BindEndpoint(e, a)
  <2>1. e \in Endpoints /\ ep[e] \in EndpointRecord
    BY <1>1 DEF TypeOK, BindEndpoint, CanBind
  <2>2. [ep[e] EXCEPT !.st = "bound", !.addr = a] \in EndpointRecord
    BY <2>1
  <2> QED BY <1>1, <2>1, <2>2 DEF TypeOK, BindEndpoint
<1>2. CASE ListenEndpoint(e, a)
  <2>1. e \in Endpoints /\ ep' = [ep EXCEPT ![e].st = "listening"]
    BY <1>2 DEF ListenEndpoint
  <2> QED BY <1>2, <2>1, EndpointStateTyped DEF TypeOK, ListenEndpoint
<1>3. CASE ConnectEndpoint(e, a)
  <2>1. PICK l \in Endpoints :
          /\ ep[l].pending < Backlog
          /\ ep' = [ep EXCEPT ![e].st = "connected", ![l].pending = @ + 1]
    BY <1>3 DEF ConnectEndpoint
  <2>2. e \in Endpoints /\ ep \in [Endpoints -> EndpointRecord]
    BY <1>3 DEF ConnectEndpoint, TypeOK
  <2> DEFINE one == [ep EXCEPT ![e].st = "connected"]
  <2>3. [ep[e] EXCEPT !.st = "connected"] \in EndpointRecord
    BY <2>2
  <2>4. one \in [Endpoints -> EndpointRecord] /\ one[l].pending = ep[l].pending
    BY <2>2, <2>3
  <2>5. ep' = [one EXCEPT ![l].pending = @ + 1]
    BY <2>1
  <2> HIDE DEF one
  <2>6. [one[l] EXCEPT !.pending = @ + 1] \in EndpointRecord
    <3>1. one[l] \in EndpointRecord /\ one[l].pending + 1 \in 0..Backlog
      BY <2>1, <2>4, ConstantsAssumption
    <3>2. \A r \in EndpointRecord, n \in 0..Backlog : [r EXCEPT !.pending = n] \in EndpointRecord
      OBVIOUS
    <3> QED BY <3>1, <3>2
  <2>7. ep' \in [Endpoints -> EndpointRecord]
    BY <2>4, <2>5, <2>6
  <2> QED BY <1>3, <2>7 DEF ConnectEndpoint, TypeOK
<1> QED BY <1>1, <1>2, <1>3

\* A step that touches no descriptor, Socket, pc or local keeps IInv.
LEMMA NothingOwnedChanges ==
  ASSUME IInv, UNCHANGED <<fdTable, sock, pc, frame>>,
         ep' \in [Endpoints -> EndpointRecord], files' \subseteq Addresses
  PROVE  IInv'
  BY DEF IInv, TypeOK, FrameShape, AliveShape, OneOwner, HandlesValid, Alive

(***************************************************************************)
(* A library call moves on, or returns, with the same Sockets.             *)
(***************************************************************************)
LEMMA GotoOpening ==
  ASSUME IInv, NEW t \in Threads, pc[t] \in Opening,
         NEW place \in Opening, Goto(t, place),
         UNCHANGED <<fdTable, sock, frame>>,
         ep' \in [Endpoints -> EndpointRecord], files' \subseteq Addresses
  PROVE  IInv'
<1>1. TypeOK'
  BY DEF IInv, TypeOK, Goto
<1>2. FrameShape'
  BY DEF IInv, TypeOK, FrameShape, Goto
<1>3. AliveShape' /\ OneOwner' /\ HandlesValid'
  BY DEF IInv, AliveShape, OneOwner, HandlesValid, Alive
<1> QED BY <1>1, <1>2, <1>3 DEF IInv

\* A call whose local has handed its descriptor over, or had none, may return.
LEMMA ReturnsHolds ==
  ASSUME IInv, NEW t \in Threads, Returns(t), UNCHANGED <<fdTable, sock>>,
         ep' \in [Endpoints -> EndpointRecord], files' \subseteq Addresses
  PROVE  IInv'
<1>1. TypeOK'
  BY ConstantsAssumption, LensAssumption DEF IInv, TypeOK, Returns, Goto
<1>2. FrameShape'
  BY DEF IInv, TypeOK, FrameShape, Returns, Goto
<1>3. AliveShape'
  BY DEF IInv, AliveShape, Alive
<1>4. OneOwner' /\ HandlesValid'
  BY DEF IInv, TypeOK, OneOwner, HandlesValid, Alive, Returns
<1> QED BY <1>1, <1>2, <1>3, <1>4 DEF IInv

(***************************************************************************)
(* Destruction: the descriptors of S go, and nobody else had them.         *)
(***************************************************************************)
LEMMA DestroyHolds ==
  ASSUME IInv, NEW S \in SUBSET Alive, Destroy(S),
         pc' \in [Threads -> Places], frame' \in [Threads -> FrameRecord],
         \A t \in Threads : frame'[t].fd \in {frame[t].fd, NoFd},
         FrameShape'
  PROVE  IInv'
<1> DEFINE fds  == {sock[o].fd : o \in S} \ {NoFd}
           gone == {fdTable[f] : f \in fds} \ {NoEndpoint}
<1>1. /\ fdTable' = [f \in Fds |-> IF f \in fds THEN NoEndpoint ELSE fdTable[f]]
      /\ sock' = [o \in Objects |-> IF o \in S THEN DeadSocket ELSE sock[o]]
  BY DEF Destroy
<1>2. TypeOK'
  <2>1. fds \subseteq Fds /\ gone \subseteq Endpoints
    BY DEF IInv, TypeOK, Alive
  <2>2. files' \subseteq Addresses
    BY DEF IInv, TypeOK, Destroy
  <2>3. ClosedEndpoint \in EndpointRecord
    BY ConstantsAssumption DEF ClosedEndpoint
  <2>4. ep' \in [Endpoints -> EndpointRecord]
    <3>1. PICK lasting :
            ep' = [e \in Endpoints |->
                     IF e \in lasting THEN [ep[e] EXCEPT !.st = "waiting"]
                     ELSE IF e \in gone THEN ClosedEndpoint ELSE ep[e]]
      BY DEF Destroy
    <3>2. \A r \in EndpointRecord : [r EXCEPT !.st = "waiting"] \in EndpointRecord
      OBVIOUS
    <3> HIDE DEF gone, EndpointRecord
    <3> QED BY <2>3, <3>1, <3>2 DEF IInv, TypeOK
  <2> HIDE DEF fds
  <2>5. fdTable' \in [Fds -> Endpoints \cup {NoEndpoint}]
    BY <1>1 DEF IInv, TypeOK
  <2>6. sock' \in [Objects -> SocketRecord]
    BY <1>1 DEF IInv, TypeOK
  <2> QED BY <2>2, <2>4, <2>5, <2>6 DEF TypeOK
<1>3. Alive' = Alive \ S /\ \A o \in Alive \ S : sock'[o] = sock[o]
  BY <1>1, ConstantsAssumption DEF IInv, TypeOK, Alive
<1>4. AliveShape' /\ OneOwner'
  <2> HIDE DEF fds, SocketRecord, DeadSocket, FrameRecord, NoFrame, ShapeOf
  <2>1. AliveShape'
    BY <1>3 DEF IInv, AliveShape
  <2>2. \A t, u \in Threads : t # u /\ frame'[t].fd # NoFd => frame'[t].fd # frame'[u].fd
    BY DEF IInv, OneOwner
  <2>3. \A o, p \in Alive' : o # p /\ sock'[o].fd # NoFd => sock'[o].fd # sock'[p].fd
    BY <1>3 DEF IInv, OneOwner
  <2>4. \A o \in Alive', t \in Threads : sock'[o].fd # NoFd => sock'[o].fd # frame'[t].fd
    BY <1>3 DEF IInv, OneOwner
  <2> QED BY <2>1, <2>2, <2>3, <2>4 DEF OneOwner
<1>5. \A o \in Alive \ S : sock[o].fd \notin fds
  BY DEF IInv, OneOwner
<1>6. \A t \in Threads : frame[t].fd \notin fds
  BY DEF IInv, OneOwner
<1>7. HandlesValid'
  <2> HIDE DEF fds
  <2>1. \A o \in Alive : sock[o].fd # NoFd => sock[o].fd \in Fds
    BY DEF IInv, TypeOK, Alive
  <2>2. \A t \in Threads : frame[t].fd # NoFd => frame[t].fd \in Fds
    BY DEF IInv, TypeOK
  <2> QED BY <1>1, <1>3, <1>5, <1>6, <2>1, <2>2 DEF IInv, HandlesValid
<1> QED BY <1>2, <1>4, <1>7 DEF IInv

\* So may open() when an exception destroys the Socket it was working on.
LEMMA UnwindHolds ==
  ASSUME IInv, NEW t \in Threads, pc[t] \in Opening, Unwind(t)
  PROVE  IInv'
<1>1. frame[t].obj \in Alive
  BY ConstantsAssumption DEF IInv, FrameShape, Alive
<1>2. /\ pc' \in [Threads -> Places] /\ frame' \in [Threads -> FrameRecord]
      /\ \A u \in Threads : frame'[u].fd \in {frame[u].fd, NoFd}
  BY ConstantsAssumption, LensAssumption DEF IInv, TypeOK, Unwind, Returns, Goto
<1>3. FrameShape'
  <2>1. pc' = [pc EXCEPT ![t] = "idle"] /\ frame' = [frame EXCEPT ![t] = NoFrame]
    BY DEF Unwind, Returns, Goto
  <2>2. sock' = [o \in Objects |-> IF o \in {frame[t].obj} THEN DeadSocket ELSE sock[o]]
    BY DEF Unwind, Destroy
  <2>3. \A u \in Threads \ {t} : pc[u] \in Opening =>
          frame[u].obj \in Objects /\ sock'[frame[u].obj] = sock[frame[u].obj]
    BY <2>2 DEF IInv, FrameShape
  <2> QED BY <2>1, <2>3 DEF IInv, TypeOK, FrameShape
<1>4. {frame[t].obj} \in SUBSET Alive /\ Destroy({frame[t].obj})
  BY <1>1 DEF Unwind
<1> QED BY <1>2, <1>3, <1>4, DestroyHolds
(***************************************************************************)
(* Construction: a new Socket, record r at o, over a descriptor that no    *)
(* Socket has and no frame keeps.                                          *)
(***************************************************************************)
LEMMA NewSocketHolds ==
  ASSUME IInv, NEW o \in Objects \ Alive, NEW r \in SocketRecord,
         r.holder \in Threads, r.addr \in Addresses,
         sock' = [sock EXCEPT ![o] = r],
         r.fd # NoFd => fdTable'[r.fd] = r.given /\ r.given \in Endpoints,
         \A p \in Alive : r.fd # NoFd => sock[p].fd # r.fd,
         \A u \in Threads : /\ frame'[u].fd \in {frame[u].fd, NoFd}
                            /\ r.fd # NoFd => frame'[u].fd # r.fd,
         \A f \in Fds : fdTable[f] \in Endpoints => fdTable'[f] = fdTable[f],
         fdTable' \in [Fds -> Endpoints \cup {NoEndpoint}],
         ep' \in [Endpoints -> EndpointRecord], files' \subseteq Addresses,
         pc' \in [Threads -> Places], frame' \in [Threads -> FrameRecord],
         FrameShape'
  PROVE  IInv'
<1>1. TypeOK'
  <2> HIDE DEF SocketRecord, EndpointRecord, FrameRecord, Places
  <2> QED BY DEF IInv, TypeOK
<1>2. /\ Alive' = Alive \cup {o}
      /\ sock'[o] = r /\ \A p \in Alive : sock'[p] = sock[p]
  <2> HIDE DEF SocketRecord
  <2>1. sock \in [Objects -> SocketRecord] /\ o \in Objects /\ o \notin Alive
    BY DEF IInv, TypeOK
  <2>2. sock'[o] = r /\ \A p \in Objects \ {o} : sock'[p] = sock[p]
    BY <2>1
  <2> QED BY <2>1, <2>2, ConstantsAssumption DEF Alive
<1>3. AliveShape'
  BY <1>2 DEF IInv, AliveShape
<1>4. OneOwner'
  <2>1. \A p, q \in Alive \cup {o} :
          p # q /\ sock'[p].fd # NoFd => sock'[p].fd # sock'[q].fd
    BY <1>2 DEF IInv, OneOwner
  <2>2. \A u, v \in Threads : u # v /\ frame'[u].fd # NoFd => frame'[u].fd # frame'[v].fd
    BY DEF IInv, OneOwner
  <2>3. \A p \in Alive \cup {o}, u \in Threads :
          sock'[p].fd # NoFd => sock'[p].fd # frame'[u].fd
    BY <1>2 DEF IInv, OneOwner
  <2> QED BY <1>2, <2>1, <2>2, <2>3 DEF OneOwner
<1>5. \A p \in Alive : sock[p].fd # NoFd => sock[p].fd \in Fds
  BY DEF IInv, TypeOK, Alive
<1>6. \A u \in Threads : frame[u].fd # NoFd => frame[u].fd \in Fds
  BY DEF IInv, TypeOK
<1>7. HandlesValid'
  <2>1. \A p \in Alive \cup {o} : sock'[p].fd # NoFd =>
          fdTable'[sock'[p].fd] = sock'[p].given /\ sock'[p].given \in Endpoints
    BY <1>2, <1>5 DEF IInv, HandlesValid
  <2>2. \A u \in Threads : frame'[u].fd # NoFd => fdTable'[frame'[u].fd] \in Endpoints
    BY <1>6 DEF IInv, HandlesValid
  <2> QED BY <1>2, <2>1, <2>2 DEF HandlesValid
<1> QED BY <1>1, <1>3, <1>4, <1>7 DEF IInv

\* Another thread's open() still holds its Socket after a new one is made.
LEMMA OpeningKept ==
  ASSUME IInv, NEW o \in Objects \ Alive, NEW r, sock' = [sock EXCEPT ![o] = r]
  PROVE  \A u \in Threads : pc[u] \in Opening =>
           frame[u].obj \in Objects /\ sock'[frame[u].obj] = sock[frame[u].obj]
<1>1. \A u \in Threads : pc[u] \in Opening => frame[u].obj \in Alive
  BY ConstantsAssumption DEF IInv, FrameShape, Alive
<1>2. \A p \in Alive : p \in Objects /\ sock'[p] = sock[p]
  <2> HIDE DEF SocketRecord
  <2> QED BY DEF IInv, TypeOK, Alive
<1> QED BY <1>1, <1>2

(***************************************************************************)
(* What the Socket(Address) constructor does, whichever way socket() went. *)
(***************************************************************************)
Constructed(o, r) ==
  /\ o \notin Alive
  /\ sock' = [sock EXCEPT ![o] = r]
  /\ r.fd # NoFd => fdTable'[r.fd] = r.given /\ r.given \in Endpoints
  /\ \A p \in Alive : r.fd # NoFd => sock[p].fd # r.fd
  /\ \A u \in Threads : r.fd # NoFd => frame[u].fd # r.fd
  /\ \A g \in Fds : fdTable[g] \in Endpoints => fdTable'[g] = fdTable[g]
  /\ fdTable' \in [Fds -> Endpoints \cup {NoEndpoint}]
  /\ ep' \in [Endpoints -> EndpointRecord]
  /\ files' = files

\* What the Socket(Address) constructor leaves behind, in either outcome.
LEMMA ConstructEffect ==
  ASSUME IInv, NEW t \in Threads, NEW o \in Objects, NEW k \in Kinds,
         NEW a \in Addresses, NEW opened \in BOOLEAN, NEW reuse \in BOOLEAN,
         Construct(t, o, k, a, opened, reuse)
  PROVE  \E r \in SocketRecord : r.holder = t /\ r.addr = a /\ Constructed(o, r)
<1> DEFINE new(f, e) == NewSocket(t, k, f, e, a, opened, reuse, TRUE)
<1>1. ASSUME NEW f \in Fds \cup {NoFd}, NEW e \in Endpoints \cup {NoEndpoint}
      PROVE  /\ new(f, e) \in SocketRecord
             /\ new(f, e).holder = t /\ new(f, e).addr = a
             /\ new(f, e).fd = f /\ new(f, e).given = e
  BY DEF NewSocket
<1>2. o \notin Alive /\ files' = files
  BY DEF Construct
<1>3. /\ fdTable \in [Fds -> Endpoints \cup {NoEndpoint}]
      /\ ep \in [Endpoints -> EndpointRecord]
  BY DEF IInv, TypeOK
<1>4. ASSUME NEW f \in FreeFds, NEW e \in UnusedEndpoints,
             fdTable' = [fdTable EXCEPT ![f] = e],
             ep' = [ep EXCEPT ![e].st = "created"],
             sock' = [sock EXCEPT ![o] = new(f, e)]
      PROVE  Constructed(o, new(f, e)) /\ f \in Fds /\ e \in Endpoints
  <2>1. f \in Fds /\ e \in Endpoints /\ fdTable[f] = NoEndpoint
    BY DEF FreeFds, UnusedEndpoints
  <2>2. (\A p \in Alive : sock[p].fd # f) /\ (\A u \in Threads : frame[u].fd # f)
    BY <2>1, ConstantsAssumption DEF IInv, HandlesValid
  <2>3. ep' \in [Endpoints -> EndpointRecord]
    BY <1>4, <2>1, EndpointStateTyped DEF IInv
  <2>4. /\ fdTable' \in [Fds -> Endpoints \cup {NoEndpoint}] /\ fdTable'[f] = e
        /\ \A g \in Fds : fdTable[g] \in Endpoints => fdTable'[g] = fdTable[g]
    BY <1>3, <1>4, <2>1, ConstantsAssumption
  <2>5. new(f, e).fd = f /\ new(f, e).given = e
    BY DEF NewSocket
  <2> HIDE DEF new, EndpointRecord
  <2> QED BY <1>2, <1>4, <2>1, <2>2, <2>3, <2>4, <2>5 DEF Constructed
<1>5. ASSUME sock' = [sock EXCEPT ![o] = new(NoFd, NoEndpoint)], UNCHANGED <<fdTable, ep>>
      PROVE  Constructed(o, new(NoFd, NoEndpoint))
  <2>1. new(NoFd, NoEndpoint).fd = NoFd
    BY DEF NewSocket
  <2> HIDE DEF new, EndpointRecord
  <2> QED BY <1>2, <1>3, <1>5, <2>1 DEF Constructed
<1>6. CASE \E f \in FreeFds, e \in UnusedEndpoints :
             /\ fdTable' = [fdTable EXCEPT ![f] = e]
             /\ ep' = [ep EXCEPT ![e].st = "created"]
             /\ sock' = [sock EXCEPT ![o] = new(f, e)]
  <2>1. PICK f \in FreeFds, e \in UnusedEndpoints :
             /\ fdTable' = [fdTable EXCEPT ![f] = e]
             /\ ep' = [ep EXCEPT ![e].st = "created"]
             /\ sock' = [sock EXCEPT ![o] = new(f, e)]
    BY <1>6
  <2> HIDE DEF new, SocketRecord
  <2>2. Constructed(o, new(f, e)) /\ f \in Fds /\ e \in Endpoints
    BY <1>4, <2>1
  <2>3. new(f, e) \in SocketRecord /\ new(f, e).holder = t /\ new(f, e).addr = a
    BY <1>1, <2>2
  <2> QED BY <2>2, <2>3
<1>7. CASE sock' = [sock EXCEPT ![o] = new(NoFd, NoEndpoint)] /\ UNCHANGED <<fdTable, ep>>
  <2> HIDE DEF new, SocketRecord
  <2> QED BY <1>1, <1>5, <1>7
<1> QED BY <1>6, <1>7 DEF Construct

\* A constructor gives the new Socket a descriptor nobody owned, or none.
LEMMA ConstructHolds ==
  ASSUME IInv, NEW o \in Objects, NEW r \in SocketRecord,
         r.holder \in Threads, r.addr \in Addresses, Constructed(o, r),
         \A u \in Threads : frame'[u].fd = frame[u].fd,
         pc' \in [Threads -> Places], frame' \in [Threads -> FrameRecord], FrameShape'
  PROVE  IInv'
<1>1. files' \subseteq Addresses
  BY DEF IInv, TypeOK, Constructed
<1> HIDE DEF SocketRecord, EndpointRecord, FrameRecord, Places
<1>2. o \in Objects \ Alive
  BY DEF Constructed
<1>3. \A u \in Threads : /\ frame'[u].fd \in {frame[u].fd, NoFd}
                        /\ r.fd # NoFd => frame'[u].fd # r.fd
  BY DEF Constructed
<1> QED BY <1>1, <1>2, <1>3, NewSocketHolds DEF Constructed

\* create() is that constructor.
LEMMA CreateHolds ==
  ASSUME IInv, NEW t \in Threads, NEW k \in Kinds, NEW a \in Addresses, Create(t, k, a)
  PROVE  IInv'
<1>1. PICK o \in Objects : Construct(t, o, k, a, FALSE, FALSE)
  BY DEF Create
<1>2. UNCHANGED <<pc, frame>>
  BY DEF Create
<1>3. PICK r \in SocketRecord : r.holder = t /\ r.addr = a /\ Constructed(o, r)
  <2> HIDE DEF SocketRecord, EndpointRecord, FrameRecord, NoFrame, DeadSocket, Kinds
  <2>1. FALSE \in BOOLEAN /\ TRUE \in BOOLEAN
    OBVIOUS
  <2>2. \A opened, reuse \in BOOLEAN : Construct(t, o, k, a, opened, reuse) =>
          \E r \in SocketRecord : r.holder = t /\ r.addr = a /\ Constructed(o, r)
    BY ConstructEffect
  <2> QED BY <1>1, <2>1, <2>2
<1>4. FrameShape'
  <2>1. \A u \in Threads : pc[u] \in Opening =>
          frame[u].obj \in Objects /\ sock'[frame[u].obj] = sock[frame[u].obj]
    BY <1>3, OpeningKept DEF Constructed
  <2> QED BY <1>2, <2>1 DEF IInv, FrameShape
<1>5. pc' \in [Threads -> Places] /\ frame' \in [Threads -> FrameRecord]
  BY <1>2 DEF IInv, TypeOK
<1> HIDE DEF SocketRecord, FrameRecord, Places
<1> QED BY <1>2, <1>3, <1>4, <1>5, ConstructHolds

\* open() is that constructor, and a local that holds the Socket.
LEMMA OpenHolds ==
  ASSUME IInv, NEW t \in Threads, NEW k \in Kinds, NEW a \in Addresses,
         NEW reuse \in BOOLEAN, Open(t, k, a, reuse)
  PROVE  IInv'
<1>1. PICK o \in Objects : /\ Construct(t, o, k, a, TRUE, reuse)
                           /\ frame' = [frame EXCEPT ![t].obj = o]
  BY DEF Open
<1>2. pc[t] = "idle" /\ pc' = [pc EXCEPT ![t] = FirstCall(k, reuse)]
  BY DEF Open, Goto
<1>3. PICK r \in SocketRecord : r.holder = t /\ r.addr = a /\ Constructed(o, r)
  <2> HIDE DEF SocketRecord, EndpointRecord, FrameRecord, NoFrame, DeadSocket, Kinds
  <2>1. FALSE \in BOOLEAN /\ TRUE \in BOOLEAN
    OBVIOUS
  <2>2. \A opened, shared \in BOOLEAN : Construct(t, o, k, a, opened, shared) =>
          \E r \in SocketRecord : r.holder = t /\ r.addr = a /\ Constructed(o, r)
    BY ConstructEffect
  <2> QED BY <1>1, <2>1, <2>2
<1>4. FirstCall(k, reuse) \in Opening
  BY DEF FirstCall
<1>5. /\ frame[t].fd = NoFd /\ frame' \in [Threads -> FrameRecord]
      /\ frame'[t].obj = o /\ frame'[t].fd = NoFd
      /\ \A u \in Threads \ {t} : frame'[u] = frame[u]
  BY <1>1, <1>2 DEF IInv, TypeOK, FrameShape
<1>6. pc' \in [Threads -> Places]
  BY <1>2, <1>4 DEF IInv, TypeOK
<1>7. FrameShape'
  <2>1. \A u \in Threads : pc[u] \in Opening =>
          frame[u].obj \in Objects /\ sock'[frame[u].obj] = sock[frame[u].obj]
    BY <1>3, OpeningKept DEF Constructed
  <2>2. sock'[o].holder = t
    <3> HIDE DEF SocketRecord
    <3> QED BY <1>3 DEF IInv, TypeOK, Constructed
  <2>3. pc'[t] \in Opening /\ \A u \in Threads \ {t} : pc'[u] = pc[u]
    BY <1>2, <1>4 DEF IInv, TypeOK
  <2> QED BY <1>5, <2>1, <2>2, <2>3 DEF IInv, FrameShape
<1>8. \A u \in Threads : frame'[u].fd = frame[u].fd
  BY <1>5
<1> HIDE DEF SocketRecord, FrameRecord, Places
<1> QED BY <1>3, <1>5, <1>6, <1>7, <1>8, ConstructHolds

(***************************************************************************)
(* The descriptor of a call's frame becomes a Socket's.                    *)
(***************************************************************************)
LEMMA HandOverHolds ==
  ASSUME IInv, NEW t \in Threads, NEW o \in Objects, NEW a \in Addresses,
         NEW known \in BOOLEAN, frame[t].fd \in Fds, pc[t] \notin Opening,
         ConstructOver(t, o, frame[t].fd, a, known), Returns(t), UNCHANGED kernelVars
  PROVE  IInv'
<1> DEFINE f == frame[t].fd
           r == NewSocket(t, "plain", f, fdTable[f], a, FALSE, FALSE, known)
<1>1. o \notin Alive /\ sock' = [sock EXCEPT ![o] = r]
  BY DEF ConstructOver
<1>2. pc' = [pc EXCEPT ![t] = "idle"] /\ frame' = [frame EXCEPT ![t] = NoFrame]
  BY DEF Returns, Goto
<1>3. f \in Fds /\ f # NoFd /\ fdTable[f] \in Endpoints
  BY ConstantsAssumption DEF IInv, HandlesValid
<1>4. r \in SocketRecord /\ r.holder = t /\ r.addr = a /\ r.fd = f /\ r.given = fdTable[f]
  BY <1>3 DEF NewSocket
<1>5. /\ pc' \in [Threads -> Places] /\ frame' \in [Threads -> FrameRecord]
      /\ frame'[t] = NoFrame /\ \A u \in Threads \ {t} : frame'[u] = frame[u]
  BY <1>2, ConstantsAssumption, LensAssumption DEF IInv, TypeOK
<1>6. /\ fdTable' = fdTable /\ fdTable' \in [Fds -> Endpoints \cup {NoEndpoint}]
      /\ ep' \in [Endpoints -> EndpointRecord] /\ files' \subseteq Addresses
  BY DEF kernelVars, IInv, TypeOK
<1>7. FrameShape'
  <2>1. \A u \in Threads : pc[u] \in Opening =>
          frame[u].obj \in Objects /\ sock'[frame[u].obj] = sock[frame[u].obj]
    BY <1>1, OpeningKept
  <2>2. pc'[t] = "idle" /\ \A u \in Threads \ {t} : pc'[u] = pc[u]
    BY <1>2 DEF IInv, TypeOK
  <2> QED BY <1>5, <2>1, <2>2 DEF IInv, FrameShape
<1>8. \A p \in Alive : sock[p].fd # f
  BY <1>3 DEF IInv, OneOwner
<1>9. \A u \in Threads : /\ frame'[u].fd \in {frame[u].fd, NoFd}
                         /\ r.fd # NoFd => frame'[u].fd # r.fd
  <2>1. \A u \in Threads \ {t} : frame[u].fd # f
    BY <1>3 DEF IInv, OneOwner
  <2>2. r.fd = f /\ frame'[t].fd = NoFd
    BY <1>5 DEF NewSocket
  <2> HIDE DEF r
  <2> QED BY <1>3, <1>5, <2>1, <2>2
<1>10. \A g \in Fds : fdTable[g] \in Endpoints => fdTable'[g] = fdTable[g]
  BY <1>6
<1>11. /\ r.fd # NoFd => fdTable'[r.fd] = r.given /\ r.given \in Endpoints
       /\ \A p \in Alive : r.fd # NoFd => sock[p].fd # r.fd
  BY <1>3, <1>4, <1>6, <1>8
<1> HIDE DEF f, r, SocketRecord, EndpointRecord, FrameRecord, Places
<1> QED BY <1>1, <1>4, <1>5, <1>6, <1>7, <1>9, <1>10, <1>11, NewSocketHolds

\* Socket::create() takes the descriptor from its caller's local.
LEMMA AdoptHolds ==
  ASSUME IInv, NEW t \in Threads, NEW a \in Addresses, Adopt(t, a)
  PROVE  IInv'
<1>1. PICK o \in Objects : ConstructOver(t, o, frame[t].fd, a, TRUE)
  BY DEF Adopt
<1>2. frame[t].fd \in Fds /\ pc[t] \notin Opening
  BY DEF Adopt, IInv, FrameShape
<1>3. Returns(t) /\ UNCHANGED kernelVars
  BY DEF Adopt, Returns
<1> QED BY <1>1, <1>2, <1>3, HandOverHolds

(***************************************************************************)
(* A call puts a free descriptor into its frame.                           *)
(***************************************************************************)
LEMMA FrameTakesHolds ==
  ASSUME IInv, NEW t \in Threads, NEW f \in Fds, NEW e \in Endpoints,
         fdTable[f] = NoEndpoint, fdTable' = [fdTable EXCEPT ![f] = e],
         frame'[t].fd = f, \A u \in Threads \ {t} : frame'[u] = frame[u],
         UNCHANGED <<files, sock>>,
         fdTable' \in [Fds -> Endpoints \cup {NoEndpoint}],
         ep' \in [Endpoints -> EndpointRecord],
         pc' \in [Threads -> Places], frame' \in [Threads -> FrameRecord], FrameShape'
  PROVE  IInv'
<1> HIDE DEF SocketRecord, EndpointRecord, FrameRecord, Places
<1>1. TypeOK'
  BY DEF IInv, TypeOK
<1>2. AliveShape' /\ Alive' = Alive
  BY DEF IInv, AliveShape, Alive
<1>3. f # NoFd /\ (\A o \in Alive : sock[o].fd # f) /\ (\A u \in Threads : frame[u].fd # f)
  BY ConstantsAssumption DEF IInv, HandlesValid
<1>4. OneOwner'
  BY <1>2, <1>3 DEF IInv, OneOwner
<1>5. fdTable'[f] = e /\ \A g \in Fds \ {f} : fdTable'[g] = fdTable[g]
  BY DEF IInv, TypeOK
<1>6. /\ \A o \in Alive : sock[o].fd # NoFd => sock[o].fd \in Fds
      /\ \A u \in Threads : frame[u].fd # NoFd => frame[u].fd \in Fds
  BY DEF IInv, TypeOK, Alive, SocketRecord, FrameRecord
<1>7. HandlesValid'
  BY <1>2, <1>3, <1>5, <1>6 DEF IInv, HandlesValid
<1> QED BY <1>1, <1>2, <1>4, <1>7 DEF IInv

\* accept() takes from a queue that is not empty, so its length stays a Nat.
LEMMA QueueShortened ==
  ASSUME TypeOK, NEW l, HasConnection(l)
  PROVE  [ep EXCEPT ![l].pending = @ - 1] \in [Endpoints -> EndpointRecord]
<1>1. ep[l] \in EndpointRecord /\ l \in Endpoints /\ ep[l].pending > 0
  BY DEF TypeOK, HasConnection
<1>2. [ep[l] EXCEPT !.pending = @ - 1] \in EndpointRecord
  BY <1>1, ConstantsAssumption
<1> QED BY <1>1, <1>2 DEF TypeOK

\* The descriptor a caller opens itself is new, and held by one local.
LEMMA ForeignDescriptorHolds ==
  ASSUME IInv, NEW t \in Threads, ForeignDescriptor(t)
  PROVE  IInv'
<1>1. PICK f \in FreeFds, e \in UnusedEndpoints :
        /\ fdTable' = [fdTable EXCEPT ![f] = e]
        /\ ep' = [ep EXCEPT ![e].st = "connected"]
        /\ frame' = [frame EXCEPT ![t].fd = f]
  BY DEF ForeignDescriptor
<1>2. /\ pc[t] = "idle" /\ pc' = [pc EXCEPT ![t] = "holding"]
      /\ UNCHANGED <<files, sock>>
  BY DEF ForeignDescriptor, Goto
<1>3. f \in Fds /\ e \in Endpoints /\ fdTable[f] = NoEndpoint
  BY DEF FreeFds, UnusedEndpoints
<1>4. fdTable' \in [Fds -> Endpoints \cup {NoEndpoint}] /\ frame' \in [Threads -> FrameRecord]
  <2>1. fdTable' \in [Fds -> Endpoints \cup {NoEndpoint}]
    BY <1>1, <1>3 DEF IInv, TypeOK
  <2>2. frame[t] \in FrameRecord
    BY DEF IInv, TypeOK
  <2>3. [frame[t] EXCEPT !.fd = f] \in FrameRecord
    BY <1>3, <2>2
  <2>4. frame' \in [Threads -> FrameRecord]
    BY <1>1, <2>3 DEF IInv, TypeOK
  <2> QED BY <2>1, <2>4
<1>5. pc' \in [Threads -> Places] /\ ep' \in [Endpoints -> EndpointRecord]
  BY <1>1, <1>2, <1>3, EndpointStateTyped DEF IInv, TypeOK
<1>6. FrameShape'
  BY <1>1, <1>2, <1>3 DEF IInv, TypeOK, FrameShape
<1> QED BY <1>1, <1>2, <1>3, <1>4, <1>5, <1>6, FrameTakesHolds

(***************************************************************************)
(* accept(): the call fails, drops the connection, or has a descriptor.    *)
(***************************************************************************)
LEMMA AcceptFailsHolds ==
  ASSUME IInv, NEW t \in Threads, NEW o \in Objects, NEW then \in AfterAccept,
         AcceptFails(t, o, then) \/ AcceptDrops(t, o, then)
  PROVE  IInv'
<1>1. PICK len \in GarbageLens :
        frame' = [frame EXCEPT ![t].addr = sock[o].addr, ![t].len = len]
  BY DEF AcceptFails, AcceptDrops
<1>2. /\ pc[t] = "idle" /\ pc' = [pc EXCEPT ![t] = then]
      /\ o \in Alive /\ UNCHANGED <<fdTable, files, sock>>
  BY ConstantsAssumption DEF AcceptFails, AcceptDrops, CanAccept, Goto, Held, Alive
<1>3. sock[o].addr \in Addresses /\ frame[t] = NoFrame
  BY <1>2 DEF IInv, AliveShape, FrameShape
<1>4. ep' \in [Endpoints -> EndpointRecord]
  <2>1. CASE AcceptFails(t, o, then)
    BY <2>1 DEF AcceptFails, IInv, TypeOK
  <2>2. CASE AcceptDrops(t, o, then)
    BY <2>2, QueueShortened DEF AcceptDrops, IInv
  <2> QED BY <2>1, <2>2
<1>5. frame' \in [Threads -> FrameRecord] /\ pc' \in [Threads -> Places]
  BY <1>1, <1>2, <1>3, ConstantsAssumption DEF IInv, TypeOK
<1>6. FrameShape'
  BY <1>1, <1>2, <1>3 DEF IInv, TypeOK, FrameShape
<1>7. \A u \in Threads : frame'[u].fd = frame[u].fd
  BY <1>1, <1>3 DEF IInv, TypeOK
<1> QED BY <1>2, <1>4, <1>5, <1>6, <1>7
        DEF IInv, TypeOK, AliveShape, OneOwner, HandlesValid, Alive

\* So is the one accept() returns, whatever length and address come with it.
LEMMA AcceptTakesHolds ==
  ASSUME IInv, NEW t \in Threads, NEW o \in Objects, NEW then \in AfterAccept,
         AcceptTakes(t, o, then)
  PROVE  IInv'
<1>1. PICK f \in FreeFds, e \in UnusedEndpoints,
           len \in {n \in GarbageLens : ~Negative(n)},
           peerLen \in PeerLens[Domain[sock[o].addr]] :
        /\ fdTable' = [fdTable EXCEPT ![f] = e]
        /\ ep' = [ep EXCEPT ![Target(o)].pending = @ - 1, ![e].st = "connected",
                            ![e].addr = ep[Target(o)].addr, ![e].reuse = ep[Target(o)].reuse]
        /\ frame' = [frame EXCEPT ![t].addr = sock[o].addr, ![t].fd = f,
                                  ![t].len = peerLen, ![t].copied = Copied(len, peerLen)]
  BY DEF AcceptTakes
<1>2. /\ pc[t] = "idle" /\ pc' = [pc EXCEPT ![t] = then]
      /\ o \in Alive /\ HasConnection(Target(o)) /\ UNCHANGED <<files, sock>>
  BY ConstantsAssumption DEF AcceptTakes, CanAccept, Goto, Held, Alive
<1>3. /\ f \in Fds /\ e \in Endpoints /\ fdTable[f] = NoEndpoint
      /\ sock[o].addr \in Addresses /\ frame[t] = NoFrame
  BY <1>2 DEF FreeFds, UnusedEndpoints, IInv, AliveShape, FrameShape
<1>4. peerLen \in 0..(LenModulus - 1) /\ Copied(len, peerLen) \in 0..(LenModulus - 1)
  <2>1. Domain[sock[o].addr] \in Domains
    BY <1>3, ConstantsAssumption
  <2>2. peerLen \in 1..(LenModulus \div 2 - 1)
    BY <2>1, LensAssumption
  <2>3. peerLen \in 0..(LenModulus - 1) /\ len \in 0..(LenModulus - 1)
    BY <2>2, LensAssumption, ConstantsAssumption
  <2> QED BY <2>3 DEF Copied
<1>5. fdTable' \in [Fds -> Endpoints \cup {NoEndpoint}] /\ frame' \in [Threads -> FrameRecord]
  BY <1>1, <1>3, <1>4 DEF IInv, TypeOK
<1>6. ep' \in [Endpoints -> EndpointRecord]
  <2> DEFINE l == Target(o)
             one == [ep EXCEPT ![l].pending = @ - 1]
  <2>1. one \in [Endpoints -> EndpointRecord]
    BY <1>2, QueueShortened DEF IInv
  <2>2. ep[l] \in EndpointRecord
    BY <1>2 DEF HasConnection, IInv, TypeOK
  <2>3. one[e] \in EndpointRecord
    BY <1>3, <2>1
  <2>4. [one[e] EXCEPT !.st = "connected", !.addr = ep[l].addr, !.reuse = ep[l].reuse]
          \in EndpointRecord
    BY <2>2, <2>3
  <2>5. ep' = [one EXCEPT ![e].st = "connected", ![e].addr = ep[l].addr,
                          ![e].reuse = ep[l].reuse]
    BY <1>1
  <2> HIDE DEF one, EndpointRecord
  <2> QED BY <1>3, <2>1, <2>4, <2>5
<1>7. pc' \in [Threads -> Places]
  BY <1>2 DEF IInv, TypeOK
<1>8. /\ frame'[t].fd = f /\ frame'[t].obj = NoObject /\ frame'[t].addr = sock[o].addr
      /\ \A u \in Threads \ {t} : frame'[u] = frame[u]
  BY <1>1, <1>3 DEF IInv, TypeOK
<1>9. FrameShape'
  <2>1. pc'[t] = then /\ \A u \in Threads \ {t} : pc'[u] = pc[u]
    BY <1>2 DEF IInv, TypeOK
  <2>2. ShapeOf(t)'
    BY <1>3, <1>8, <2>1
  <2>3. ASSUME NEW u \in Threads \ {t} PROVE ShapeOf(u)'
    <3>1. ShapeOf(u)
      BY DEF IInv, FrameShape
    <3> QED BY <1>2, <1>8, <2>1, <3>1
  <2> HIDE DEF ShapeOf
  <2> QED BY <2>2, <2>3 DEF FrameShape
<1> QED BY <1>1, <1>2, <1>3, <1>5, <1>6, <1>7, <1>8, <1>9, FrameTakesHolds

(***************************************************************************)
(* A verdict of "none" means that accept() returned a descriptor.          *)
(***************************************************************************)
LEMMA VerdictNone ==
  ASSUME IInv, NEW t \in Threads, pc[t] \in AfterAccept, Verdict(t) = "none"
  PROVE  frame[t].fd \in Fds
<1>1. frame[t].addr \in Addresses /\ frame[t].len \in 0..(LenModulus - 1)
  BY DEF IInv, FrameShape, TypeOK
<1>2. Domain[frame[t].addr] \in Domains
  BY <1>1, ConstantsAssumption
<1>3. BufferLen[Domain[frame[t].addr]] \in Nat
  BY <1>2 DEF BufferLen
<1>4. frame[t].fd # NoFd
  <2> DEFINE B == BufferLen[Domain[frame[t].addr]]
  <2>1. frame[t].len > B \/ frame[t].len <= B
    BY <1>1, <1>3, LensAssumption
  <2> QED BY <2>1 DEF Verdict, AcceptError
<1> QED BY <1>4 DEF IInv, TypeOK

\* The closure moves the descriptor from the accepting thread to the new one.
LEMMA SpawnHolds ==
  ASSUME IInv, NEW t \in Threads, NEW n \in Threads, Spawn(t, n)
  PROVE  IInv'
<1>1. /\ pc[t] = "acceptedInNewThread" /\ pc[n] = "unborn" /\ t # n
      /\ pc' = [pc EXCEPT ![t] = "idle", ![n] = "starting"]
      /\ frame' = [frame EXCEPT ![t] = NoFrame, ![n] = frame[t]]
      /\ UNCHANGED <<fdTable, ep, files, sock>>
  BY DEF Spawn
<1>2. frame[t].fd \in Fds /\ frame[t].obj = NoObject /\ frame[t].addr \in Addresses
  BY <1>1, VerdictNone DEF Spawn, IInv, FrameShape
<1>3. NoFrame \in FrameRecord /\ frame[t] \in FrameRecord
  BY <1>1, ConstantsAssumption, LensAssumption DEF IInv, TypeOK
<1>4. TypeOK'
  <2>1. frame' \in [Threads -> FrameRecord]
    <3> HIDE DEF FrameRecord, NoFrame
    <3> QED BY <1>1, <1>3 DEF IInv, TypeOK
  <2>2. pc' \in [Threads -> Places]
    BY <1>1 DEF IInv, TypeOK
  <2> HIDE DEF SocketRecord, EndpointRecord, FrameRecord, Places
  <2> QED BY <1>1, <2>1, <2>2 DEF IInv, TypeOK
<1>5. /\ pc'[t] = "idle" /\ pc'[n] = "starting" /\ frame'[t] = NoFrame /\ frame'[n] = frame[t]
      /\ \A u \in Threads \ {t, n} : pc'[u] = pc[u] /\ frame'[u] = frame[u]
  BY <1>1 DEF IInv, TypeOK
<1>6. FrameShape'
  <2>1. ShapeOf(t)'
    BY <1>5
  <2>2. ShapeOf(n)'
    BY <1>2, <1>5
  <2>3. ASSUME NEW u \in Threads \ {t, n} PROVE ShapeOf(u)'
    <3>1. ShapeOf(u)
      BY DEF IInv, FrameShape
    <3> QED BY <1>1, <1>5, <3>1
  <2> HIDE DEF ShapeOf
  <2> QED BY <2>1, <2>2, <2>3 DEF FrameShape
<1>7. AliveShape' /\ Alive' = Alive
  BY <1>1 DEF IInv, AliveShape, Alive
<1>8. frame'[t].fd = NoFd
  BY <1>5
<1> HIDE DEF SocketRecord, FrameRecord, NoFrame
<1>9. OneOwner'
  <2>1. \A u, v \in Threads : u # v /\ frame'[u].fd # NoFd => frame'[u].fd # frame'[v].fd
    BY <1>5, <1>8 DEF IInv, OneOwner
  <2>2. \A o \in Alive, u \in Threads : sock[o].fd # NoFd => sock[o].fd # frame'[u].fd
    BY <1>5, <1>8 DEF IInv, OneOwner
  <2>3. \A o, p \in Alive : o # p /\ sock[o].fd # NoFd => sock[o].fd # sock[p].fd
    BY DEF IInv, OneOwner
  <2>4. sock' = sock
    BY <1>1
  <2> QED BY <1>7, <2>1, <2>2, <2>3, <2>4 DEF OneOwner
<1>10. HandlesValid'
  <2>1. \A u \in Threads : frame'[u].fd # NoFd => fdTable[frame'[u].fd] \in Endpoints
    BY <1>5, <1>8 DEF IInv, HandlesValid
  <2> QED BY <1>1, <1>7, <2>1 DEF IInv, HandlesValid
<1> QED BY <1>4, <1>6, <1>7, <1>9, <1>10 DEF IInv

(***************************************************************************)
(* Every step of one thread.                                               *)
(***************************************************************************)
LEMMA StepHolds ==
  ASSUME IInv, NEW t \in Threads, Step(t)
  PROVE  IInv'
<1>1. ASSUME NEW k \in Kinds, NEW a \in Addresses, Create(t, k, a) PROVE IInv'
  BY <1>1, CreateHolds
<1>2. ASSUME NEW o \in Objects, Release(t, o) PROVE IInv'
  <2>1. {o} \in SUBSET Alive /\ Destroy({o}) /\ UNCHANGED <<pc, frame>>
    BY <1>2, ConstantsAssumption DEF Release, Held, Alive
  <2>2. FrameShape'
    <3>1. \A p \in Objects \ {o} : sock'[p] = sock[p]
      BY <2>1 DEF Destroy
    <3>2. sock[o].holder = t /\ pc[t] = "idle"
      BY <1>2 DEF Release, Held
    <3> QED BY <2>1, <3>1, <3>2 DEF IInv, FrameShape
  <2>3. pc' \in [Threads -> Places] /\ frame' \in [Threads -> FrameRecord]
    BY <2>1 DEF IInv, TypeOK
  <2> QED BY <2>1, <2>2, <2>3, DestroyHolds
<1>3. ASSUME ForeignDescriptor(t) PROVE IInv'
  BY <1>3, ForeignDescriptorHolds
<1>4. ASSUME NEW a \in Addresses, Adopt(t, a) PROVE IInv'
  BY <1>4, AdoptHolds
<1>5. ASSUME NEW o \in Objects, Bind(t, o) \/ Listen(t, o) \/ Connect(t, o) PROVE IInv'
  <2>1. sock[o].addr \in Addresses
    BY <1>5, ConstantsAssumption DEF Bind, Listen, Connect, Held, Alive, IInv, AliveShape
  <2>2. /\ \/ BindEndpoint(Target(o), sock[o].addr)
           \/ ListenEndpoint(Target(o), sock[o].addr)
           \/ ConnectEndpoint(Target(o), sock[o].addr)
        /\ UNCHANGED <<sock, pc, frame>>
    BY <1>5 DEF Bind, Listen, Connect
  <2> QED BY <2>1, <2>2, EndpointCallsTyped, NothingOwnedChanges DEF IInv
<1>6. ASSUME NEW k \in Kinds, NEW a \in Addresses, NEW reuse \in BOOLEAN, Open(t, k, a, reuse)
      PROVE IInv'
  BY <1>6, OpenHolds
<1>7. ASSUME OpenSetReuse(t) \/ OpenSetReusePort(t) PROVE IInv'
  <2>1. CASE Unwind(t)
    BY <1>7, <2>1, UnwindHolds DEF OpenSetReuse, OpenSetReusePort
  <2>2. CASE Goto(t, "settingReusePort") /\ UNCHANGED <<fdTable, ep, files, sock, frame>>
    <3>1. pc[t] \in Opening
      BY <1>7 DEF OpenSetReuse, OpenSetReusePort
    <3> QED BY <2>2, <3>1, GotoOpening DEF IInv, TypeOK
  <2>3. ASSUME NEW e, e = Target(frame[t].obj), e # NoEndpoint,
               ep' = [ep EXCEPT ![e].reuse = TRUE], Goto(t, "binding"),
               UNCHANGED <<fdTable, files, sock, frame>>
        PROVE  IInv'
    <3>1. pc[t] \in Opening
      BY <1>7 DEF OpenSetReuse, OpenSetReusePort
    <3>2. frame[t].obj \in Objects
      BY <3>1 DEF IInv, FrameShape
    <3>3. e \in Endpoints /\ ep[e] \in EndpointRecord
      <4>1. \A f \in Fds : fdTable[f] \in Endpoints \cup {NoEndpoint}
        BY DEF IInv, TypeOK
      <4>2. sock[frame[t].obj].fd \in Fds \cup {NoFd}
        BY <3>2 DEF IInv, TypeOK
      <4>3. e \in Endpoints
        BY <2>3, <4>1, <4>2 DEF Target
      <4> QED BY <4>3 DEF IInv, TypeOK
    <3>4. [ep[e] EXCEPT !.reuse = TRUE] \in EndpointRecord
      BY <3>3
    <3>5. ep' \in [Endpoints -> EndpointRecord] /\ files' \subseteq Addresses
      BY <2>3, <3>3, <3>4 DEF IInv, TypeOK
    <3> QED BY <2>3, <3>1, <3>5, GotoOpening
  <2> QED BY <1>7, <2>1, <2>2, <2>3 DEF OpenSetReuse, OpenSetReusePort
<1>8. ASSUME OpenBind(t) PROVE IInv'
  <2>1. pc[t] \in Opening /\ sock[frame[t].obj].addr \in Addresses
    BY <1>8, ConstantsAssumption DEF OpenBind, IInv, FrameShape, AliveShape, Alive
  <2>2. CASE Unwind(t)
    BY <2>1, <2>2, UnwindHolds
  <2>3. CASE /\ BindEndpoint(Target(frame[t].obj), sock[frame[t].obj].addr)
             /\ Goto(t, "listening") /\ UNCHANGED <<sock, frame>>
    BY <2>1, <2>3, EndpointCallsTyped, GotoOpening DEF IInv
  <2> QED BY <1>8, <2>2, <2>3 DEF OpenBind
<1>9. ASSUME OpenListen(t) \/ OpenConnect(t) PROVE IInv'
  <2>1. pc[t] \in Opening /\ sock[frame[t].obj].addr \in Addresses
    BY <1>9, ConstantsAssumption DEF OpenListen, OpenConnect, IInv, FrameShape, AliveShape, Alive
  <2>2. CASE Unwind(t)
    BY <2>1, <2>2, UnwindHolds
  <2>3. CASE /\ \/ ListenEndpoint(Target(frame[t].obj), sock[frame[t].obj].addr)
                \/ ConnectEndpoint(Target(frame[t].obj), sock[frame[t].obj].addr)
             /\ Returns(t) /\ UNCHANGED sock
    BY <2>1, <2>3, EndpointCallsTyped, ReturnsHolds DEF IInv
  <2> QED BY <1>9, <2>2, <2>3 DEF OpenListen, OpenConnect
<1>10. ASSUME NEW o \in Objects, NEW then \in AfterAccept,
              AcceptFails(t, o, then) \/ AcceptDrops(t, o, then)
       PROVE IInv'
  BY <1>10, AcceptFailsHolds
<1>11. ASSUME NEW o \in Objects, NEW then \in AfterAccept, AcceptTakes(t, o, then) PROVE IInv'
  BY <1>11, AcceptTakesHolds
<1>12. ASSUME AcceptThrows(t) \/ SpawnThrows(t) PROVE IInv'
  <2>1. Returns(t) /\ UNCHANGED <<fdTable, ep, files, sock>>
    BY <1>12 DEF AcceptThrows, SpawnThrows
  <2> QED BY <2>1, ReturnsHolds DEF IInv, TypeOK
<1>13. ASSUME AcceptReturns(t) \/ ThreadStarts(t) PROVE IInv'
  <2>1. PICK o \in Objects : ConstructOver(t, o, frame[t].fd, frame[t].addr, PeerKnown(t))
    BY <1>13 DEF AcceptReturns, ThreadStarts
  <2>2. frame[t].fd \in Fds
    BY <1>13, VerdictNone DEF AcceptReturns, ThreadStarts, IInv, FrameShape
  <2>3. /\ frame[t].addr \in Addresses /\ pc[t] \notin Opening
        /\ Returns(t) /\ UNCHANGED kernelVars
    BY <1>13 DEF AcceptReturns, ThreadStarts, IInv, FrameShape
  <2>4. PeerKnown(t) \in BOOLEAN
    BY DEF PeerKnown
  <2> QED BY <2>1, <2>2, <2>3, <2>4, HandOverHolds
<1>14. ASSUME NEW n \in Threads, Spawn(t, n) PROVE IInv'
  BY <1>14, SpawnHolds
<1>15. ASSUME ThreadReturns(t) PROVE IInv'
  <2>1. /\ Held(t) \in SUBSET Alive /\ Destroy(Held(t)) /\ frame' = frame
        /\ pc[t] = "idle" /\ pc' = [pc EXCEPT ![t] = "exited"]
    BY <1>15, ConstantsAssumption DEF ThreadReturns, Held, Alive, Goto
  <2>2. FrameShape'
    <3>1. \A p \in Objects \ Held(t) : sock'[p] = sock[p]
      BY <2>1 DEF Destroy
    <3>2. pc'[t] = "exited" /\ \A u \in Threads \ {t} : pc'[u] = pc[u]
      BY <2>1 DEF IInv, TypeOK
    <3>3. \A u \in Threads \ {t}, p \in Objects : sock[p].holder = u => p \notin Held(t)
      BY DEF Held
    <3> QED BY <2>1, <3>1, <3>2, <3>3 DEF IInv, FrameShape
  <2>3. pc' \in [Threads -> Places] /\ frame' \in [Threads -> FrameRecord]
    BY <2>1 DEF IInv, TypeOK
  <2> QED BY <2>1, <2>2, <2>3, DestroyHolds
<1> QED BY <1>1, <1>2, <1>3, <1>4, <1>5, <1>6, <1>7, <1>8, <1>9, <1>10, <1>11, <1>12,
           <1>13, <1>14, <1>15 DEF Step

\* Every step keeps the inductive invariant.
LEMMA NextHolds == IInv /\ [Next]_vars => IInv'
<1> SUFFICES ASSUME IInv, [Next]_vars PROVE IInv'
  OBVIOUS
<1>1. CASE UNCHANGED vars
  BY <1>1, NothingOwnedChanges DEF vars, IInv, TypeOK
<1>2. ASSUME NEW t \in Threads, Step(t) PROVE IInv'
  BY <1>2, StepHolds
<1>3. ASSUME NEW l \in Endpoints, RemoteConnect(l) PROVE IInv'
  <2>1. ep[l] \in EndpointRecord /\ ep[l].pending < Backlog
    BY <1>3 DEF RemoteConnect, IInv, TypeOK
  <2>2. [ep[l] EXCEPT !.pending = @ + 1] \in EndpointRecord
    BY <2>1, ConstantsAssumption
  <2>3. ep' \in [Endpoints -> EndpointRecord]
    BY <1>3, <2>2 DEF RemoteConnect, IInv, TypeOK
  <2> QED BY <1>3, <2>3, NothingOwnedChanges DEF RemoteConnect, IInv, TypeOK
<1>4. ASSUME NEW e \in Endpoints, RemoteReset(e) \/ Expire(e) PROVE IInv'
  <2>1. \A r \in EndpointRecord : [r EXCEPT !.addr = NoAddress] \in EndpointRecord
    OBVIOUS
  <2>2. ClosedEndpoint \in EndpointRecord
    BY ConstantsAssumption DEF ClosedEndpoint
  <2>3. PICK r \in EndpointRecord : ep' = [ep EXCEPT ![e] = r]
    <3> HIDE DEF EndpointRecord
    <3>1. ep[e] \in EndpointRecord
      BY DEF IInv, TypeOK
    <3> QED BY <1>4, <2>1, <2>2, <3>1 DEF RemoteReset, Expire
  <2>4. ep' \in [Endpoints -> EndpointRecord] /\ files' \subseteq Addresses
    <3> HIDE DEF EndpointRecord
    <3> QED BY <1>4, <2>3 DEF RemoteReset, Expire, IInv, TypeOK
  <2> QED BY <1>4, <2>4, NothingOwnedChanges DEF RemoteReset, Expire
<1> QED BY <1>1, <1>2, <1>3, <1>4 DEF Next

\* The inductive invariant holds in every reachable state, for every number
\* of threads, descriptors, Sockets and addresses.
THEOREM Invariance == Spec => []IInv
<1> QED BY InitHolds, NextHolds, PTL DEF Spec

(***************************************************************************)
(* Types.                                                                  *)
(***************************************************************************)
THEOREM TypeCorrect == Spec => []TypeOK
<1>1. IInv => TypeOK
  BY DEF IInv
<1> QED BY <1>1, Invariance, PTL

(***************************************************************************)
(* No two owners of a descriptor, and no stale descriptor, whatever the    *)
(* kernel reports, whatever accept()'s length starts with, and whichever   *)
(* call throws.                                                            *)
(***************************************************************************)
THEOREM Ownership == Spec => []OneOwner
<1>1. IInv => OneOwner
  BY DEF IInv
<1> QED BY <1>1, Invariance, PTL

\* A Socket's descriptor is open and still the one that it was given.
THEOREM Handles == Spec => []HandlesValid
<1>1. IInv => HandlesValid
  BY DEF IInv
<1> QED BY <1>1, Invariance, PTL

(***************************************************************************)
(* Whatever accept() copied, the family that is read back, or assumed, is  *)
(* one that the server's Address class takes.                              *)
(***************************************************************************)
LEMMA FamilyTaken ==
  ASSUME NEW d \in Domains, NEW copied
  PROVE  FamilyAssumed(d, copied) \in FamiliesTaken(d)
  BY DEF Domains, FamilyAssumed, FamilyFound, FamiliesTaken, InetFamilies, LocalFamilies

\* After accept(), a name that fits gives no error but a failed call.
LEMMA FittingNameTaken ==
  ASSUME IInv, NEW t \in Threads, pc[t] \in AfterAccept, frame[t].fd # NoFd,
         frame[t].len <= BufferLen[Domain[frame[t].addr]]
  PROVE  Verdict(t) = "none"
<1>1. Domain[frame[t].addr] \in Domains
  BY ConstantsAssumption DEF IInv, FrameShape
<1>2. BufferLen[Domain[frame[t].addr]] \in Nat /\ frame[t].len \in Nat
  BY <1>1, LensAssumption DEF BufferLen, IInv, TypeOK
<1>3. ~(frame[t].len > BufferLen[Domain[frame[t].addr]])
  BY <1>2
<1> QED BY <1>1, <1>3, FamilyTaken DEF Verdict, AcceptError

(***************************************************************************)
(* A connection whose name fits is never turned away for its family.       *)
(***************************************************************************)
THEOREM FamilyNeverRejects == Spec => []UnnamedPeerTaken
<1>1. IInv => UnnamedPeerTaken
  BY FittingNameTaken DEF UnnamedPeerTaken
<1> QED BY <1>1, Invariance, PTL

(***************************************************************************)
(* Nothing throws once accept() has a descriptor: threads can be made, and *)
(* the kernel reports no name longer than the structure.                   *)
(***************************************************************************)
NoLateThrow ==
  /\ ~SpawnMayFail
  /\ \A d \in Domains : PeerLens[d] \subseteq 0..BufferLen[d]

\* The first half of NoDescriptorLeak.
AllOwned == \A f \in Fds : fdTable[f] # NoEndpoint => f \in OwnedFds

\* The second half.
HoldersRun == \A o \in Alive : pc[sock[o].holder] # "exited"

LenFits ==
  \A t \in Threads : pc[t] \in AfterAccept /\ frame[t].fd # NoFd =>
    frame[t].len <= BufferLen[Domain[frame[t].addr]]

LInv == IInv /\ AllOwned /\ HoldersRun /\ LenFits

\* Initially no descriptor is open, so none is without an owner.
LEMMA InitLInv == Init => LInv
<1> SUFFICES ASSUME Init PROVE LInv
  OBVIOUS
<1>1. AllOwned
  BY DEF Init, AllOwned
<1>2. LenFits
  BY DEF Init, LenFits
<1>3. HoldersRun
  BY DEF Init, HoldersRun, Alive
<1> QED BY <1>1, <1>2, <1>3, InitHolds DEF LInv

(***************************************************************************)
(* The owners stay, or hand over what they own.                            *)
(***************************************************************************)
LEMMA OwnersKept ==
  ASSUME AllOwned,
         \A f \in Fds : fdTable'[f] # NoEndpoint =>
           fdTable[f] # NoEndpoint \/ f \in OwnedFds',
         \A f \in OwnedFds : f \in Fds /\ fdTable'[f] # NoEndpoint => f \in OwnedFds'
  PROVE  AllOwned'
  BY DEF AllOwned

\* A descriptor that stays in some local keeps its owner.
LEMMA FrameFdsKept ==
  ASSUME AllOwned, UNCHANGED <<fdTable, sock>>,
         \A t \in Threads : frame[t].fd \in Fds => \E u \in Threads : frame'[u].fd = frame[t].fd
  PROVE  AllOwned'
<1>1. Alive' = Alive
  BY DEF Alive
<1>2. \A f \in OwnedFds : f \in Fds => f \in OwnedFds'
  BY <1>1 DEF OwnedFds
<1> QED BY <1>2, OwnersKept

\* A destructor closes what its Socket owned and nothing else.
LEMMA DestroyLeavesNone ==
  ASSUME IInv, AllOwned, NEW S \in SUBSET Alive, Destroy(S),
         \A t \in Threads : frame'[t].fd = frame[t].fd
  PROVE  AllOwned'
<1> DEFINE fds == {sock[o].fd : o \in S} \ {NoFd}
<1>1. /\ fdTable' = [f \in Fds |-> IF f \in fds THEN NoEndpoint ELSE fdTable[f]]
      /\ sock' = [o \in Objects |-> IF o \in S THEN DeadSocket ELSE sock[o]]
  BY DEF Destroy
<1>2. \A o \in Alive \ S : o \in Alive' /\ sock'[o].fd = sock[o].fd
  BY <1>1 DEF Alive
<1>3. ASSUME NEW f \in OwnedFds, f \in Fds, fdTable'[f] # NoEndpoint
      PROVE  f \in OwnedFds'
  <2>1. f \notin fds
    BY <1>1, <1>3
  <2>2. f # NoFd
    BY <1>3, ConstantsAssumption
  <2>3. CASE \E o \in Alive : sock[o].fd = f
    <3>1. PICK o \in Alive : sock[o].fd = f
      BY <2>3
    <3>2. o \notin S
      BY <2>1, <2>2, <3>1
    <3> QED BY <1>2, <3>1, <3>2 DEF OwnedFds
  <2>4. CASE \E t \in Threads : frame[t].fd = f
    BY <2>4 DEF OwnedFds
  <2> QED BY <1>3, <2>3, <2>4 DEF OwnedFds
<1>4. \A f \in Fds : fdTable'[f] # NoEndpoint => fdTable[f] # NoEndpoint
  BY <1>1
<1> QED BY <1>3, <1>4, OwnersKept

\* What a constructor opens, the new Socket owns.
LEMMA ConstructLeavesNone ==
  ASSUME IInv, AllOwned, NEW t \in Threads, NEW o \in Objects, NEW k, NEW a,
         NEW opened, NEW reuse, Construct(t, o, k, a, opened, reuse),
         \A u \in Threads : frame'[u].fd = frame[u].fd
  PROVE  AllOwned'
<1> DEFINE new(f, e) == NewSocket(t, k, f, e, a, opened, reuse, TRUE)
<1>0. \A f, e : new(f, e).holder = t /\ new(f, e).fd = f
  BY DEF NewSocket
<1> HIDE DEF new
<1>1. \E r : /\ sock' = [sock EXCEPT ![o] = r] /\ r.holder = t
             /\ r.fd \in Fds \cup {NoFd}
             /\ \A g \in Fds \ {r.fd} : fdTable'[g] = fdTable[g]
  <2>1. ASSUME NEW f \in FreeFds, NEW e \in UnusedEndpoints,
               fdTable' = [fdTable EXCEPT ![f] = e]
        PROVE  f \in Fds /\ \A g \in Fds \ {f} : fdTable'[g] = fdTable[g]
    BY <2>1 DEF FreeFds, IInv, TypeOK
  <2>2. CASE \E f \in FreeFds, e \in UnusedEndpoints :
               fdTable' = [fdTable EXCEPT ![f] = e] /\ sock' = [sock EXCEPT ![o] = new(f, e)]
    <3>1. PICK f \in FreeFds, e \in UnusedEndpoints :
               fdTable' = [fdTable EXCEPT ![f] = e] /\ sock' = [sock EXCEPT ![o] = new(f, e)]
      BY <2>2
    <3>2. f \in Fds /\ \A g \in Fds \ {f} : fdTable'[g] = fdTable[g]
      BY <2>1, <3>1
    <3>3. new(f, e).holder = t /\ new(f, e).fd = f
      BY <1>0
    <3> QED BY <3>1, <3>2, <3>3
  <2>3. CASE sock' = [sock EXCEPT ![o] = new(NoFd, NoEndpoint)] /\ UNCHANGED fdTable
    <3> WITNESS new(NoFd, NoEndpoint)
    <3> QED BY <1>0, <2>3
  <2> QED BY <2>2, <2>3 DEF Construct, new
<1>2. PICK r : /\ sock' = [sock EXCEPT ![o] = r] /\ r.holder = t
               /\ r.fd \in Fds \cup {NoFd}
               /\ \A g \in Fds \ {r.fd} : fdTable'[g] = fdTable[g]
  BY <1>1
<1>3. /\ o \notin Alive /\ sock'[o] = r
      /\ \A p \in Objects \ {o} : sock'[p] = sock[p]
  <2> HIDE DEF SocketRecord
  <2> QED BY <1>2 DEF Construct, IInv, TypeOK
<1>4. o \in Alive' /\ \A p \in Alive : p \in Alive' /\ sock'[p] = sock[p]
  BY <1>2, <1>3, ConstantsAssumption DEF Alive
<1>5. r.fd \in OwnedFds'
  BY <1>3, <1>4 DEF OwnedFds
<1>6. \A g \in OwnedFds : g \in OwnedFds'
  BY <1>4 DEF OwnedFds
<1> QED BY <1>2, <1>5, <1>6, OwnersKept

\* A descriptor that moves from a local to a Socket keeps an owner.
LEMMA HandOverLeavesNone ==
  ASSUME IInv, AllOwned, NEW t \in Threads, NEW o \in Objects, NEW a, NEW known,
         ConstructOver(t, o, frame[t].fd, a, known), Returns(t), UNCHANGED kernelVars
  PROVE  AllOwned'
<1> DEFINE r == NewSocket(t, "plain", frame[t].fd, fdTable[frame[t].fd], a, FALSE, FALSE, known)
<1>1. o \notin Alive /\ sock' = [sock EXCEPT ![o] = r] /\ UNCHANGED fdTable
  BY DEF ConstructOver, kernelVars
<1>2. r.fd = frame[t].fd /\ r.holder = t
  BY DEF NewSocket
<1> HIDE DEF r, SocketRecord
<1>3. sock'[o] = r /\ \A p \in Objects \ {o} : sock'[p] = sock[p]
  BY <1>1 DEF IInv, TypeOK
<1>4. o \in Alive' /\ \A p \in Alive : p \in Alive' /\ sock'[p] = sock[p]
  BY <1>1, <1>2, <1>3, ConstantsAssumption DEF Alive
<1>5. \A u \in Threads \ {t} : frame'[u] = frame[u]
  BY DEF Returns, IInv, TypeOK
<1>6. \A g \in OwnedFds : g \in OwnedFds'
  BY <1>2, <1>3, <1>4, <1>5 DEF OwnedFds
<1> QED BY <1>1, <1>6, OwnersKept

\* A descriptor that accept() opens is owned by the local.
LEMMA TakesLeavesNone ==
  ASSUME IInv, AllOwned, NEW t \in Threads, NEW f \in Fds, NEW e,
         fdTable' = [fdTable EXCEPT ![f] = e], frame[t].fd = NoFd, frame'[t].fd = f,
         \A u \in Threads \ {t} : frame'[u].fd = frame[u].fd, UNCHANGED sock
  PROVE  AllOwned'
<1>1. Alive' = Alive /\ f \in OwnedFds'
  BY DEF Alive, OwnedFds
<1>2. \A g \in OwnedFds : g \in Fds => g \in OwnedFds'
  BY <1>1, ConstantsAssumption DEF OwnedFds
<1>3. \A g \in Fds \ {f} : fdTable'[g] = fdTable[g]
  BY DEF IInv, TypeOK
<1> QED BY <1>1, <1>2, <1>3, OwnersKept

\* bind(), listen() and connect() open and close no descriptor.
LEMMA EndpointCallsKeepTable ==
  ASSUME NEW e, NEW a, BindEndpoint(e, a) \/ ListenEndpoint(e, a) \/ ConnectEndpoint(e, a)
  PROVE  fdTable' = fdTable
  BY DEF BindEndpoint, ListenEndpoint, ConnectEndpoint

\* With no late throw, no step leaves a descriptor behind.
LEMMA StepLeavesNone ==
  ASSUME NoLateThrow, LInv, NEW t \in Threads, Step(t)
  PROVE  AllOwned'
<1> USE DEF LInv
<1>1. ASSUME NEW k \in Kinds, NEW a \in Addresses, Create(t, k, a) PROVE AllOwned'
  <2>1. PICK o \in Objects : Construct(t, o, k, a, FALSE, FALSE)
    BY <1>1 DEF Create
  <2>2. \A u \in Threads : frame'[u].fd = frame[u].fd
    BY <1>1 DEF Create
  <2> HIDE DEF SocketRecord
  <2> QED BY <2>1, <2>2, ConstructLeavesNone
<1>2. ASSUME NEW o \in Objects, Release(t, o) PROVE AllOwned'
  <2>1. {o} \in SUBSET Alive /\ Destroy({o}) /\ frame' = frame
    BY <1>2, ConstantsAssumption DEF Release, Held, Alive
  <2> QED BY <2>1, DestroyLeavesNone
<1>3. ASSUME ForeignDescriptor(t) PROVE AllOwned'
  <2>1. PICK f \in FreeFds, e \in UnusedEndpoints :
          fdTable' = [fdTable EXCEPT ![f] = e] /\ frame' = [frame EXCEPT ![t].fd = f]
    BY <1>3 DEF ForeignDescriptor
  <2>2. f \in Fds /\ sock' = sock
    BY <1>3 DEF ForeignDescriptor, FreeFds
  <2>3. frame[t].fd = NoFd
    BY <1>3 DEF ForeignDescriptor, IInv, FrameShape
  <2>4. frame'[t].fd = f /\ \A u \in Threads \ {t} : frame'[u].fd = frame[u].fd
    BY <2>1 DEF IInv, TypeOK
  <2> QED BY <2>1, <2>2, <2>3, <2>4, TakesLeavesNone
<1>4. ASSUME NEW a \in Addresses, Adopt(t, a) PROVE AllOwned'
  <2>1. PICK o \in Objects : ConstructOver(t, o, frame[t].fd, a, TRUE)
    BY <1>4 DEF Adopt
  <2>2. Returns(t) /\ UNCHANGED kernelVars
    BY <1>4 DEF Adopt, Returns
  <2> QED BY <2>1, <2>2, HandOverLeavesNone
<1>5. ASSUME NEW o \in Objects, Bind(t, o) \/ Listen(t, o) \/ Connect(t, o)
      PROVE  AllOwned'
  <2>1. UNCHANGED <<fdTable, sock, frame>>
    BY <1>5 DEF Bind, Listen, Connect, BindEndpoint, ListenEndpoint, ConnectEndpoint
  <2> QED BY <2>1, FrameFdsKept
<1>6. ASSUME NEW k \in Kinds, NEW a \in Addresses, NEW reuse \in BOOLEAN, Open(t, k, a, reuse)
      PROVE  AllOwned'
  <2>1. PICK o \in Objects : /\ Construct(t, o, k, a, TRUE, reuse)
                             /\ frame' = [frame EXCEPT ![t].obj = o]
    BY <1>6 DEF Open
  <2>2. \A u \in Threads : frame'[u].fd = frame[u].fd
    BY <2>1 DEF IInv, TypeOK
  <2> HIDE DEF SocketRecord, FrameRecord
  <2> QED BY <2>1, <2>2, ConstructLeavesNone
<1>7. ASSUME Unwind(t), pc[t] \in Opening PROVE AllOwned'
  <2>1. {frame[t].obj} \in SUBSET Alive /\ Destroy({frame[t].obj})
    BY <1>7, ConstantsAssumption DEF Unwind, IInv, FrameShape, Alive
  <2>2. \A u \in Threads : frame'[u].fd = frame[u].fd
    BY <1>7 DEF Unwind, Returns, IInv, TypeOK, FrameShape
  <2> QED BY <2>1, <2>2, DestroyLeavesNone
<1>8. ASSUME Returns(t), UNCHANGED <<fdTable, sock>>, frame[t].fd = NoFd PROVE AllOwned'
  <2>1. \A u \in Threads : frame'[u].fd = frame[u].fd
    BY <1>8 DEF Returns, IInv, TypeOK
  <2> QED BY <1>8, <2>1, FrameFdsKept
<1>9. ASSUME OpenSetReuse(t) \/ OpenSetReusePort(t) \/ OpenBind(t) \/ OpenListen(t) \/ OpenConnect(t)
      PROVE  AllOwned'
  <2>1. pc[t] \in Opening /\ frame[t].fd = NoFd
    BY <1>9 DEF OpenSetReuse, OpenSetReusePort, OpenBind, OpenListen, OpenConnect, IInv, FrameShape
  <2>2. \/ Unwind(t) \/ (Returns(t) /\ UNCHANGED <<fdTable, sock>>)
        \/ UNCHANGED <<fdTable, sock, frame>>
    <3>1. ASSUME OpenSetReuse(t) \/ OpenSetReusePort(t)
          PROVE  Unwind(t) \/ UNCHANGED <<fdTable, sock, frame>>
      BY <3>1 DEF OpenSetReuse, OpenSetReusePort
    <3>2. ASSUME OpenBind(t) PROVE Unwind(t) \/ UNCHANGED <<fdTable, sock, frame>>
      BY <3>2, EndpointCallsKeepTable DEF OpenBind
    <3>3. ASSUME OpenListen(t) PROVE Unwind(t) \/ (Returns(t) /\ UNCHANGED <<fdTable, sock>>)
      BY <3>3, EndpointCallsKeepTable DEF OpenListen
    <3>4. ASSUME OpenConnect(t) PROVE Unwind(t) \/ (Returns(t) /\ UNCHANGED <<fdTable, sock>>)
      BY <3>4, EndpointCallsKeepTable DEF OpenConnect
    <3> QED BY <1>9, <3>1, <3>2, <3>3, <3>4
  <2> QED BY <1>7, <1>8, <2>1, <2>2, FrameFdsKept
<1>10. ASSUME NEW o \in Objects, NEW then \in AfterAccept,
              AcceptFails(t, o, then) \/ AcceptDrops(t, o, then)
       PROVE  AllOwned'
  <2>1. PICK len \in GarbageLens :
          frame' = [frame EXCEPT ![t].addr = sock[o].addr, ![t].len = len]
    BY <1>10 DEF AcceptFails, AcceptDrops
  <2>2. UNCHANGED <<fdTable, sock>>
    BY <1>10 DEF AcceptFails, AcceptDrops
  <2>3. \A u \in Threads : frame'[u].fd = frame[u].fd
    BY <2>1 DEF IInv, TypeOK
  <2> QED BY <2>2, <2>3, FrameFdsKept
<1>11. ASSUME NEW o \in Objects, NEW then \in AfterAccept, AcceptTakes(t, o, then)
       PROVE  AllOwned'
  <2>1. PICK f \in FreeFds, e \in UnusedEndpoints,
             len \in {n \in GarbageLens : ~Negative(n)},
             peerLen \in PeerLens[Domain[sock[o].addr]] :
          /\ fdTable' = [fdTable EXCEPT ![f] = e]
          /\ ep' = [ep EXCEPT ![Target(o)].pending = @ - 1, ![e].st = "connected",
                              ![e].addr = ep[Target(o)].addr, ![e].reuse = ep[Target(o)].reuse]
          /\ frame' = [frame EXCEPT ![t].addr = sock[o].addr, ![t].fd = f,
                                    ![t].len = peerLen, ![t].copied = Copied(len, peerLen)]
    BY <1>11 DEF AcceptTakes
  <2>2. f \in Fds /\ sock' = sock
    BY <1>11 DEF AcceptTakes, FreeFds
  <2>3. frame[t].fd = NoFd
    BY <1>11 DEF AcceptTakes, CanAccept, IInv, FrameShape
  <2>4. frame'[t].fd = f /\ \A u \in Threads \ {t} : frame'[u].fd = frame[u].fd
    BY <2>1, <2>3 DEF IInv, TypeOK
  <2> QED BY <2>1, <2>2, <2>3, <2>4, TakesLeavesNone
<1>12. ASSUME AcceptThrows(t) PROVE AllOwned'
  <2>1. frame[t].fd = NoFd
    BY <1>12, FittingNameTaken DEF AcceptThrows, LenFits
  <2> QED BY <1>8, <1>12, <2>1 DEF AcceptThrows
<1>13. ASSUME AcceptReturns(t) \/ ThreadStarts(t) PROVE AllOwned'
  <2>1. PICK o \in Objects : ConstructOver(t, o, frame[t].fd, frame[t].addr, PeerKnown(t))
    BY <1>13 DEF AcceptReturns, ThreadStarts
  <2>2. Returns(t) /\ UNCHANGED kernelVars
    BY <1>13 DEF AcceptReturns, ThreadStarts
  <2> QED BY <2>1, <2>2, HandOverLeavesNone
<1>14. ASSUME NEW n \in Threads, Spawn(t, n) PROVE AllOwned'
  <2>1. frame' = [frame EXCEPT ![t] = NoFrame, ![n] = frame[t]] /\ UNCHANGED <<fdTable, sock>>
    BY <1>14 DEF Spawn
  <2>2. frame[n].fd = NoFd
    BY <1>14 DEF Spawn, IInv, FrameShape
  <2>3. frame'[n].fd = frame[t].fd /\ \A u \in Threads \ {t, n} : frame'[u] = frame[u]
    BY <2>1 DEF IInv, TypeOK
  <2> QED BY <2>1, <2>2, <2>3, ConstantsAssumption, FrameFdsKept
<1>15. ASSUME ThreadReturns(t) PROVE AllOwned'
  <2>1. Held(t) \in SUBSET Alive /\ Destroy(Held(t)) /\ frame' = frame
    BY <1>15, ConstantsAssumption DEF ThreadReturns, Held, Alive
  <2> QED BY <2>1, DestroyLeavesNone
<1>16. ASSUME SpawnThrows(t) PROVE FALSE
  BY <1>16 DEF SpawnThrows, NoLateThrow
<1> QED BY <1>1, <1>2, <1>3, <1>4, <1>5, <1>6, <1>9, <1>10, <1>11, <1>12, <1>13, <1>14,
           <1>15, <1>16 DEF Step

(***************************************************************************)
(* A frame gets a descriptor only with a name that fits.                   *)
(***************************************************************************)
LEMMA StepLenFits ==
  ASSUME NoLateThrow, LInv, NEW t \in Threads, Step(t)
  PROVE  LenFits'
<1> USE DEF LInv
<1>1. ASSUME NEW u \in Threads, pc'[u] = pc[u], frame'[u] = frame[u],
             pc'[u] \in AfterAccept, frame'[u].fd # NoFd
      PROVE  frame'[u].len <= BufferLen[Domain[frame'[u].addr]]
  BY <1>1 DEF LenFits
<1>2. ASSUME NEW o \in Objects, NEW then \in AfterAccept, AcceptTakes(t, o, then)
      PROVE  LenFits'
  <2>1. PICK f \in FreeFds, e \in UnusedEndpoints,
             len \in {n \in GarbageLens : ~Negative(n)},
             peerLen \in PeerLens[Domain[sock[o].addr]] :
          /\ fdTable' = [fdTable EXCEPT ![f] = e]
          /\ ep' = [ep EXCEPT ![Target(o)].pending = @ - 1, ![e].st = "connected",
                              ![e].addr = ep[Target(o)].addr, ![e].reuse = ep[Target(o)].reuse]
          /\ frame' = [frame EXCEPT ![t].addr = sock[o].addr, ![t].fd = f,
                                    ![t].len = peerLen, ![t].copied = Copied(len, peerLen)]
    BY <1>2 DEF AcceptTakes
  <2>2. sock[o].addr \in Addresses /\ pc' = [pc EXCEPT ![t] = then]
    BY <1>2, ConstantsAssumption DEF AcceptTakes, CanAccept, Goto, Held, Alive, IInv, AliveShape
  <2>3. Domain[sock[o].addr] \in Domains
    BY <2>2, ConstantsAssumption
  <2>4. peerLen <= BufferLen[Domain[sock[o].addr]]
    BY <2>3 DEF NoLateThrow, BufferLen
  <2>5. /\ frame'[t].addr = sock[o].addr /\ frame'[t].len = peerLen
        /\ \A u \in Threads \ {t} : frame'[u] = frame[u] /\ pc'[u] = pc[u]
    BY <2>1, <2>2 DEF IInv, TypeOK
  <2> QED BY <1>1, <2>4, <2>5 DEF LenFits
<1>3. ASSUME NEW o \in Objects, NEW then \in AfterAccept,
             AcceptFails(t, o, then) \/ AcceptDrops(t, o, then)
      PROVE  LenFits'
  <2>1. PICK len \in GarbageLens :
          frame' = [frame EXCEPT ![t].addr = sock[o].addr, ![t].len = len]
    BY <1>3 DEF AcceptFails, AcceptDrops
  <2>2. pc' = [pc EXCEPT ![t] = then] /\ frame[t].fd = NoFd
    BY <1>3 DEF AcceptFails, AcceptDrops, CanAccept, Goto, IInv, FrameShape
  <2>3. frame'[t].fd = NoFd /\ \A u \in Threads \ {t} : frame'[u] = frame[u] /\ pc'[u] = pc[u]
    BY <2>1, <2>2 DEF IInv, TypeOK
  <2> QED BY <1>1, <2>3 DEF LenFits
<1>4. ASSUME \A u \in Threads : pc'[u] \in AfterAccept => pc'[u] = pc[u] /\ frame'[u] = frame[u]
      PROVE  LenFits'
  BY <1>1, <1>4 DEF LenFits
<1>5. ASSUME UNCHANGED <<pc, frame>> PROVE LenFits'
  BY <1>4, <1>5
<1>6. ASSUME NEW place \in Places \ AfterAccept, Goto(t, place),
             \A u \in Threads \ {t} : frame'[u] = frame[u]
      PROVE  LenFits'
  <2>1. pc'[t] \notin AfterAccept /\ \A u \in Threads \ {t} : pc'[u] = pc[u]
    BY <1>6 DEF Goto, IInv, TypeOK
  <2> QED BY <1>4, <1>6, <2>1
<1>7. ASSUME Returns(t) PROVE LenFits'
  <2>1. Goto(t, "idle") /\ \A u \in Threads \ {t} : frame'[u] = frame[u]
    BY <1>7 DEF Returns, IInv, TypeOK
  <2> QED BY <1>6, <2>1
<1>8. ASSUME NEW n \in Threads, Spawn(t, n) PROVE LenFits'
  <2>1. /\ pc' = [pc EXCEPT ![t] = "idle", ![n] = "starting"]
        /\ frame' = [frame EXCEPT ![t] = NoFrame, ![n] = frame[t]]
    BY <1>8 DEF Spawn
  <2>2. \A u \in Threads \ {t, n} : pc'[u] = pc[u] /\ frame'[u] = frame[u]
    BY <2>1 DEF IInv, TypeOK
  <2>3. pc'[t] \notin AfterAccept /\ pc'[n] \notin AfterAccept
    BY <2>1 DEF IInv, TypeOK
  <2> QED BY <1>4, <2>2, <2>3
<1>9. ASSUME NEW k \in Kinds, NEW a \in Addresses, NEW reuse \in BOOLEAN, Open(t, k, a, reuse)
      PROVE  LenFits'
  <2>1. FirstCall(k, reuse) \in Places \ AfterAccept /\ Goto(t, FirstCall(k, reuse))
    BY <1>9 DEF Open, FirstCall
  <2>2. \A u \in Threads \ {t} : frame'[u] = frame[u]
    BY <1>9 DEF Open, IInv, TypeOK
  <2> QED BY <1>6, <2>1, <2>2
<1>10. ASSUME \/ OpenSetReuse(t) \/ OpenSetReusePort(t) \/ OpenBind(t)
              \/ OpenListen(t) \/ OpenConnect(t)
       PROVE  LenFits'
  <2>1. \/ Returns(t)
        \/ \E place \in Opening : Goto(t, place) /\ frame' = frame
    BY <1>10 DEF OpenSetReuse, OpenSetReusePort, OpenBind, OpenListen, OpenConnect, Unwind
  <2> QED BY <1>6, <1>7, <2>1
<1>11. ASSUME \/ ForeignDescriptor(t) \/ ThreadReturns(t)
              \/ \E a \in Addresses : Adopt(t, a)
       PROVE  LenFits'
  <2>1. \E place \in Places \ AfterAccept : Goto(t, place)
    BY <1>11 DEF ForeignDescriptor, ThreadReturns, Adopt
  <2>2. \A u \in Threads \ {t} : frame'[u] = frame[u]
    BY <1>11 DEF ForeignDescriptor, ThreadReturns, Adopt, IInv, TypeOK
  <2> QED BY <1>6, <2>1, <2>2
<1>12. ASSUME \/ AcceptThrows(t) \/ SpawnThrows(t) \/ AcceptReturns(t) \/ ThreadStarts(t)
       PROVE  LenFits'
  BY <1>7, <1>12 DEF AcceptThrows, SpawnThrows, AcceptReturns, ThreadStarts
<1>13. ASSUME \/ \E k \in Kinds, a \in Addresses : Create(t, k, a)
              \/ \E o \in Objects : Release(t, o) \/ Bind(t, o) \/ Listen(t, o) \/ Connect(t, o)
       PROVE  LenFits'
  BY <1>5, <1>13 DEF Create, Release, Bind, Listen, Connect
<1> QED BY <1>2, <1>3, <1>8, <1>9, <1>10, <1>11, <1>12, <1>13 DEF Step

(***************************************************************************)
(* Only the thread itself holds what it makes, and it is not over.         *)
(***************************************************************************)
LEMMA HoldersKept ==
  ASSUME IInv, HoldersRun, NEW t \in Threads, pc[t] # "exited",
         \A u \in Threads : pc'[u] = "exited" => pc[u] = "exited",
         \A o \in Objects : sock'[o].holder \in {sock[o].holder, t, NoThread}
  PROVE  HoldersRun'
<1> SUFFICES ASSUME NEW o \in Objects, sock'[o].holder # NoThread
             PROVE  pc'[sock'[o].holder] # "exited"
  BY DEF HoldersRun, Alive
<1>1. sock[o].holder \in Threads \cup {NoThread}
  BY DEF IInv, TypeOK
<1>2. CASE sock'[o].holder = t
  BY <1>2
<1>3. CASE sock'[o].holder = sock[o].holder
  BY <1>1, <1>3 DEF HoldersRun, Alive
<1> QED BY <1>2, <1>3

\* A thread that ends lets go of what it holds.
LEMMA StepHoldersRun ==
  ASSUME IInv, HoldersRun, NEW t \in Threads, Step(t)
  PROVE  HoldersRun'
<1> DEFINE Goes == \A u \in Threads : pc'[u] = "exited" => pc[u] = "exited"
           Holds == \A o \in Objects : sock'[o].holder \in {sock[o].holder, t, NoThread}
<1>1. ASSUME NEW o \in Objects, NEW k, NEW a, NEW opened, NEW reuse,
             Construct(t, o, k, a, opened, reuse)
      PROVE  Holds
  BY <1>1 DEF Construct, NewSocket, IInv, TypeOK
<1>2. ASSUME NEW o \in Objects, NEW f, NEW a, NEW known, ConstructOver(t, o, f, a, known)
      PROVE  Holds
  BY <1>2 DEF ConstructOver, NewSocket, IInv, TypeOK
<1>3. ASSUME NEW S, Destroy(S) PROVE Holds
  BY <1>3 DEF Destroy
<1>4. ASSUME NEW place \in Places, Goto(t, place), place # "exited" PROVE Goes
  BY <1>4 DEF Goto, IInv, TypeOK
<1>5. ASSUME Returns(t) PROVE Goes
  BY <1>5, <1>4 DEF Returns
<1>6. ASSUME \/ \E k \in Kinds, a \in Addresses : Create(t, k, a)
             \/ \E o \in Objects : Release(t, o)
      PROVE  HoldersRun'
  <2>1. pc[t] = "idle" /\ Goes
    BY <1>6 DEF Create, Release
  <2>2. Holds
    BY <1>1, <1>3, <1>6 DEF Create, Release
  <2> QED BY <2>1, <2>2, HoldersKept
<1>7. ASSUME \/ ForeignDescriptor(t)
             \/ \E o \in Objects : Bind(t, o) \/ Listen(t, o) \/ Connect(t, o)
      PROVE  HoldersRun'
  <2>1. pc[t] = "idle" /\ Goes /\ sock' = sock
    BY <1>4, <1>7 DEF ForeignDescriptor, Bind, Listen, Connect
  <2> QED BY <2>1, HoldersKept
<1>8. ASSUME \E k \in Kinds, a \in Addresses, reuse \in BOOLEAN : Open(t, k, a, reuse)
      PROVE  HoldersRun'
  <2>1. PICK k \in Kinds, a \in Addresses, reuse \in BOOLEAN, o \in Objects :
          Open(t, k, a, reuse) /\ Construct(t, o, k, a, TRUE, reuse)
    BY <1>8 DEF Open
  <2>2. PICK place \in Opening : Goto(t, place)
    BY <2>1 DEF Open, FirstCall
  <2> QED BY <1>1, <1>4, <2>1, <2>2, HoldersKept DEF Open
<1>9. ASSUME OpenSetReuse(t) \/ OpenSetReusePort(t) \/ OpenBind(t) \/ OpenListen(t) \/ OpenConnect(t)
      PROVE  HoldersRun'
  <2>1. pc[t] \in Opening
    BY <1>9 DEF OpenSetReuse, OpenSetReusePort, OpenBind, OpenListen, OpenConnect
  <2>2. \/ Unwind(t)
        \/ (Returns(t) \/ \E place \in Opening : Goto(t, place)) /\ sock' = sock
    BY <1>9 DEF OpenSetReuse, OpenSetReusePort, OpenBind, OpenListen, OpenConnect
  <2> QED BY <1>3, <1>4, <1>5, <2>1, <2>2, HoldersKept DEF Unwind
<1>10. ASSUME NEW o \in Objects, NEW then \in AfterAccept,
              AcceptFails(t, o, then) \/ AcceptDrops(t, o, then) \/ AcceptTakes(t, o, then)
       PROVE  HoldersRun'
  <2>1. pc[t] = "idle" /\ Goto(t, then) /\ sock' = sock
    BY <1>10 DEF AcceptFails, AcceptDrops, AcceptTakes, CanAccept
  <2> QED BY <1>4, <2>1, HoldersKept
<1>11. ASSUME AcceptThrows(t) \/ SpawnThrows(t) PROVE HoldersRun'
  <2>1. pc[t] \in AfterAccept /\ Returns(t) /\ sock' = sock
    BY <1>11 DEF AcceptThrows, SpawnThrows
  <2> QED BY <1>5, <2>1, HoldersKept
<1>12. ASSUME \/ AcceptReturns(t) \/ ThreadStarts(t)
              \/ \E a \in Addresses : Adopt(t, a)
       PROVE  HoldersRun'
  <2>1. pc[t] # "exited" /\ Goes
    BY <1>4, <1>5, <1>12 DEF AcceptReturns, ThreadStarts, Adopt
  <2>2. Holds
    BY <1>2, <1>12 DEF AcceptReturns, ThreadStarts, Adopt
  <2> QED BY <2>1, <2>2, HoldersKept
<1>13. ASSUME NEW n \in Threads, Spawn(t, n) PROVE HoldersRun'
  <2>1. pc[t] # "exited" /\ Goes /\ sock' = sock
    BY <1>13 DEF Spawn, IInv, TypeOK
  <2> QED BY <2>1, HoldersKept
<1>14. ASSUME ThreadReturns(t) PROVE HoldersRun'
  <2>1. /\ sock' = [o \in Objects |-> IF o \in Held(t) THEN DeadSocket ELSE sock[o]]
        /\ \A u \in Threads \ {t} : pc'[u] = pc[u]
    BY <1>14 DEF ThreadReturns, Destroy, Goto, IInv, TypeOK
  <2>2. \A o \in Alive' : o \in Alive /\ sock'[o] = sock[o] /\ sock[o].holder # t
    BY <2>1 DEF Alive, Held
  <2>3. \A o \in Alive : sock[o].holder \in Threads
    BY DEF Alive, IInv, TypeOK
  <2> QED BY <2>1, <2>2, <2>3 DEF HoldersRun
<1> QED BY <1>6, <1>7, <1>8, <1>9, <1>10, <1>11, <1>12, <1>13, <1>14 DEF Step

\* Every step keeps the invariant of the leak theorem.
LEMMA NextLInv ==
  ASSUME NoLateThrow
  PROVE  LInv /\ [Next]_vars => LInv'
<1> SUFFICES ASSUME LInv, [Next]_vars PROVE AllOwned' /\ HoldersRun' /\ LenFits'
  BY NextHolds DEF LInv
<1>1. ASSUME UNCHANGED <<fdTable, sock, pc, frame>>
      PROVE  AllOwned' /\ HoldersRun' /\ LenFits'
  BY <1>1 DEF LInv, AllOwned, OwnedFds, Alive, HoldersRun, LenFits
<1>2. ASSUME NEW t \in Threads, Step(t) PROVE AllOwned' /\ HoldersRun' /\ LenFits'
  BY <1>2, StepLeavesNone, StepHoldersRun, StepLenFits DEF LInv
<1>3. ASSUME NEW l \in Endpoints, RemoteConnect(l) PROVE UNCHANGED <<fdTable, sock, pc, frame>>
  BY <1>3 DEF RemoteConnect
<1>4. ASSUME NEW e \in Endpoints, RemoteReset(e) \/ Expire(e)
      PROVE  UNCHANGED <<fdTable, sock, pc, frame>>
  BY <1>4 DEF RemoteReset, Expire
<1> QED BY <1>1, <1>2, <1>3, <1>4 DEF Next, vars

(***************************************************************************)
(* When nothing throws late, every open descriptor has an owner, and every *)
(* Socket a thread that will let go of it.                                 *)
(***************************************************************************)
THEOREM NoLeak ==
  ASSUME NoLateThrow
  PROVE  Spec => []NoDescriptorLeak
<1>1. LInv => NoDescriptorLeak
  BY DEF LInv, AllOwned, HoldersRun, NoDescriptorLeak
<1> QED BY <1>1, InitLInv, NextLInv, PTL DEF Spec
=============================================================================
