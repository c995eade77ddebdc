------------------------- MODULE SocketsCustodyProof -------------------------
(***************************************************************************)
(* Sockets implements DescriptorCustody: each step on a descriptor is one  *)
(* that the abstract specification knows, or none that it sees.            *)
(***************************************************************************)
EXTENDS SocketsOpenProof

\* An object without a holder owns nothing.
DeadHaveNone == \A o \in Objects \ Alive : sock[o].fd = NoFd

CustodyStep == [Custody!Next]_(Custody!vars)
-----------------------------------------------------------------------------
(***************************************************************************)
(* The three variables of the abstract specification, step by step.        *)
(***************************************************************************)

\* What the mapping reads is what is there.
LEMMA Mapped ==
  /\ \A o \in Objects : SocketFds[o] = sock[o].fd
  /\ \A t \in Threads : CallFds[t] = frame[t].fd
  /\ \A f : f \in UsedFds <=> f \in Fds /\ fdTable[f] # NoEndpoint
BY DEF SocketFds, CallFds, UsedFds

\* Nothing changes hands when none of the three does.
LEMMA CustodyStutters ==
  ASSUME fdTable' = fdTable, \A o \in Objects : sock'[o].fd = sock[o].fd,
         \A t \in Threads : frame'[t].fd = frame[t].fd
  PROVE  UNCHANGED <<UsedFds, SocketFds, CallFds>> /\ CustodyStep
<1>1. UsedFds' = UsedFds
  BY DEF UsedFds
<1>2. SocketFds' = SocketFds
  BY DEF SocketFds
<1>3. CallFds' = CallFds
  BY DEF CallFds
<1> QED BY <1>1, <1>2, <1>3 DEF CustodyStep, Custody!vars

\* The kernel gives out a number.
LEMMA GivenOut ==
  ASSUME IInv, NEW f \in FreeFds, NEW e \in Endpoints, fdTable' = [fdTable EXCEPT ![f] = e]
  PROVE  Custody!GiveOut(f)
<1>1. f \in Fds /\ fdTable[f] = NoEndpoint /\ e # NoEndpoint
  BY ConstantsAssumption DEF FreeFds
<1>2. fdTable'[f] = e /\ \A g \in Fds : g # f => fdTable'[g] = fdTable[g]
  BY <1>1, Types
<1>3. UsedFds' = UsedFds \cup {f}
  BY <1>1, <1>2 DEF UsedFds
<1>4. f \in Fds \ UsedFds
  BY <1>1, Mapped
<1> QED BY <1>3, <1>4 DEF Custody!GiveOut

\* One Socket gets a number, the others keep theirs.
LEMMA SocketGets ==
  ASSUME IInv, NEW o \in Objects, NEW r, sock' = [sock EXCEPT ![o] = r]
  PROVE  SocketFds' = [SocketFds EXCEPT ![o] = r.fd]
<1>1. sock'[o] = r /\ \A p \in Objects : p # o => sock'[p] = sock[p]
  BY Types
<1>2. \A p \in Objects : sock'[p].fd = IF p = o THEN r.fd ELSE sock[p].fd
  BY <1>1
<1>3. SocketFds' = [p \in Objects |-> IF p = o THEN r.fd ELSE sock[p].fd]
  BY <1>2 DEF SocketFds
<1> QED BY <1>3 DEF SocketFds

\* One call gets a number, or loses it.
LEMMA CallGets ==
  ASSUME NEW t \in Threads, NEW f, frame'[t].fd = f,
         \A u \in Threads : u # t => frame'[u].fd = frame[u].fd
  PROVE  CallFds' = [CallFds EXCEPT ![t] = f]
BY DEF CallFds

\* A call has returned.
LEMMA CallReturns ==
  ASSUME IInv, NEW t \in Threads, Returns(t)
  PROVE  /\ CallFds' = [CallFds EXCEPT ![t] = NoFd]
         /\ frame[t].fd = NoFd => \A u \in Threads : frame'[u].fd = frame[u].fd
<1>1. frame'[t].fd = NoFd /\ \A u \in Threads : u # t => frame'[u] = frame[u]
  BY ReturnEffect DEF NoFrame
<1>2. CallFds' = [CallFds EXCEPT ![t] = NoFd]
  BY <1>1, CallGets
<1> QED BY <1>1, <1>2

-----------------------------------------------------------------------------
(***************************************************************************)
(* Sockets that are made and unmade.                                       *)
(***************************************************************************)

\* The Socket(Address) constructor owns what socket() returned, if anything.
LEMMA ConstructOwns ==
  ASSUME IInv, DeadHaveNone, NEW t \in Threads, NEW o \in Objects, NEW k, NEW a,
         NEW opened, NEW reuse, Construct(t, o, k, a, opened, reuse),
         \A u \in Threads : frame'[u].fd = frame[u].fd
  PROVE  DeadHaveNone' /\ CustodyStep
<1> DEFINE new(f, e) == NewSocket(t, k, f, e, a, opened, reuse, TRUE)
<1>1. \A f, e : new(f, e).fd = f /\ new(f, e).holder = t
  BY DEF NewSocket
<1> HIDE DEF new
<1>2. o \notin Alive /\ sock[o].fd = NoFd
  BY DEF Construct, DeadHaveNone
<1>3. ASSUME NEW f, NEW e, sock' = [sock EXCEPT ![o] = new(f, e)]
      PROVE  DeadHaveNone' /\ SocketFds' = [SocketFds EXCEPT ![o] = f]
  <2>1. sock'[o] = new(f, e) /\ \A p \in Objects : p # o => sock'[p] = sock[p]
    BY <1>3, Types
  <2>2. sock'[o].holder # NoThread
    BY <1>1, <2>1, ConstantsAssumption
  <2>3. DeadHaveNone'
    BY <2>1, <2>2 DEF DeadHaveNone, Alive
  <2>4. SocketFds' = [SocketFds EXCEPT ![o] = new(f, e).fd]
    BY <1>3, SocketGets
  <2>5. new(f, e).fd = f
    BY <1>1
  <2>6. SocketFds' = [SocketFds EXCEPT ![o] = f]
    BY <2>4, <2>5, Zenon
  <2> QED BY <2>3, <2>6, Zenon
<1>4. CASE \E f \in FreeFds, e \in UnusedEndpoints :
             /\ fdTable' = [fdTable EXCEPT ![f] = e]
             /\ sock' = [sock EXCEPT ![o] = new(f, e)]
  <2>1. PICK f \in FreeFds, e \in UnusedEndpoints :
          /\ fdTable' = [fdTable EXCEPT ![f] = e]
          /\ sock' = [sock EXCEPT ![o] = new(f, e)]
    BY <1>4
  <2>2. f \in Fds /\ e \in Endpoints
    BY DEF FreeFds, UnusedEndpoints
  <2>3. Custody!GiveOut(f)
    BY <2>1, <2>2, GivenOut
  <2>4. DeadHaveNone' /\ SocketFds' = [SocketFds EXCEPT ![o] = f]
    BY <1>3, <2>1
  <2>5. SocketFds[o] = NoFd /\ CallFds' = CallFds
    BY <1>2, Mapped DEF CallFds
  <2>6. Custody!Own(o, f)
    BY <2>3, <2>4, <2>5 DEF Custody!Own
  <2> QED BY <2>2, <2>4, <2>6 DEF CustodyStep, Custody!Next
<1>5. CASE fdTable' = fdTable /\ sock' = [sock EXCEPT ![o] = new(NoFd, NoEndpoint)]
  <2>1. \A p \in Objects : sock'[p].fd = sock[p].fd
    <3>1. sock'[o] = new(NoFd, NoEndpoint) /\ \A p \in Objects : p # o => sock'[p] = sock[p]
      BY <1>5, Types
    <3> QED BY <1>1, <1>2, <3>1
  <2>2. DeadHaveNone'
    BY <1>3, <1>5
  <2> QED BY <1>5, <2>1, <2>2, CustodyStutters
<1> QED BY <1>4, <1>5 DEF Construct, new

\* The destructor closes what its Sockets own.
LEMMA DestroyCloses ==
  ASSUME IInv, DeadHaveNone, NEW S \in SUBSET Objects, Destroy(S),
         \A u \in Threads : frame'[u].fd = frame[u].fd
  PROVE  DeadHaveNone' /\ CustodyStep
<1> DEFINE fds == {sock[o].fd : o \in S} \ {NoFd}
<1>1. /\ fdTable' = [f \in Fds |-> IF f \in fds THEN NoEndpoint ELSE fdTable[f]]
      /\ sock' = [o \in Objects |-> IF o \in S THEN DeadSocket ELSE sock[o]]
  BY DEF Destroy
<1>2. DeadSocket.fd = NoFd /\ DeadSocket.holder = NoThread
  BY DEF DeadSocket
<1>3. DeadHaveNone'
  BY <1>1, <1>2 DEF DeadHaveNone, Alive
<1>4. SocketFds' = [o \in Objects |-> IF o \in S THEN NoFd ELSE SocketFds[o]]
  <2>1. \A o \in Objects : sock'[o].fd = IF o \in S THEN NoFd ELSE sock[o].fd
    BY <1>1, <1>2
  <2> QED BY <2>1, Mapped DEF SocketFds
<1>5. UsedFds' = UsedFds \ {SocketFds[o] : o \in S}
  <2>1. \A f \in Fds : f \in fds <=> f \in {SocketFds[o] : o \in S}
    BY ConstantsAssumption, Mapped
  <2>2. \A f \in Fds : fdTable'[f] = IF f \in fds THEN NoEndpoint ELSE fdTable[f]
    BY <1>1
  <2> HIDE DEF fds
  <2>3. \A f : f \in UsedFds' <=> f \in UsedFds /\ f \notin {SocketFds[o] : o \in S}
    BY <2>1, <2>2 DEF UsedFds
  <2> QED BY <2>3
<1>6. CallFds' = CallFds
  BY DEF CallFds
<1>7. Custody!Close(S)
  BY <1>4, <1>5, <1>6 DEF Custody!Close
<1> QED BY <1>3, <1>7 DEF CustodyStep, Custody!Next

\* A Socket is made of the descriptor that a call holds.
LEMMA HandOverKeeps ==
  ASSUME IInv, DeadHaveNone, NEW t \in Threads, frame[t].fd # NoFd, Returns(t),
         NEW o \in Objects, NEW a, NEW known, ConstructOver(t, o, frame[t].fd, a, known),
         fdTable' = fdTable
  PROVE  DeadHaveNone' /\ CustodyStep
<1> DEFINE r == NewSocket(t, "plain", frame[t].fd, fdTable[frame[t].fd], a, FALSE, FALSE, known)
<1>1. o \notin Alive /\ sock' = [sock EXCEPT ![o] = r]
  BY DEF ConstructOver
<1>2. r.fd = frame[t].fd /\ r.holder = t
  BY DEF NewSocket
<1> HIDE DEF r
<1>3. SocketFds' = [SocketFds EXCEPT ![o] = CallFds[t]]
  <2>1. SocketFds' = [SocketFds EXCEPT ![o] = r.fd]
    BY <1>1, SocketGets
  <2>2. r.fd = CallFds[t]
    BY <1>2, Mapped
  <2> QED BY <2>1, <2>2, Zenon
<1>4. CallFds' = [CallFds EXCEPT ![t] = NoFd] /\ CallFds[t] # NoFd
  BY CallReturns, Mapped
<1>5. SocketFds[o] = NoFd
  BY <1>1, Mapped DEF DeadHaveNone
<1>6. UsedFds' = UsedFds
  BY DEF UsedFds
<1>7. Custody!Keep(t, o)
  BY <1>3, <1>4, <1>5, <1>6 DEF Custody!Keep
<1>8. DeadHaveNone'
  <2>1. sock'[o] = r /\ \A p \in Objects : p # o => sock'[p] = sock[p]
    BY <1>1, Types
  <2> QED BY <1>2, <2>1, ConstantsAssumption DEF DeadHaveNone, Alive
<1> QED BY <1>7, <1>8 DEF CustodyStep, Custody!Next

-----------------------------------------------------------------------------
(***************************************************************************)
(* Descriptors on their way.                                               *)
(***************************************************************************)

\* A call gets a descriptor from the kernel.
LEMMA TakesHolds ==
  ASSUME IInv, DeadHaveNone, NEW t \in Threads, frame[t].fd = NoFd,
         NEW f \in FreeFds, NEW e \in Endpoints, fdTable' = [fdTable EXCEPT ![f] = e],
         sock' = sock, frame'[t].fd = f,
         \A u \in Threads : u # t => frame'[u].fd = frame[u].fd
  PROVE  DeadHaveNone' /\ CustodyStep
<1>1. Custody!GiveOut(f)
  BY GivenOut
<1>2. CallFds' = [CallFds EXCEPT ![t] = f]
  BY CallGets
<1>3. CallFds[t] = NoFd /\ SocketFds' = SocketFds
  BY Mapped DEF SocketFds
<1>4. Custody!Hold(t, f)
  BY <1>1, <1>2, <1>3 DEF Custody!Hold
<1>5. f \in Fds
  BY DEF FreeFds
<1>6. DeadHaveNone'
  BY DEF DeadHaveNone, Alive
<1> QED BY <1>4, <1>5, <1>6 DEF CustodyStep, Custody!Next

\* The caller's own, and accept()'s.
LEMMA TakingSteps ==
  ASSUME IInv, DeadHaveNone, NEW t \in Threads,
         \/ ForeignDescriptor(t)
         \/ \E o \in Objects, then \in AfterAccept : AcceptTakes(t, o, then)
  PROVE  DeadHaveNone' /\ CustodyStep
<1>1. CASE ForeignDescriptor(t)
  <2>1. PICK f \in FreeFds, e \in UnusedEndpoints :
          fdTable' = [fdTable EXCEPT ![f] = e] /\ frame' = [frame EXCEPT ![t].fd = f]
    BY <1>1 DEF ForeignDescriptor
  <2>2. sock' = sock /\ pc[t] = "idle" /\ e \in Endpoints
    BY <1>1 DEF ForeignDescriptor, UnusedEndpoints
  <2>3. frame[t].fd = NoFd
    BY <2>2 DEF IInv, FrameShape, ShapeOf, NoFrame
  <2>4. frame'[t].fd = f /\ \A u \in Threads : u # t => frame'[u].fd = frame[u].fd
    BY <2>1, Types DEF FrameRecord
  <2> QED BY <2>1, <2>2, <2>3, <2>4, TakesHolds
<1>2. CASE \E o \in Objects, then \in AfterAccept : AcceptTakes(t, o, then)
  <2>1. PICK o \in Objects, then \in AfterAccept : AcceptTakes(t, o, then)
    BY <1>2
  <2>2. PICK f \in FreeFds, e \in UnusedEndpoints :
          /\ fdTable' = [fdTable EXCEPT ![f] = e] /\ sock' = sock
          /\ frame[t].fd = NoFd /\ frame'[t].fd = f
          /\ \A u \in Threads : u # t => frame'[u] = frame[u] /\ pc'[u] = pc[u]
    BY <2>1, AcceptTakesEffect
  <2>3. e \in Endpoints /\ \A u \in Threads : u # t => frame'[u].fd = frame[u].fd
    BY <2>2 DEF UnusedEndpoints
  <2> QED BY <2>2, <2>3, TakesHolds
<1> QED BY <1>1, <1>2

\* From the accepting thread into the closure of the new one.
LEMMA SpawnHandsOn ==
  ASSUME IInv, DeadHaveNone, NEW t \in Threads, NEW n \in Threads, Spawn(t, n)
  PROVE  DeadHaveNone' /\ CustodyStep
<1>1. /\ UNCHANGED <<fdTable, sock>> /\ t # n
      /\ pc[t] = "acceptedInNewThread" /\ Verdict(t) = "none"
      /\ frame[n] = NoFrame /\ frame'[t] = NoFrame /\ frame'[n] = frame[t]
      /\ \A u \in Threads : u \notin {t, n} => frame'[u] = frame[u] /\ pc'[u] = pc[u]
  BY SpawnEffect
<1>2. frame[t].fd # NoFd
  BY <1>1, VerdictNone, ConstantsAssumption DEF AfterAccept
<1>3. NoFrame.fd = NoFd
  BY DEF NoFrame
<1>4. CallFds' = [CallFds EXCEPT ![t] = NoFd, ![n] = CallFds[t]]
  <2>1. \A u \in Threads : frame'[u].fd = IF u = n THEN frame[t].fd
                                          ELSE IF u = t THEN NoFd ELSE frame[u].fd
    BY <1>1, <1>3
  <2>2. CallFds' = [u \in Threads |-> IF u = n THEN frame[t].fd
                                      ELSE IF u = t THEN NoFd ELSE frame[u].fd]
    BY <2>1 DEF CallFds
  <2> QED BY <2>2 DEF CallFds
<1>5. CallFds[t] # NoFd /\ CallFds[n] = NoFd
  BY <1>1, <1>2, <1>3, Mapped
<1>6. UNCHANGED <<UsedFds, SocketFds>> /\ DeadHaveNone'
  BY <1>1 DEF UsedFds, SocketFds, DeadHaveNone, Alive
<1>7. Custody!HandOn(t, n)
  BY <1>4, <1>5, <1>6 DEF Custody!HandOn
<1> QED BY <1>6, <1>7 DEF CustodyStep, Custody!Next

\* An exception with a descriptor in hand.
LEMMA ThrowDrops ==
  ASSUME IInv, DeadHaveNone, MayThrowLate \/ LenFits, NEW t \in Threads,
         AcceptThrows(t) \/ SpawnThrows(t)
  PROVE  DeadHaveNone' /\ CustodyStep
<1>1. /\ pc[t] \in AfterAccept /\ Returns(t) /\ UNCHANGED <<fdTable, sock>>
      /\ Verdict(t) # "none" \/ SpawnMayFail
  BY DEF AcceptThrows, SpawnThrows, AfterAccept
<1>2. DeadHaveNone' /\ UNCHANGED <<UsedFds, SocketFds>>
  BY <1>1 DEF DeadHaveNone, Alive, UsedFds, SocketFds
<1>3. CASE frame[t].fd = NoFd
  BY <1>1, <1>2, <1>3, CallReturns, CustodyStutters
<1>4. CASE frame[t].fd # NoFd
  <2>1. MayThrowLate
    <3>1. CASE LenFits
      <4>1. Verdict(t) = "none"
        BY <1>1, <1>4, <3>1, FittingNameTaken DEF LenFits
      <4> QED BY <1>1, <4>1 DEF MayThrowLate
    <3> QED BY <3>1
  <2>2. CallFds' = [CallFds EXCEPT ![t] = NoFd] /\ CallFds[t] # NoFd
    BY <1>1, <1>4, CallReturns, Mapped
  <2>3. Custody!Drop(t)
    BY <1>2, <2>1, <2>2 DEF Custody!Drop
  <2> QED BY <1>2, <2>3 DEF CustodyStep, Custody!Next
<1> QED BY <1>3, <1>4

\* The thread that has a descriptor makes a Socket of it.
LEMMA MakingSteps ==
  ASSUME IInv, DeadHaveNone, NEW t \in Threads,
         \/ \E a \in Addresses : Adopt(t, a)
         \/ AcceptReturns(t)
         \/ ThreadStarts(t)
  PROVE  DeadHaveNone' /\ CustodyStep
<1>1. /\ Returns(t) /\ fdTable' = fdTable
      /\ \E o \in Objects : \E a, known : ConstructOver(t, o, frame[t].fd, a, known)
  BY DEF Adopt, AcceptReturns, ThreadStarts, Returns, kernelVars
<1>2. frame[t].fd # NoFd
  <2>1. CASE \E a \in Addresses : Adopt(t, a)
    BY <2>1, ConstantsAssumption DEF Adopt, IInv, FrameShape, ShapeOf
  <2>2. CASE AcceptReturns(t)
    BY <2>2, VerdictNone, ConstantsAssumption DEF AcceptReturns, AfterAccept
  <2>3. CASE ThreadStarts(t)
    BY <2>3, ConstantsAssumption DEF ThreadStarts, IInv, FrameShape, ShapeOf
  <2> QED BY <2>1, <2>2, <2>3
<1>3. PICK o \in Objects : \E a, known : ConstructOver(t, o, frame[t].fd, a, known)
  BY <1>1
<1>4. PICK a, known : ConstructOver(t, o, frame[t].fd, a, known)
  BY <1>3
<1> QED BY <1>1, <1>2, <1>4, HandOverKeeps
-----------------------------------------------------------------------------
(***************************************************************************)
(* The steps, and the theorem.                                             *)
(***************************************************************************)

\* The steps of open(), which hold no descriptor but the Socket's.
LEMMA OpeningSteps ==
  ASSUME IInv, DeadHaveNone, NEW t \in Threads,
         OpenSetReuse(t) \/ OpenSetReusePort(t) \/ OpenBind(t) \/ OpenListen(t) \/ OpenConnect(t)
  PROVE  DeadHaveNone' /\ CustodyStep
<1>1. pc[t] \in Opening
  BY DEF OpenSetReuse, OpenSetReusePort, OpenBind, OpenListen, OpenConnect, Opening
<1>2. frame[t].fd = NoFd /\ frame[t].obj \in Objects
  BY <1>1 DEF IInv, FrameShape, ShapeOf
<1>3. CASE Unwind(t)
  <2>1. Destroy({frame[t].obj}) /\ Returns(t)
    BY <1>3 DEF Unwind
  <2>2. \A u \in Threads : frame'[u].fd = frame[u].fd
    BY <1>2, <2>1, CallReturns
  <2>3. {frame[t].obj} \in SUBSET Objects
    BY <1>2
  <2> QED BY <2>1, <2>2, <2>3, DestroyCloses
<1>4. CASE ~Unwind(t)
  <2>1. sock' = sock /\ fdTable' = fdTable
    BY <1>4 DEF OpenSetReuse, OpenSetReusePort, OpenBind, OpenListen, OpenConnect,
                BindEndpoint, ListenEndpoint, ConnectEndpoint
  <2>2. frame' = frame \/ Returns(t)
    BY <1>4 DEF OpenSetReuse, OpenSetReusePort, OpenBind, OpenListen, OpenConnect
  <2>3. \A u \in Threads : frame'[u].fd = frame[u].fd
    BY <1>2, <2>2, CallReturns
  <2>4. DeadHaveNone'
    BY <2>1 DEF DeadHaveNone, Alive
  <2> QED BY <2>1, <2>3, <2>4, CustodyStutters
<1> QED BY <1>3, <1>4

\* Each step of a thread.
LEMMA StepCustody ==
  ASSUME IInv, DeadHaveNone, MayThrowLate \/ LenFits, NEW t \in Threads, Step(t)
  PROVE  DeadHaveNone' /\ CustodyStep
<1>1. CASE \/ \E k \in Kinds, a \in Addresses : Create(t, k, a)
           \/ \E k \in Kinds, a \in Addresses, reuse \in BOOLEAN : Open(t, k, a, reuse)
  <2>1. PICK o \in Objects :
          /\ \E k, a, opened, reuse : Construct(t, o, k, a, opened, reuse)
          /\ frame' = frame \/ frame' = [frame EXCEPT ![t].obj = o]
    BY <1>1 DEF Create, Open
  <2>2. PICK k, a, opened, reuse : Construct(t, o, k, a, opened, reuse)
    BY <2>1
  <2>3. \A u \in Threads : frame'[u].fd = frame[u].fd
    BY <2>1, Types DEF FrameRecord
  <2> QED BY <2>2, <2>3, ConstructOwns
<1>2. CASE (\E o \in Objects : Release(t, o)) \/ ThreadReturns(t)
  <2>1. PICK S \in SUBSET Objects : Destroy(S)
    BY <1>2 DEF Release, ThreadReturns, Held
  <2>2. frame' = frame
    BY <1>2 DEF Release, ThreadReturns
  <2> QED BY <2>1, <2>2, DestroyCloses
<1>3. CASE \E o \in Objects : Bind(t, o) \/ Listen(t, o) \/ Connect(t, o)
  <2>1. UNCHANGED <<fdTable, sock, frame>>
    BY <1>3 DEF Bind, Listen, Connect, BindEndpoint, ListenEndpoint, ConnectEndpoint
  <2>2. DeadHaveNone'
    BY <2>1 DEF DeadHaveNone, Alive
  <2> QED BY <2>1, <2>2, CustodyStutters
<1>4. CASE \E o \in Objects, then \in AfterAccept :
             AcceptFails(t, o, then) \/ AcceptDrops(t, o, then)
  <2>1. /\ UNCHANGED <<fdTable, sock>> /\ frame[t].fd = NoFd /\ frame'[t].fd = NoFd
        /\ \A u \in Threads : u # t => frame'[u] = frame[u] /\ pc'[u] = pc[u]
    BY <1>4, NoConnectionEffect
  <2>2. DeadHaveNone' /\ \A u \in Threads : frame'[u].fd = frame[u].fd
    BY <2>1 DEF DeadHaveNone, Alive
  <2> QED BY <2>1, <2>2, CustodyStutters
<1>5. CASE OpenSetReuse(t) \/ OpenSetReusePort(t) \/ OpenBind(t) \/ OpenListen(t) \/ OpenConnect(t)
  BY <1>5, OpeningSteps
<1>6. CASE \/ ForeignDescriptor(t)
           \/ \E o \in Objects, then \in AfterAccept : AcceptTakes(t, o, then)
  BY <1>6, TakingSteps
<1>7. CASE \E n \in Threads : Spawn(t, n)
  BY <1>7, SpawnHandsOn
<1>8. CASE AcceptThrows(t) \/ SpawnThrows(t)
  BY <1>8, ThrowDrops
<1>9. CASE (\E a \in Addresses : Adopt(t, a)) \/ AcceptReturns(t) \/ ThreadStarts(t)
  BY <1>9, MakingSteps
<1> QED BY <1>1, <1>2, <1>3, <1>4, <1>5, <1>6, <1>7, <1>8, <1>9 DEF Step

\* Initially nothing is open.
LEMMA InitCustody == Init => Custody!Init /\ DeadHaveNone
<1> SUFFICES ASSUME Init PROVE Custody!Init /\ DeadHaveNone
  OBVIOUS
<1>1. /\ \A o \in Objects : sock[o].fd = NoFd
      /\ \A t \in Threads : frame[t].fd = NoFd
      /\ \A f \in Fds : fdTable[f] = NoEndpoint
  BY DEF Init, DeadSocket, NoFrame
<1> QED BY <1>1 DEF Custody!Init, DeadHaveNone, UsedFds, SocketFds, CallFds

\* What other processes do changes no descriptor.
LEMMA NextCustody ==
  IInv /\ DeadHaveNone /\ (MayThrowLate \/ LenFits) /\ [Next]_vars
    => DeadHaveNone' /\ [Custody!Next]_(Custody!vars)
<1> SUFFICES ASSUME IInv, DeadHaveNone, MayThrowLate \/ LenFits, [Next]_vars
             PROVE  DeadHaveNone' /\ CustodyStep
  BY DEF CustodyStep
<1>1. CASE \E t \in Threads : Step(t)
  BY <1>1, StepCustody
<1>2. CASE UNCHANGED <<fdTable, sock, frame>>
  <2>1. DeadHaveNone'
    BY <1>2 DEF DeadHaveNone, Alive
  <2> QED BY <1>2, <2>1, CustodyStutters
<1> QED BY <1>1, <1>2 DEF Next, RemoteConnect, RemoteReset, Expire, vars

(***************************************************************************)
(* Sockets implements DescriptorCustody (CustodyKept): numbers pass from   *)
(* hand to hand as it says, and calls forget one only where something can  *)
(* throw after accept().                                                   *)
(***************************************************************************)
THEOREM CustodyImplemented == Spec => CustodyKept
<1>1. CASE MayThrowLate
  BY <1>1, Invariance, InitCustody, NextCustody, PTL DEF Spec, CustodyKept, Custody!Spec
<1>2. CASE ~MayThrowLate
  <2>1. NoLateThrow
    BY <1>2, LensAssumption DEF MayThrowLate, NoLateThrow, BufferLen
  <2>2. LInv /\ [Next]_vars => LInv'
    BY <2>1, NextLInv
  <2>3. LInv => IInv /\ LenFits
    BY DEF LInv
  <2> QED BY <2>2, <2>3, InitLInv, InitCustody, NextCustody, PTL
          DEF Spec, CustodyKept, Custody!Spec
<1> QED BY <1>1, <1>2
=============================================================================
