--------------------------- MODULE SocketsOpenProof ---------------------------
(***************************************************************************)
(* Proofs about Sockets: what open() delivers, who shares an address, and  *)
(* whom reuse protects.                                                    *)
(***************************************************************************)
EXTENDS SocketsProof

(***************************************************************************)
(* The descriptor table: an endpoint is reached through one descriptor at  *)
(* most, and none that is open reaches an endpoint that is not.            *)
(***************************************************************************)
TableApart ==
  /\ \A f, g \in Fds : f # g /\ fdTable[f] # NoEndpoint => fdTable[f] # fdTable[g]
  /\ \A f \in Fds : fdTable[f] # NoEndpoint =>
       ep[fdTable[f]].st \notin {"unused", "waiting", "closed"}

\* An endpoint gets its address from bind(), and options when it exists.
EndpointsFresh ==
  \A e \in Endpoints :
    /\ ep[e].st \in {"unused", "created"} => ep[e].addr = NoAddress
    /\ ep[e].st = "unused" => ~ep[e].reuse

Named(e) == ep[e].st \in {"bound", "listening"} /\ ep[e].addr \in Addresses

\* Two endpoints have one address only if both allow it.
AddressConsent ==
  \A e, d \in Endpoints : e # d /\ Named(e) /\ Named(d) /\ ep[e].addr = ep[d].addr =>
    ep[e].reuse /\ ep[d].reuse

\* A Socket of open() has the option set only if open() was asked for it.
ReuseAsked(o) ==
  sock[o].opened /\ Target(o) \in Endpoints /\ ep[Target(o)].reuse => sock[o].reuse

\* What open() delivers, for one Socket.
Delivered(o) ==
  sock[o].opened =>
    /\ Target(o) \in Endpoints
    /\ sock[o].kind = "client" => ep[Target(o)].st = "connected"
    /\ sock[o].kind = "server" =>
         /\ ep[Target(o)].st = "listening" /\ ep[Target(o)].addr = sock[o].addr
         /\ sock[o].reuse => ep[Target(o)].reuse

\* How far open() has got with Socket o when its next call is that of `place'.
StageAt(o, place) ==
  /\ sock[o].opened
  /\ sock[o].kind = IF place = "connecting" THEN "client" ELSE "server"
  /\ place \in {"settingReuse", "settingReusePort", "binding"} /\ Target(o) \in Endpoints =>
       ep[Target(o)].st = "created"
  /\ place \in {"settingReuse", "settingReusePort"} => sock[o].reuse
  /\ place = "binding" /\ sock[o].reuse => Target(o) \in Endpoints /\ ep[Target(o)].reuse
  /\ place = "listening" =>
       /\ Target(o) \in Endpoints
       /\ ep[Target(o)].st = "bound" /\ ep[Target(o)].addr = sock[o].addr
       /\ sock[o].reuse => ep[Target(o)].reuse

OpenStages == \A t \in Threads : pc[t] \in Opening => StageAt(frame[t].obj, pc[t])

SocketsAsked == \A o \in Alive : ReuseAsked(o)

SocketsDelivered == \A o \in Alive : OpenInProgress(o) \/ Delivered(o)

KernelInv == TableApart /\ EndpointsFresh /\ AddressConsent

OpenInv == OpenStages /\ SocketsAsked /\ SocketsDelivered

OInv == IInv /\ KernelInv /\ OpenInv

HIDE DEF SocketRecord, DeadSocket, EndpointStates, EndpointRecord, FrameRecord,
         NoFrame, Places, Opening, Kinds, AfterAccept, ShapeOf

\* What the proofs below use of the types.
LEMMA Types ==
  ASSUME IInv
  PROVE  /\ fdTable \in [Fds -> Endpoints \cup {NoEndpoint}]
         /\ ep \in [Endpoints -> EndpointRecord]
         /\ sock \in [Objects -> SocketRecord]
         /\ pc \in [Threads -> Places]
         /\ frame \in [Threads -> FrameRecord]
  BY DEF IInv, TypeOK

\* A Socket's descriptor, if it has one, reaches an endpoint.
LEMMA TargetReached ==
  ASSUME IInv, NEW o \in Alive
  PROVE  /\ o \in Objects /\ sock[o].addr \in Addresses
         /\ sock[o].fd = NoFd => Target(o) = NoEndpoint
         /\ sock[o].fd # NoFd =>
              /\ sock[o].fd \in Fds /\ Target(o) = fdTable[sock[o].fd]
              /\ Target(o) \in Endpoints
         /\ Target(o) \in Endpoints <=> Target(o) # NoEndpoint
<1>1. o \in Objects /\ sock[o].addr \in Addresses
  BY DEF Alive, IInv, AliveShape
<1>2. sock[o].fd \in Fds \cup {NoFd}
  BY <1>1 DEF IInv, TypeOK, SocketRecord
<1>3. sock[o].fd # NoFd => fdTable[sock[o].fd] \in Endpoints
  BY DEF IInv, HandlesValid
<1> QED BY <1>1, <1>2, <1>3, ConstantsAssumption DEF Target

\* Two Sockets never share an endpoint, and none is of an endpoint not open.
LEMMA TargetsApart ==
  ASSUME IInv, TableApart, NEW o \in Alive, Target(o) \in Endpoints
  PROVE  /\ ep[Target(o)].st \notin {"unused", "waiting", "closed"}
         /\ \A p \in Alive : p # o => Target(p) # Target(o)
<1>1. sock[o].fd \in Fds /\ Target(o) = fdTable[sock[o].fd] /\ Target(o) # NoEndpoint
  BY TargetReached
<1>2. ASSUME NEW p \in Alive, p # o, Target(p) = Target(o) PROVE FALSE
  <2>1. sock[p].fd \in Fds /\ Target(p) = fdTable[sock[p].fd] /\ sock[p].fd # NoFd
    BY <1>2, TargetReached
  <2>2. sock[p].fd # sock[o].fd
    BY <1>2, <2>1 DEF IInv, OneOwner
  <2> QED BY <1>1, <1>2, <2>1, <2>2 DEF TableApart
<1> QED BY <1>1, <1>2 DEF TableApart

\* The Socket of an open() is its thread's; no other call has a Socket.
LEMMA OpenedByHolder ==
  ASSUME IInv, NEW t \in Threads
  PROVE  /\ pc[t] \in Opening => /\ frame[t].obj \in Alive /\ frame[t].obj # NoObject
                                 /\ sock[frame[t].obj].holder = t
         /\ pc[t] \notin Opening => frame[t].obj = NoObject
<1>1. ShapeOf(t)
  BY DEF IInv, FrameShape
<1> QED BY <1>1, ConstantsAssumption DEF ShapeOf, Alive
-----------------------------------------------------------------------------
(***************************************************************************)
(* What a step leaves alone.  A connection's own address does not matter.  *)
(***************************************************************************)
SameFace(e) ==
  /\ ep'[e].st = ep[e].st /\ ep'[e].reuse = ep[e].reuse
  /\ ep[e].st # "connected" => ep'[e].addr = ep[e].addr

Kept(o) ==
  /\ o \in Alive
  /\ sock'[o] = sock[o]
  /\ Target(o)' = Target(o)
  /\ Target(o) \in Endpoints => SameFace(Target(o))

\* What is said of a Socket depends on the Socket and its endpoint's face.
LEMMA KeptSocket ==
  ASSUME NEW o, Kept(o)
  PROVE  /\ ReuseAsked(o) => ReuseAsked(o)'
         /\ Delivered(o) => Delivered(o)'
         /\ \A place : StageAt(o, place) => StageAt(o, place)'
<1>1. ReuseAsked(o) => ReuseAsked(o)'
  BY DEF Kept, SameFace, ReuseAsked
<1>2. Delivered(o) => Delivered(o)'
  BY DEF Kept, SameFace, Delivered
<1>3. ASSUME NEW place, StageAt(o, place) PROVE StageAt(o, place)'
  BY <1>3 DEF Kept, SameFace, StageAt
<1> QED BY <1>1, <1>2, <1>3

(***************************************************************************)
(* A step keeps what is said of the Sockets when it does so for those it   *)
(* touches, T, and for the open() that it is a step of.                    *)
(***************************************************************************)
LEMMA SocketsKept ==
  ASSUME OInv, IInv', NEW T,
         \A o \in Alive' : o \notin T => Kept(o) /\ (OpenInProgress(o) => OpenInProgress(o)'),
         \A o \in Alive' : o \in T => ReuseAsked(o)' /\ (OpenInProgress(o)' \/ Delivered(o)'),
         \A t \in Threads : pc'[t] \in Opening =>
           \/ pc'[t] = pc[t] /\ frame'[t].obj = frame[t].obj /\ frame[t].obj \notin T
           \/ StageAt(frame[t].obj, pc[t])'
  PROVE  OpenInv'
<1>1. SocketsAsked'
  <2> SUFFICES ASSUME NEW o \in Alive' PROVE ReuseAsked(o)'
    BY DEF SocketsAsked
  <2>1. CASE o \in T
    BY <2>1
  <2>2. CASE o \notin T
    <3>1. Kept(o) /\ o \in Alive
      BY <2>2 DEF Kept
    <3>2. ReuseAsked(o)
      BY <3>1 DEF OInv, OpenInv, SocketsAsked
    <3> QED BY <3>1, <3>2, KeptSocket
  <2> QED BY <2>1, <2>2
<1>2. SocketsDelivered'
  <2> SUFFICES ASSUME NEW o \in Alive' PROVE OpenInProgress(o)' \/ Delivered(o)'
    BY DEF SocketsDelivered
  <2>1. CASE o \in T
    BY <2>1
  <2>2. CASE o \notin T
    <3>1. Kept(o) /\ o \in Alive
      BY <2>2 DEF Kept
    <3>2. OpenInProgress(o) \/ Delivered(o)
      BY <3>1 DEF OInv, OpenInv, SocketsDelivered
    <3>3. OpenInProgress(o) => OpenInProgress(o)'
      BY <2>2
    <3> QED BY <3>1, <3>2, <3>3, KeptSocket
  <2> QED BY <2>1, <2>2
<1>3. OpenStages'
  <2> SUFFICES ASSUME NEW t \in Threads, pc'[t] \in Opening
               PROVE  StageAt(frame[t].obj, pc[t])'
    BY DEF OpenStages
  <2>1. CASE pc'[t] = pc[t] /\ frame'[t].obj = frame[t].obj /\ frame[t].obj \notin T
    <3>1. StageAt(frame[t].obj, pc[t])
      BY <2>1 DEF OInv, OpenInv, OpenStages
    <3>2. (frame[t].obj \in Alive)'
      <4>1. ShapeOf(t)'
        BY DEF IInv, FrameShape
      <4> QED BY <4>1, ConstantsAssumption DEF ShapeOf, Alive
    <3> DEFINE o == frame[t].obj
               place == pc[t]
    <3>3. Kept(o)
      BY <2>1, <3>2
    <3>4. frame'[t].obj = o /\ pc'[t] = place
      BY <2>1
    <3> HIDE DEF o, place
    <3> QED BY <3>1, <3>3, <3>4, KeptSocket DEF o, place
  <2> QED BY <2>1
<1> QED BY <1>1, <1>2, <1>3 DEF OpenInv
-----------------------------------------------------------------------------
(***************************************************************************)
(* The kernel's side, step by step.                                        *)
(***************************************************************************)

\* An open descriptor reaches an endpoint that is neither unused nor closed.
LEMMA OpenFds ==
  ASSUME IInv, TableApart, NEW f \in Fds, fdTable[f] # NoEndpoint
  PROVE  /\ fdTable[f] \in Endpoints
         /\ ep[fdTable[f]].st \notin {"unused", "waiting", "closed"}
  BY Types DEF TableApart

\* Queues may change, faces not.
LEMMA FacesKept ==
  ASSUME IInv, KernelInv, fdTable' = fdTable, \A e \in Endpoints : SameFace(e)
  PROVE  KernelInv'
<1>1. TableApart'
  BY OpenFds DEF KernelInv, TableApart, SameFace
<1>2. EndpointsFresh'
  BY DEF KernelInv, EndpointsFresh, SameFace
<1>3. AddressConsent'
  BY DEF KernelInv, AddressConsent, Named, SameFace
<1> QED BY <1>1, <1>2, <1>3 DEF KernelInv

\* socket() or accept(): an endpoint that was not used yet is reached.
LEMMA EndpointOpened ==
  ASSUME IInv, KernelInv, NEW f \in Fds, fdTable[f] = NoEndpoint,
         NEW e \in Endpoints, ep[e].st = "unused",
         fdTable' = [fdTable EXCEPT ![f] = e],
         ep'[e].st = "connected" \/ (ep'[e].st = "created" /\ ep'[e].addr = ep[e].addr),
         \A d \in Endpoints : d # e => SameFace(d)
  PROVE  KernelInv'
<1>1. fdTable'[f] = e /\ \A g \in Fds : g # f => fdTable'[g] = fdTable[g]
  BY Types
<1>2. \A g \in Fds : fdTable[g] # NoEndpoint =>
        /\ fdTable[g] # e /\ fdTable[g] \in Endpoints /\ SameFace(fdTable[g])
        /\ ep[fdTable[g]].st \notin {"unused", "waiting", "closed"}
  BY OpenFds DEF KernelInv
<1>3. TableApart'
  <2>1. ASSUME NEW g \in Fds, NEW h \in Fds, g # h, fdTable'[g] # NoEndpoint
        PROVE  fdTable'[g] # fdTable'[h]
    BY <1>1, <1>2, <2>1 DEF KernelInv, TableApart
  <2>2. ASSUME NEW g \in Fds, fdTable'[g] # NoEndpoint
        PROVE  ep'[fdTable'[g]].st \notin {"unused", "waiting", "closed"}
    <3>1. CASE g = f
      BY <1>1, <3>1
    <3>2. CASE g # f
      BY <1>1, <1>2, <2>2, <3>2 DEF SameFace
    <3> QED BY <3>1, <3>2
  <2> QED BY <2>1, <2>2 DEF TableApart
<1>4. EndpointsFresh'
  BY DEF KernelInv, EndpointsFresh, SameFace
<1>5. AddressConsent'
  <2>1. ~Named(e)'
    BY DEF Named
  <2>2. \A d \in Endpoints : Named(d)' =>
          Named(d) /\ ep'[d].addr = ep[d].addr /\ ep'[d].reuse = ep[d].reuse
    BY <2>1 DEF Named, SameFace
  <2> QED BY <2>2 DEF KernelInv, AddressConsent
<1> QED BY <1>3, <1>4, <1>5 DEF KernelInv

\* setsockopt() on an endpoint that has no address yet.
LEMMA ReuseSet ==
  ASSUME IInv, KernelInv, NEW e \in Endpoints, ep[e].st = "created",
         ep' = [ep EXCEPT ![e].reuse = TRUE], fdTable' = fdTable
  PROVE  /\ KernelInv'
         /\ ep'[e].st = "created" /\ ep'[e].reuse
         /\ \A d \in Endpoints : d # e => SameFace(d)
<1>1. /\ ep'[e].st = "created" /\ ep'[e].reuse /\ ep'[e].addr = ep[e].addr
      /\ \A d \in Endpoints : d # e => ep'[d] = ep[d]
  BY Types DEF EndpointRecord
<1>2. \A d \in Endpoints : ep'[d].st = ep[d].st /\ ep'[d].addr = ep[d].addr
  BY <1>1
<1>3. TableApart'
  BY <1>2, OpenFds DEF KernelInv, TableApart
<1>4. EndpointsFresh'
  BY <1>1, <1>2 DEF KernelInv, EndpointsFresh
<1>5. AddressConsent'
  BY <1>1, <1>2 DEF KernelInv, AddressConsent, Named
<1> QED BY <1>1, <1>3, <1>4, <1>5 DEF KernelInv, SameFace

\* What bind(), listen() and connect() do to endpoint e.
LEMMA EndpointCallEffect ==
  ASSUME IInv, NEW e, NEW a \in Addresses
  PROVE  /\ BindEndpoint(e, a) =>
              /\ e \in Endpoints /\ ep[e].st = "created"
              /\ ep'[e].st = "bound" /\ ep'[e].addr = a /\ ep'[e].reuse = ep[e].reuse
         /\ ListenEndpoint(e, a) =>
              /\ e \in Endpoints /\ ep[e].st \in {"created", "bound", "listening"}
              /\ ep'[e].st = "listening"
              /\ ep'[e].addr = ep[e].addr /\ ep'[e].reuse = ep[e].reuse
         /\ ConnectEndpoint(e, a) =>
              /\ e \in Endpoints /\ ep[e].st = "created" /\ ep'[e].st = "connected"
              /\ ep'[e].addr = ep[e].addr /\ ep'[e].reuse = ep[e].reuse
         /\ BindEndpoint(e, a) \/ ListenEndpoint(e, a) \/ ConnectEndpoint(e, a) =>
              fdTable' = fdTable /\ \A d \in Endpoints : d # e => SameFace(d)
<1>1. ASSUME BindEndpoint(e, a)
      PROVE  /\ e \in Endpoints /\ ep[e].st = "created"
             /\ ep'[e].st = "bound" /\ ep'[e].addr = a /\ ep'[e].reuse = ep[e].reuse
             /\ fdTable' = fdTable /\ \A d \in Endpoints : d # e => SameFace(d)
  <2>1. /\ e \in Endpoints /\ ep[e].st = "created" /\ fdTable' = fdTable
        /\ ep' = [ep EXCEPT ![e].st = "bound", ![e].addr = a]
    BY <1>1 DEF BindEndpoint, CanBind
  <2> QED BY <2>1, Types DEF EndpointRecord, SameFace
<1>2. ASSUME ListenEndpoint(e, a)
      PROVE  /\ e \in Endpoints /\ ep[e].st \in {"created", "bound", "listening"}
             /\ ep'[e].st = "listening"
             /\ ep'[e].addr = ep[e].addr /\ ep'[e].reuse = ep[e].reuse
             /\ fdTable' = fdTable /\ \A d \in Endpoints : d # e => SameFace(d)
  <2>1. /\ e \in Endpoints /\ ep[e].st \in {"created", "bound", "listening"}
        /\ fdTable' = fdTable /\ ep' = [ep EXCEPT ![e].st = "listening"]
    BY <1>2 DEF ListenEndpoint
  <2> QED BY <2>1, Types DEF EndpointRecord, SameFace
<1>3. ASSUME ConnectEndpoint(e, a)
      PROVE  /\ e \in Endpoints /\ ep[e].st = "created" /\ ep'[e].st = "connected"
             /\ ep'[e].addr = ep[e].addr /\ ep'[e].reuse = ep[e].reuse
             /\ fdTable' = fdTable /\ \A d \in Endpoints : d # e => SameFace(d)
  <2>1. PICK l \in Endpoints :
          /\ ep[l].st = "listening"
          /\ ep' = [ep EXCEPT ![e].st = "connected", ![l].pending = @ + 1]
    BY <1>3 DEF ConnectEndpoint
  <2>2. e \in Endpoints /\ ep[e].st = "created" /\ fdTable' = fdTable /\ l # e
    BY <1>3, <2>1 DEF ConnectEndpoint
  <2>3. \A d \in Endpoints :
          /\ ep'[d].addr = ep[d].addr /\ ep'[d].reuse = ep[d].reuse
          /\ ep'[d].st = IF d = e THEN "connected" ELSE ep[d].st
    BY <2>1, <2>2, Types DEF EndpointRecord
  <2> QED BY <2>2, <2>3 DEF SameFace
<1> QED BY <1>1, <1>2, <1>3

\* They keep what is said of the endpoints: a name is given where it is free.
LEMMA EndpointCalls ==
  ASSUME IInv, KernelInv, NEW e, NEW a \in Addresses,
         BindEndpoint(e, a) \/ ListenEndpoint(e, a) \/ ConnectEndpoint(e, a)
  PROVE  KernelInv'
<1>1. /\ e \in Endpoints /\ fdTable' = fdTable
      /\ ep'[e].st \in {"bound", "listening", "connected"}
      /\ ep'[e].reuse = ep[e].reuse
      /\ \A d \in Endpoints : d # e => SameFace(d)
  BY EndpointCallEffect
<1>2. TableApart'
  <2>1. \A f \in Fds : fdTable[f] # NoEndpoint =>
          ep'[fdTable[f]].st \notin {"unused", "waiting", "closed"}
    BY <1>1, OpenFds DEF KernelInv, SameFace
  <2> QED BY <1>1, <2>1 DEF KernelInv, TableApart
<1>3. EndpointsFresh'
  BY <1>1 DEF KernelInv, EndpointsFresh, SameFace
<1>4. AddressConsent'
  <2>1. \A d \in Endpoints : d # e =>
          /\ Named(d)' <=> Named(d)
          /\ Named(d) => ep'[d].addr = ep[d].addr /\ ep'[d].reuse = ep[d].reuse
    BY <1>1 DEF Named, SameFace
  <2>2. ASSUME NEW d \in Endpoints, d # e, Named(e)', Named(d), ep'[e].addr = ep[d].addr
        PROVE  ep[e].reuse /\ ep[d].reuse
    <3>1. CASE BindEndpoint(e, a)
      <4>1. ~InUse(a, ep[e].reuse)
        BY <3>1 DEF BindEndpoint, CanBind
      <4>2. ep[d].st \in {"bound", "listening"} /\ ep[d].addr = a
        BY <2>2, <3>1, EndpointCallEffect DEF Named
      <4> QED BY <4>1, <4>2 DEF InUse, At
    <3>2. CASE ListenEndpoint(e, a)
      <4>1. Named(e) /\ ep[e].addr = ep'[e].addr
        <5>1. ep[e].st \in {"created", "bound", "listening"} /\ ep'[e].addr = ep[e].addr
          BY <3>2, EndpointCallEffect
        <5>2. ep[e].addr \in Addresses /\ ep[e].addr # NoAddress
          BY <2>2, <5>1, ConstantsAssumption DEF Named
        <5> QED BY <1>1, <5>1, <5>2 DEF Named, KernelInv, EndpointsFresh
      <4> QED BY <1>1, <2>2, <4>1 DEF KernelInv, AddressConsent
    <3>3. CASE ConnectEndpoint(e, a)
      BY <2>2, <3>3, EndpointCallEffect DEF Named
    <3> QED BY <3>1, <3>2, <3>3
  <2>3. ASSUME NEW c \in Endpoints, NEW d \in Endpoints, c # d, Named(c)', Named(d)',
               ep'[c].addr = ep'[d].addr
        PROVE  ep'[c].reuse /\ ep'[d].reuse
    <3>1. CASE c = e
      <4>1. Named(d) /\ ep'[e].addr = ep[d].addr /\ ep'[d].reuse = ep[d].reuse
        BY <2>1, <2>3, <3>1
      <4> QED BY <1>1, <2>2, <2>3, <3>1, <4>1
    <3>2. CASE d = e
      <4>1. Named(c) /\ ep'[e].addr = ep[c].addr /\ ep'[c].reuse = ep[c].reuse
        BY <2>1, <2>3, <3>2
      <4> QED BY <1>1, <2>2, <2>3, <3>2, <4>1
    <3>3. CASE c # e /\ d # e
      BY <2>1, <2>3, <3>3 DEF KernelInv, AddressConsent
    <3> QED BY <3>1, <3>2, <3>3
  <2> QED BY <2>3 DEF AddressConsent
<1> QED BY <1>2, <1>3, <1>4 DEF KernelInv
-----------------------------------------------------------------------------
(***************************************************************************)
(* A destructor closes the endpoints of its own Sockets and no other.      *)
(***************************************************************************)
LEMMA DestroyKeeps ==
  ASSUME IInv, KernelInv, NEW S \in SUBSET Alive, Destroy(S)
  PROVE  /\ KernelInv'
         /\ \A o \in Alive' : o \notin S /\ Kept(o)
<1> DEFINE fds  == {sock[o].fd : o \in S} \ {NoFd}
           gone == {fdTable[f] : f \in fds} \ {NoEndpoint}
<1>1. /\ fdTable' = [f \in Fds |-> IF f \in fds THEN NoEndpoint ELSE fdTable[f]]
      /\ sock' = [o \in Objects |-> IF o \in S THEN DeadSocket ELSE sock[o]]
      /\ \E lasting \in SUBSET gone :
           ep' = [e \in Endpoints |->
                    IF e \in lasting THEN [ep[e] EXCEPT !.st = "waiting"]
                    ELSE IF e \in gone THEN ClosedEndpoint ELSE ep[e]]
  BY DEF Destroy
<1>2. ASSUME NEW e \in Endpoints
      PROVE  /\ e \in gone => ep'[e].st \in {"waiting", "closed"}
             /\ e \notin gone => ep'[e] = ep[e]
  <2>1. PICK lasting \in SUBSET gone :
          ep' = [d \in Endpoints |->
                   IF d \in lasting THEN [ep[d] EXCEPT !.st = "waiting"]
                   ELSE IF d \in gone THEN ClosedEndpoint ELSE ep[d]]
    BY <1>1
  <2>2. [ep[e] EXCEPT !.st = "waiting"].st = "waiting" /\ ClosedEndpoint.st = "closed"
    BY Types DEF EndpointRecord, ClosedEndpoint
  <2> HIDE DEF gone
  <2>3. ep'[e] = IF e \in lasting THEN [ep[e] EXCEPT !.st = "waiting"]
                 ELSE IF e \in gone THEN ClosedEndpoint ELSE ep[e]
    BY <2>1
  <2> QED BY <2>2, <2>3
<1>3. \A f \in Fds : fdTable'[f] = IF f \in fds THEN NoEndpoint ELSE fdTable[f]
  BY <1>1
<1>4. \A f \in Fds : f \notin fds /\ fdTable[f] # NoEndpoint => fdTable[f] \notin gone
  <2>1. fds \subseteq Fds
    BY TargetReached
  <2> QED BY <2>1 DEF KernelInv, TableApart
<1> HIDE DEF fds, gone
<1>5. TableApart'
  <2>1. ASSUME NEW f \in Fds, NEW g \in Fds, f # g, fdTable'[f] # NoEndpoint
        PROVE  fdTable'[f] # fdTable'[g]
    <3>1. fdTable'[f] = fdTable[f] /\ fdTable'[g] \in {fdTable[g], NoEndpoint}
      BY <1>3, <2>1
    <3> QED BY <2>1, <3>1 DEF KernelInv, TableApart
  <2>2. ASSUME NEW f \in Fds, fdTable'[f] # NoEndpoint
        PROVE  ep'[fdTable'[f]].st \notin {"unused", "waiting", "closed"}
    <3>1. f \notin fds /\ fdTable'[f] = fdTable[f] /\ fdTable[f] # NoEndpoint
      BY <1>3, <2>2
    <3>2. fdTable[f] \in Endpoints /\ ep[fdTable[f]].st \notin {"unused", "waiting", "closed"}
      BY <3>1, OpenFds DEF KernelInv
    <3> QED BY <1>2, <1>4, <3>1, <3>2
  <2> QED BY <2>1, <2>2 DEF TableApart
<1>6. EndpointsFresh'
  <2> SUFFICES ASSUME NEW e \in Endpoints
               PROVE  /\ ep'[e].st \in {"unused", "created"} => ep'[e].addr = NoAddress
                      /\ ep'[e].st = "unused" => ~ep'[e].reuse
    BY DEF EndpointsFresh
  <2> QED BY <1>2 DEF KernelInv, EndpointsFresh
<1>7. AddressConsent'
  <2>1. \A e \in Endpoints : Named(e)' => Named(e) /\ ep'[e] = ep[e]
    BY <1>2 DEF Named
  <2> QED BY <1>2, <2>1 DEF KernelInv, AddressConsent
<1>8. ASSUME NEW o \in Alive' PROVE o \notin S /\ Kept(o)
  <2>1. o \in Objects /\ o \notin S /\ sock'[o] = sock[o]
    <3>1. o \in Objects /\ sock'[o].holder # NoThread
      BY DEF Alive
    <3> QED BY <1>1, <3>1 DEF DeadSocket
  <2>2. o \in Alive
    BY <2>1 DEF Alive
  <2>3. sock[o].fd \notin fds
    <3>1. \A p \in S : p # o => sock[p].fd = NoFd \/ sock[p].fd # sock[o].fd
      BY <2>2 DEF IInv, OneOwner
    <3> QED BY <2>1, <3>1 DEF fds
  <2>4. CASE sock[o].fd = NoFd
    BY <2>1, <2>2, <2>4, ConstantsAssumption, TargetReached DEF Kept, Target
  <2>5. CASE sock[o].fd # NoFd
    <3>1. sock[o].fd \in Fds /\ Target(o) = fdTable[sock[o].fd] /\ Target(o) \in Endpoints
      BY <2>2, <2>5, TargetReached
    <3>2. Target(o)' = Target(o)
      BY <1>3, <2>1, <2>3, <2>5, <3>1 DEF Target
    <3>3. Target(o) \notin gone
      BY <1>4, <2>3, <3>1, ConstantsAssumption
    <3>4. SameFace(Target(o))
      BY <1>2, <3>1, <3>3 DEF SameFace
    <3> QED BY <2>1, <2>2, <3>2, <3>4 DEF Kept
  <2> QED BY <2>1, <2>4, <2>5
<1> QED BY <1>5, <1>6, <1>7, <1>8 DEF KernelInv

(***************************************************************************)
(* The Socket(Address) constructor makes one Socket, whose endpoint, if    *)
(* there is one, is as socket() made it.                                   *)
(***************************************************************************)
LEMMA ConstructKeeps ==
  ASSUME IInv, KernelInv, NEW t, NEW o \in Objects, NEW k, NEW a, NEW opened, NEW reuse,
         t # NoThread, Construct(t, o, k, a, opened, reuse)
  PROVE  /\ KernelInv'
         /\ o \notin Alive
         /\ \A p \in Alive' : p # o => Kept(p)
         /\ sock'[o].kind = k /\ sock'[o].opened = opened /\ sock'[o].reuse = reuse
         /\ (Target(o) \in Endpoints => ep[Target(o)].st = "created" /\ ~ep[Target(o)].reuse)'
<1> DEFINE new(f, e) == NewSocket(t, k, f, e, a, opened, reuse, TRUE)
<1>1. \A f, e : /\ new(f, e).fd = f /\ new(f, e).kind = k /\ new(f, e).opened = opened
                /\ new(f, e).reuse = reuse
  BY DEF NewSocket
<1> HIDE DEF new
<1>2. o \notin Alive
  BY DEF Construct
<1>3. ASSUME NEW r, sock' = [sock EXCEPT ![o] = r]
      PROVE  /\ sock'[o] = r
             /\ \A p \in Alive' : p # o => p \in Alive /\ sock'[p] = sock[p]
  BY <1>3, Types DEF Alive
<1>4. ASSUME NEW f \in FreeFds, NEW e \in UnusedEndpoints,
             fdTable' = [fdTable EXCEPT ![f] = e],
             ep' = [ep EXCEPT ![e].st = "created"],
             sock' = [sock EXCEPT ![o] = new(f, e)]
      PROVE  /\ KernelInv' /\ \A p \in Alive' : p # o => Kept(p)
             /\ (Target(o) \in Endpoints =>
                   ep[Target(o)].st = "created" /\ ~ep[Target(o)].reuse)'
  <2>1. f \in Fds /\ fdTable[f] = NoEndpoint /\ e \in Endpoints /\ ep[e].st = "unused"
    BY DEF FreeFds, UnusedEndpoints
  <2>2. /\ ep'[e].st = "created" /\ ep'[e].addr = ep[e].addr /\ ep'[e].reuse = ep[e].reuse
        /\ \A d \in Endpoints : d # e => SameFace(d)
    BY <1>4, <2>1, Types DEF EndpointRecord, SameFace
  <2>3. KernelInv'
    BY <1>4, <2>1, <2>2, EndpointOpened
  <2>4. fdTable'[f] = e /\ \A g \in Fds : g # f => fdTable'[g] = fdTable[g]
    BY <1>4, <2>1, Types
  <2>5. ASSUME NEW p \in Alive', p # o PROVE Kept(p)
    <3>1. p \in Alive /\ sock'[p] = sock[p]
      BY <1>3, <1>4, <2>5
    <3>2. CASE sock[p].fd = NoFd
      BY <3>1, <3>2, TargetReached, ConstantsAssumption DEF Kept, Target
    <3>3. CASE sock[p].fd # NoFd
      <4>1. /\ sock[p].fd \in Fds /\ Target(p) = fdTable[sock[p].fd]
            /\ Target(p) \in Endpoints /\ Target(p) # NoEndpoint
        BY <3>1, <3>3, TargetReached
      <4>2. sock[p].fd # f /\ Target(p) # e
        BY <2>1, <3>1, <4>1, TargetsApart DEF KernelInv
      <4>3. Target(p)' = Target(p)
        BY <2>4, <3>1, <3>3, <4>1, <4>2 DEF Target
      <4> QED BY <2>2, <3>1, <4>1, <4>2, <4>3 DEF Kept
    <3> QED BY <3>2, <3>3
  <2>6. Target(o)' = e
    <3>1. sock'[o] = new(f, e)
      BY <1>3, <1>4
    <3>2. sock'[o].fd = f /\ f # NoFd
      BY <1>1, <2>1, <3>1, ConstantsAssumption
    <3> QED BY <2>4, <3>2 DEF Target
  <2>7. ~ep[e].reuse
    BY <2>1 DEF KernelInv, EndpointsFresh
  <2> QED BY <2>2, <2>3, <2>5, <2>6, <2>7
<1>5. ASSUME sock' = [sock EXCEPT ![o] = new(NoFd, NoEndpoint)], UNCHANGED <<fdTable, ep>>
      PROVE  /\ KernelInv' /\ \A p \in Alive' : p # o => Kept(p)
             /\ (Target(o) \in Endpoints =>
                   ep[Target(o)].st = "created" /\ ~ep[Target(o)].reuse)'
  <2>1. KernelInv'
    BY <1>5, FacesKept DEF SameFace
  <2>2. ASSUME NEW p \in Alive', p # o PROVE Kept(p)
    <3>1. p \in Alive /\ sock'[p] = sock[p]
      BY <1>3, <1>5, <2>2
    <3>2. Target(p)' = Target(p)
      BY <1>5, <3>1 DEF Target
    <3> QED BY <1>5, <3>1, <3>2 DEF Kept, SameFace
  <2>3. sock'[o].fd = NoFd
    BY <1>1, <1>3, <1>5
  <2> QED BY <2>1, <2>2, <2>3, ConstantsAssumption DEF Target
<1>6. \E f, e : sock' = [sock EXCEPT ![o] = new(f, e)]
  BY DEF Construct, new
<1>7. sock'[o].kind = k /\ sock'[o].opened = opened /\ sock'[o].reuse = reuse
  <2>1. PICK f, e : sock' = [sock EXCEPT ![o] = new(f, e)]
    BY <1>6
  <2>2. sock'[o] = new(f, e)
    BY <1>3, <2>1
  <2> QED BY <1>1, <2>2
<1> QED BY <1>2, <1>4, <1>5, <1>7 DEF Construct, new
-----------------------------------------------------------------------------
(***************************************************************************)
(* The steps of a thread.                                                  *)
(***************************************************************************)

\* Steps that touch no Socket and no open(): queues, and accept()'s locals.
LEMMA QuietKeeps ==
  ASSUME OInv, IInv', UNCHANGED <<fdTable, sock>>,
         \A e \in Endpoints : SameFace(e),
         \A t \in Threads : frame'[t].obj = frame[t].obj,
         \A t \in Threads : pc'[t] \in Opening => pc'[t] = pc[t]
  PROVE  OInv'
<1>1. KernelInv'
  BY FacesKept DEF OInv
<1>2. \A o \in Alive' : Kept(o) /\ (OpenInProgress(o) => OpenInProgress(o)')
  BY DEF Alive, Kept, Target, OpenInProgress
<1>3. OpenInv'
  <2> DEFINE T == {}
  <2>1. \A o : o \notin T
    OBVIOUS
  <2> HIDE DEF T
  <2> QED BY <1>2, <2>1, SocketsKept
<1> QED BY <1>1, <1>3 DEF OInv

\* open() ends, and a thread's other Sockets stay what they were.
LEMMA DestroyHoldsOpen ==
  ASSUME OInv, IInv', NEW S \in SUBSET Alive, Destroy(S), NEW t \in Threads,
         \A u \in Threads : u # t => frame'[u].obj = frame[u].obj /\ pc'[u] = pc[u],
         frame'[t].obj = NoObject, pc'[t] \notin Opening,
         frame[t].obj \in S \cup {NoObject}
  PROVE  OInv'
<1>1. KernelInv' /\ \A o \in Alive' : o \notin S /\ Kept(o)
  BY DestroyKeeps DEF OInv
<1>2. \A o \in Alive' : OpenInProgress(o) => OpenInProgress(o)'
  <2> SUFFICES ASSUME NEW o \in Alive', NEW u \in Threads, frame[u].obj = o
               PROVE  \E v \in Threads : frame'[v].obj = o
    BY DEF OpenInProgress
  <2>1. o # NoObject /\ o \notin S
    BY <1>1, ConstantsAssumption DEF Alive
  <2> QED BY <2>1
<1>3. OpenInv'
  <2>1. \A u \in Threads : pc'[u] \in Opening =>
          pc'[u] = pc[u] /\ frame'[u].obj = frame[u].obj /\ frame[u].obj \notin S
    <3> SUFFICES ASSUME NEW u \in Threads, pc'[u] \in Opening
                 PROVE  pc'[u] = pc[u] /\ frame'[u].obj = frame[u].obj /\ frame[u].obj \notin S
      OBVIOUS
    <3>1. pc'[u] = pc[u] /\ frame'[u].obj = frame[u].obj
      OBVIOUS
    <3>2. ShapeOf(u)'
      BY DEF IInv, FrameShape
    <3>3. frame'[u].obj \in Alive'
      BY <3>2, ConstantsAssumption DEF ShapeOf, Alive
    <3> QED BY <1>1, <3>1, <3>3
  <2> QED BY <1>1, <1>2, <2>1, SocketsKept
<1> QED BY <1>1, <1>3 DEF OInv

\* create(): the Socket is not one of open().
LEMMA CreateKeepsOpen ==
  ASSUME OInv, IInv', NEW t \in Threads, NEW k, NEW a, Create(t, k, a)
  PROVE  OInv'
<1>1. PICK o \in Objects : Construct(t, o, k, a, FALSE, FALSE)
  BY DEF Create
<1>2. UNCHANGED <<pc, frame>>
  BY DEF Create
<1>3. /\ KernelInv' /\ o \notin Alive /\ ~sock'[o].opened
      /\ \A p \in Alive' : p # o => Kept(p)
  BY <1>1, ConstructKeeps, ConstantsAssumption DEF OInv
<1>4. OpenInv'
  <2> DEFINE T == {o}
  <2>1. \A p : p \in T <=> p = o
    OBVIOUS
  <2>2. ReuseAsked(o)' /\ Delivered(o)'
    BY <1>3 DEF ReuseAsked, Delivered
  <2>3. \A u \in Threads : pc'[u] \in Opening =>
          pc'[u] = pc[u] /\ frame'[u].obj = frame[u].obj /\ frame[u].obj \notin T
    BY <1>2, <1>3, OpenedByHolder DEF OInv
  <2>4. \A p : OpenInProgress(p) => OpenInProgress(p)'
    BY <1>2 DEF OpenInProgress
  <2> HIDE DEF T
  <2>5. \A p \in Alive' : p \in T => ReuseAsked(p)' /\ (OpenInProgress(p)' \/ Delivered(p)')
    BY <2>1, <2>2
  <2> QED BY <1>3, <2>1, <2>3, <2>4, <2>5, SocketsKept
<1> QED BY <1>3, <1>4 DEF OInv

\* open(): it starts with a fresh endpoint, at the first of its calls.
LEMMA OpenKeepsOpen ==
  ASSUME OInv, IInv', NEW t \in Threads, NEW k, NEW a, NEW reuse \in BOOLEAN,
         Open(t, k, a, reuse)
  PROVE  OInv'
<1>1. PICK o \in Objects : /\ Construct(t, o, k, a, TRUE, reuse)
                           /\ frame' = [frame EXCEPT ![t].obj = o]
  BY DEF Open
<1>2. /\ k \in {"server", "client"} /\ (reuse => k = "server")
      /\ pc[t] = "idle" /\ pc' = [pc EXCEPT ![t] = FirstCall(k, reuse)]
  BY DEF Open, Goto
<1>3. /\ KernelInv' /\ o \notin Alive
      /\ sock'[o].opened /\ sock'[o].kind = k /\ sock'[o].reuse = reuse
      /\ \A p \in Alive' : p # o => Kept(p)
      /\ (Target(o) \in Endpoints => ep[Target(o)].st = "created" /\ ~ep[Target(o)].reuse)'
  BY <1>1, ConstructKeeps, ConstantsAssumption DEF OInv
<1>4. /\ frame'[t].obj = o /\ pc'[t] = FirstCall(k, reuse)
      /\ \A u \in Threads : u # t => frame'[u] = frame[u] /\ pc'[u] = pc[u]
  BY <1>1, <1>2, Types DEF OInv, FrameRecord
<1>5. frame[t].obj = NoObject
  BY <1>2, OpenedByHolder DEF OInv, Opening
<1>6. StageAt(frame[t].obj, pc[t])'
  <2>1. CASE k = "client"
    <3>1. FirstCall(k, reuse) = "connecting"
      BY <2>1 DEF FirstCall
    <3> QED BY <1>3, <1>4, <2>1, <3>1 DEF StageAt
  <2>2. CASE k = "server" /\ reuse
    <3>1. FirstCall(k, reuse) = "settingReuse"
      BY <2>2 DEF FirstCall
    <3> QED BY <1>3, <1>4, <2>2, <3>1 DEF StageAt
  <2>3. CASE k = "server" /\ ~reuse
    <3>1. FirstCall(k, reuse) = "binding"
      BY <2>3 DEF FirstCall
    <3> QED BY <1>3, <1>4, <2>3, <3>1 DEF StageAt
  <2> QED BY <1>2, <2>1, <2>2, <2>3
<1>7. OpenInv'
  <2> DEFINE T == {o}
  <2>1. \A p : p \in T <=> p = o
    OBVIOUS
  <2>2. ReuseAsked(o)' /\ OpenInProgress(o)'
    BY <1>3, <1>4 DEF ReuseAsked, OpenInProgress
  <2>3. \A u \in Threads : u # t /\ pc[u] \in Opening => frame[u].obj \notin T
    BY <1>3, OpenedByHolder DEF OInv
  <2>4. \A p \in Alive' : p # o => (OpenInProgress(p) => OpenInProgress(p)')
    <3>1. NoObject \notin Alive'
      BY ConstantsAssumption DEF Alive
    <3> QED BY <1>4, <1>5, <3>1 DEF OpenInProgress
  <2>5. \A u \in Threads : pc'[u] \in Opening =>
          \/ pc'[u] = pc[u] /\ frame'[u].obj = frame[u].obj /\ frame[u].obj \notin T
          \/ StageAt(frame[u].obj, pc[u])'
    <3> SUFFICES ASSUME NEW u \in Threads, pc'[u] \in Opening, u # t
                 PROVE  pc'[u] = pc[u] /\ frame'[u].obj = frame[u].obj /\ frame[u].obj \notin T
      BY <1>6
    <3> QED BY <1>4, <2>3
  <2> HIDE DEF T
  <2>6. \A p \in Alive' : p \in T => ReuseAsked(p)' /\ (OpenInProgress(p)' \/ Delivered(p)')
    BY <2>1, <2>2
  <2> QED BY <1>3, <2>1, <2>4, <2>5, <2>6, SocketsKept
<1> QED BY <1>3, <1>7 DEF OInv

\* bind(), listen() and connect() by hand find no Socket of open() to change.
LEMMA CallsKeepOpen ==
  ASSUME OInv, IInv', NEW t \in Threads, NEW o \in Objects,
         Bind(t, o) \/ Listen(t, o) \/ Connect(t, o)
  PROVE  OInv'
<1> DEFINE e == Target(o)
           a == sock[o].addr
<1>1. /\ pc[t] = "idle" /\ o \in Held(t) /\ UNCHANGED <<sock, pc, frame>>
      /\ BindEndpoint(e, a) \/ ListenEndpoint(e, a) \/ ConnectEndpoint(e, a)
      /\ ~ListenEndpoint(e, a) /\ ~BindEndpoint(e, a) => sock[o].kind = "client"
      /\ ~ConnectEndpoint(e, a) => sock[o].kind = "server"
  BY DEF Bind, Listen, Connect
<1>2. o \in Alive /\ sock[o].holder = t /\ a \in Addresses
  BY <1>1, TargetReached, ConstantsAssumption DEF Held, Alive, OInv
<1> HIDE DEF a
<1>3. /\ KernelInv' /\ e \in Endpoints /\ fdTable' = fdTable
      /\ \A d \in Endpoints : d # e => SameFace(d)
  BY <1>1, <1>2, EndpointCalls, EndpointCallEffect DEF OInv
<1>4. ~OpenInProgress(o)
  <2> SUFFICES ASSUME NEW u \in Threads, frame[u].obj = o PROVE FALSE
    BY DEF OpenInProgress
  <2>1. o # NoObject
    BY ConstantsAssumption
  <2>2. pc[u] \in Opening /\ u = t
    BY <1>2, <2>1, OpenedByHolder DEF OInv
  <2> QED BY <1>1, <2>2 DEF Opening
<1>5. Delivered(o) /\ ReuseAsked(o)
  BY <1>2, <1>4 DEF OInv, OpenInv, SocketsDelivered, SocketsAsked
<1>6. ASSUME sock[o].opened PROVE SameFace(e)
  <2>1. CASE BindEndpoint(e, a) \/ ListenEndpoint(e, a)
    <3>1. ep[e].st \in {"listening", "connected"}
      <4>1. sock[o].kind \in {"server", "client"}
        BY <1>1 DEF Bind, Listen, Connect
      <4> QED BY <1>5, <1>6, <4>1 DEF Delivered
    <3>2. ListenEndpoint(e, a) /\ ep[e].st = "listening"
      BY <1>2, <2>1, <3>1, EndpointCallEffect DEF OInv
    <3> QED BY <1>2, <3>2, EndpointCallEffect DEF SameFace, OInv
  <2>2. CASE ~BindEndpoint(e, a) /\ ~ListenEndpoint(e, a)
    <3>1. ConnectEndpoint(e, a) /\ ep[e].st = "connected"
      BY <1>1, <1>5, <1>6, <2>2 DEF Delivered
    <3> QED BY <1>2, <3>1, EndpointCallEffect DEF OInv
  <2> QED BY <2>1, <2>2
<1>7. ReuseAsked(o)' /\ Delivered(o)'
  <2>1. CASE sock[o].opened
    <3>1. Target(o)' = Target(o)
      BY <1>1, <1>3 DEF Target
    <3>2. Kept(o)
      BY <1>1, <1>2, <1>6, <2>1, <3>1 DEF Kept
    <3> QED BY <1>5, <3>2, KeptSocket
  <2>2. CASE ~sock[o].opened
    BY <1>1, <2>2 DEF ReuseAsked, Delivered
  <2> QED BY <2>1, <2>2
<1>8. \A p \in Alive' : p # o => Kept(p)
  <2> SUFFICES ASSUME NEW p \in Alive', p # o PROVE Kept(p)
    OBVIOUS
  <2>1. p \in Alive /\ sock'[p] = sock[p] /\ Target(p)' = Target(p)
    BY <1>1, <1>3 DEF Alive, Target
  <2>2. Target(p) # e
    BY <1>2, <1>3, <2>1, TargetsApart DEF OInv, KernelInv
  <2> QED BY <1>3, <2>1, <2>2 DEF Kept
<1>9. OpenInv'
  <2> DEFINE T == {o}
  <2>1. \A p : p \in T <=> p = o
    OBVIOUS
  <2>2. \A p : OpenInProgress(p) => OpenInProgress(p)'
    BY <1>1 DEF OpenInProgress
  <2>3. \A u \in Threads : pc'[u] \in Opening =>
          pc'[u] = pc[u] /\ frame'[u].obj = frame[u].obj /\ frame[u].obj \notin T
    BY <1>1, <1>4 DEF OpenInProgress
  <2> HIDE DEF T
  <2>4. \A p \in Alive' : p \in T => ReuseAsked(p)' /\ (OpenInProgress(p)' \/ Delivered(p)')
    BY <1>7, <2>1
  <2> QED BY <1>8, <2>1, <2>2, <2>3, <2>4, SocketsKept
<1> QED BY <1>3, <1>9 DEF OInv

\* A call returns: its thread is idle, with no Socket of open(), and no other moves.
LEMMA ReturnEffect ==
  ASSUME IInv, NEW t \in Threads, Returns(t)
  PROVE  /\ frame'[t] = NoFrame /\ frame'[t].obj = NoObject
         /\ pc'[t] = "idle" /\ pc'[t] \notin Opening
         /\ \A u \in Threads : u # t => frame'[u] = frame[u] /\ pc'[u] = pc[u]
<1>1. frame' = [frame EXCEPT ![t] = NoFrame] /\ pc' = [pc EXCEPT ![t] = "idle"]
  BY DEF Returns, Goto
<1>2. NoFrame.obj = NoObject /\ "idle" \notin Opening
  BY DEF NoFrame, Opening
<1>3. pc \in [Threads -> Places] /\ frame \in [Threads -> FrameRecord]
  BY Types
<1> QED BY <1>1, <1>2, <1>3

\* An open() that throws destroys its Socket.
LEMMA UnwindKeepsOpen ==
  ASSUME OInv, IInv', NEW t \in Threads, pc[t] \in Opening, Unwind(t)
  PROVE  OInv'
<1>1. Destroy({frame[t].obj}) /\ Returns(t)
  BY DEF Unwind
<1>2. {frame[t].obj} \in SUBSET Alive
  BY OpenedByHolder DEF OInv
<1>3. /\ frame'[t].obj = NoObject /\ pc'[t] \notin Opening
      /\ \A u \in Threads : u # t => frame'[u].obj = frame[u].obj /\ pc'[u] = pc[u]
  BY <1>1, ReturnEffect DEF OInv
<1> QED BY <1>1, <1>2, <1>3, DestroyHoldsOpen

(***************************************************************************)
(* An open() whose call succeeds goes on, or is done.                      *)
(***************************************************************************)
LEMMA OpenMovesOn ==
  ASSUME OInv, IInv', KernelInv', UNCHANGED <<fdTable, sock>>,
         NEW t \in Threads, pc[t] \in Opening, NEW o, o = frame[t].obj,
         \A d \in Endpoints : d # Target(o) => SameFace(d),
         \A u \in Threads : u # t => frame'[u].obj = frame[u].obj /\ pc'[u] = pc[u],
         ReuseAsked(o)',
         \/ frame'[t].obj = o /\ StageAt(o, pc[t])'
         \/ pc'[t] \notin Opening /\ Delivered(o)'
  PROVE  OInv'
<1> DEFINE T == {o}
<1>1. \A p : p \in T <=> p = o
  OBVIOUS
<1>2. /\ o \in Alive /\ Alive' = Alive /\ sock[o].holder = t
      /\ \A p : Target(p)' = Target(p)
  BY OpenedByHolder DEF OInv, Alive, Target
<1> HIDE DEF T
<1>3. \A p \in Alive' : p \notin T => Kept(p)
  <2> SUFFICES ASSUME NEW p \in Alive, p # o PROVE Kept(p)
    BY <1>1, <1>2
  <2>1. Target(p) \in Endpoints => Target(p) # Target(o)
    BY <1>2, TargetsApart DEF OInv, KernelInv
  <2> QED BY <1>2, <2>1 DEF Kept
<1>4. \A p \in Alive' : p \notin T => (OpenInProgress(p) => OpenInProgress(p)')
  BY <1>1 DEF OpenInProgress
<1>5. \A p \in Alive' : p \in T => ReuseAsked(p)' /\ (OpenInProgress(p)' \/ Delivered(p)')
  BY <1>1 DEF OpenInProgress
<1>6. \A u \in Threads : pc'[u] \in Opening =>
        \/ pc'[u] = pc[u] /\ frame'[u].obj = frame[u].obj /\ frame[u].obj \notin T
        \/ StageAt(frame[u].obj, pc[u])'
  <2> SUFFICES ASSUME NEW u \in Threads, pc'[u] \in Opening
               PROVE  \/ /\ pc'[u] = pc[u] /\ frame'[u].obj = frame[u].obj
                         /\ frame[u].obj \notin T
                      \/ StageAt(frame[u].obj, pc[u])'
    OBVIOUS
  <2>1. CASE u = t
    <3>1. frame'[u].obj = o /\ StageAt(o, pc[t])'
      BY <2>1
    <3> QED BY <2>1, <3>1 DEF StageAt
  <2>2. CASE u # t
    <3>1. pc'[u] = pc[u] /\ frame'[u].obj = frame[u].obj
      BY <2>2
    <3>2. sock[frame[u].obj].holder = u
      BY <3>1, OpenedByHolder DEF OInv
    <3> QED BY <1>1, <1>2, <2>2, <3>1, <3>2
  <2> QED BY <2>1, <2>2
<1>7. OpenInv'
  BY <1>3, <1>4, <1>5, <1>6, SocketsKept
<1> QED BY <1>7 DEF OInv

\* SO_REUSEADDR in open(): nothing is set yet.
LEMMA SetReuseKeepsOpen ==
  ASSUME OInv, IInv', NEW t \in Threads, OpenSetReuse(t)
  PROVE  OInv'
<1> PICK o : o = frame[t].obj
  OBVIOUS
<1>1. pc[t] = "settingReuse" /\ pc[t] \in Opening
  BY DEF OpenSetReuse, Opening
<1>2. StageAt(o, "settingReuse") /\ ReuseAsked(o)
  BY <1>1, OpenedByHolder DEF OInv, OpenInv, OpenStages, SocketsAsked
<1>3. CASE Unwind(t)
  BY <1>1, <1>3, UnwindKeepsOpen
<1>4. CASE ~Unwind(t)
  <2>1. /\ pc' = [pc EXCEPT ![t] = "settingReusePort"]
        /\ UNCHANGED <<fdTable, ep, sock, frame>>
    BY <1>4 DEF OpenSetReuse, Goto
  <2>2. \A d \in Endpoints : SameFace(d)
    BY <2>1 DEF SameFace
  <2>3. KernelInv'
    BY <2>1, <2>2, FacesKept DEF OInv
  <2>4. pc'[t] = "settingReusePort" /\ \A u \in Threads : u # t => pc'[u] = pc[u]
    BY <2>1, Types DEF OInv
  <2>5. StageAt(o, pc[t])' /\ ReuseAsked(o)'
    BY <1>2, <2>1, <2>4 DEF StageAt, ReuseAsked, Target
  <2>6. o = frame[t].obj /\ frame'[t].obj = o
    BY <2>1
  <2> QED BY <1>1, <2>1, <2>2, <2>3, <2>4, <2>5, <2>6, OpenMovesOn
<1> QED BY <1>3, <1>4

\* SO_REUSEPORT in open(): asked for, and before the Socket has its address.
LEMMA SetReusePortKeepsOpen ==
  ASSUME OInv, IInv', NEW t \in Threads, OpenSetReusePort(t)
  PROVE  OInv'
<1> PICK o : o = frame[t].obj
  OBVIOUS
<1> DEFINE e == Target(o)
<1>1. pc[t] = "settingReusePort" /\ pc[t] \in Opening
  BY DEF OpenSetReusePort, Opening
<1>2. StageAt(o, "settingReusePort") /\ o \in Alive
  BY <1>1, OpenedByHolder DEF OInv, OpenInv, OpenStages
<1>3. CASE Unwind(t)
  BY <1>1, <1>3, UnwindKeepsOpen
<1>4. CASE ~Unwind(t)
  <2>1. /\ e # NoEndpoint /\ ep' = [ep EXCEPT ![e].reuse = TRUE]
        /\ pc' = [pc EXCEPT ![t] = "binding"] /\ UNCHANGED <<fdTable, sock, frame>>
    BY <1>4 DEF OpenSetReusePort, Goto
  <2>2. e \in Endpoints /\ ep[e].st = "created"
    BY <1>2, <2>1, TargetReached DEF OInv, StageAt
  <2>3. KernelInv' /\ ep'[e].st = "created" /\ ep'[e].reuse
        /\ \A d \in Endpoints : d # e => SameFace(d)
    BY <2>1, <2>2, ReuseSet DEF OInv
  <2>4. \A p : Target(p)' = Target(p)
    BY <2>1 DEF Target
  <2>5. pc'[t] = "binding" /\ \A u \in Threads : u # t => pc'[u] = pc[u]
    BY <2>1, Types DEF OInv
  <2>6. StageAt(o, pc[t])' /\ ReuseAsked(o)'
    BY <1>2, <2>1, <2>2, <2>3, <2>4, <2>5 DEF StageAt, ReuseAsked
  <2>7. o = frame[t].obj /\ frame'[t].obj = o
    BY <2>1
  <2> QED BY <1>1, <2>1, <2>3, <2>5, <2>6, <2>7, OpenMovesOn
<1> QED BY <1>3, <1>4

\* bind() in open().
LEMMA BindKeepsOpen ==
  ASSUME OInv, IInv', NEW t \in Threads, OpenBind(t)
  PROVE  OInv'
<1> PICK o : o = frame[t].obj
  OBVIOUS
<1> DEFINE e == Target(o)
           a == sock[o].addr
<1>1. pc[t] = "binding" /\ pc[t] \in Opening
  BY DEF OpenBind, Opening
<1>2. StageAt(o, "binding") /\ o \in Alive /\ a \in Addresses
  BY <1>1, OpenedByHolder, TargetReached DEF OInv, OpenInv, OpenStages
<1>3. CASE Unwind(t)
  BY <1>1, <1>3, UnwindKeepsOpen
<1>4. CASE ~Unwind(t)
  <2>1. /\ BindEndpoint(e, a)
        /\ pc' = [pc EXCEPT ![t] = "listening"] /\ UNCHANGED <<sock, frame>>
    BY <1>4 DEF OpenBind, Goto
  <2> HIDE DEF a
  <2>2. KernelInv'
    BY <1>2, <2>1, EndpointCalls DEF OInv
  <2>3. /\ e \in Endpoints /\ fdTable' = fdTable
        /\ ep'[e].st = "bound" /\ ep'[e].addr = a /\ ep'[e].reuse = ep[e].reuse
        /\ \A d \in Endpoints : d # e => SameFace(d)
    BY <1>2, <2>1, EndpointCallEffect DEF OInv
  <2>4. \A p : Target(p)' = Target(p)
    BY <2>1, <2>3 DEF Target
  <2>5. pc'[t] = "listening" /\ \A u \in Threads : u # t => pc'[u] = pc[u]
    BY <2>1, Types DEF OInv
  <2>6. ReuseAsked(o)
    BY <1>2 DEF OInv, OpenInv, SocketsAsked
  <2>7. StageAt(o, pc[t])' /\ ReuseAsked(o)'
    BY <1>2, <2>1, <2>3, <2>4, <2>5, <2>6 DEF StageAt, ReuseAsked, a
  <2>8. o = frame[t].obj /\ frame'[t].obj = o
    BY <2>1
  <2> QED BY <1>1, <2>1, <2>2, <2>3, <2>5, <2>7, <2>8, OpenMovesOn
<1> QED BY <1>3, <1>4

\* listen() and connect() in open(), the last of its calls.
LEMMA LastCallKeepsOpen ==
  ASSUME OInv, IInv', NEW t \in Threads, OpenListen(t) \/ OpenConnect(t)
  PROVE  OInv'
<1> PICK o : o = frame[t].obj
  OBVIOUS
<1> DEFINE e == Target(o)
           a == sock[o].addr
<1>1. pc[t] \in {"listening", "connecting"} /\ pc[t] \in Opening
  BY DEF OpenListen, OpenConnect, Opening
<1>2. StageAt(o, pc[t]) /\ o \in Alive /\ a \in Addresses /\ ReuseAsked(o)
  BY <1>1, OpenedByHolder, TargetReached DEF OInv, OpenInv, OpenStages, SocketsAsked
<1>3. CASE Unwind(t)
  BY <1>1, <1>3, UnwindKeepsOpen
<1>4. CASE ~Unwind(t)
  <2>1. /\ \/ pc[t] = "listening" /\ ListenEndpoint(e, a)
           \/ pc[t] = "connecting" /\ ConnectEndpoint(e, a)
        /\ Returns(t) /\ sock' = sock
    BY <1>4 DEF OpenListen, OpenConnect
  <2> HIDE DEF a
  <2>2. KernelInv'
    BY <1>2, <2>1, EndpointCalls DEF OInv
  <2>3. /\ e \in Endpoints /\ fdTable' = fdTable
        /\ ep'[e].st = IF pc[t] = "listening" THEN "listening" ELSE "connected"
        /\ ep'[e].addr = ep[e].addr /\ ep'[e].reuse = ep[e].reuse
        /\ \A d \in Endpoints : d # e => SameFace(d)
    BY <1>2, <2>1, EndpointCallEffect DEF OInv
  <2>4. \A p : Target(p)' = Target(p)
    BY <2>1, <2>3 DEF Target
  <2>5. /\ pc'[t] \notin Opening
        /\ \A u \in Threads : u # t => frame'[u].obj = frame[u].obj /\ pc'[u] = pc[u]
    BY <2>1, ReturnEffect DEF OInv
  <2>6. sock[o].kind = IF pc[t] = "connecting" THEN "client" ELSE "server"
    BY <1>2 DEF StageAt
  <2>7. pc[t] = "listening" => ep[e].addr = sock[o].addr /\ (sock[o].reuse => ep[e].reuse)
    BY <1>2 DEF StageAt
  <2>8. Delivered(o)' /\ ReuseAsked(o)'
    BY <1>1, <1>2, <2>1, <2>3, <2>4, <2>6, <2>7 DEF Delivered, ReuseAsked
  <2> QED BY <1>1, <2>1, <2>2, <2>3, <2>5, <2>8, OpenMovesOn
<1> QED BY <1>3, <1>4

\* The destructor, when a caller or a thread lets go of its Sockets.
LEMMA LettingGoKeepsOpen ==
  ASSUME OInv, IInv', NEW t \in Threads,
         \/ \E o \in Objects : Release(t, o)
         \/ ThreadReturns(t)
  PROVE  OInv'
<1>1. /\ pc[t] = "idle" /\ frame' = frame
      /\ \A u \in Threads : u # t => pc'[u] = pc[u]
      /\ pc'[t] \in {"idle", "exited"}
  BY Types DEF Release, ThreadReturns, Goto, OInv
<1>2. PICK S \in SUBSET Held(t) : Destroy(S)
  BY DEF Release, ThreadReturns
<1>3. S \in SUBSET Alive
  BY ConstantsAssumption DEF Held, Alive
<1>4. frame'[t].obj = NoObject /\ pc'[t] \notin Opening
  BY <1>1, OpenedByHolder DEF OInv, Opening
<1>5. frame[t].obj \in S \cup {NoObject}
  BY <1>1, <1>4
<1> QED BY <1>1, <1>2, <1>3, <1>4, <1>5, DestroyHoldsOpen

\* A descriptor that comes from accept(), or from outside, is not one of open().
LEMMA TakesKeepsOpen ==
  ASSUME OInv, IInv', sock' = sock,
         NEW f \in FreeFds, NEW e \in UnusedEndpoints,
         fdTable' = [fdTable EXCEPT ![f] = e],
         ep'[e].st = "connected", \A d \in Endpoints : d # e => SameFace(d),
         \A t \in Threads : frame'[t].obj = frame[t].obj,
         \A t \in Threads : pc'[t] \in Opening => pc'[t] = pc[t]
  PROVE  OInv'
<1>1. f \in Fds /\ fdTable[f] = NoEndpoint /\ e \in Endpoints /\ ep[e].st = "unused"
  BY DEF FreeFds, UnusedEndpoints
<1>2. KernelInv'
  BY <1>1, EndpointOpened DEF OInv
<1>3. \A g \in Fds : g # f => fdTable'[g] = fdTable[g]
  BY <1>1, Types DEF OInv
<1>4. \A p \in Alive' : Kept(p)
  <2> SUFFICES ASSUME NEW p \in Alive PROVE Kept(p)
    BY DEF Alive
  <2>1. CASE sock[p].fd = NoFd
    BY <2>1, TargetReached, ConstantsAssumption DEF Kept, Target, OInv
  <2>2. CASE sock[p].fd # NoFd
    <3>1. /\ sock[p].fd \in Fds /\ Target(p) = fdTable[sock[p].fd]
          /\ Target(p) \in Endpoints /\ Target(p) # NoEndpoint
      BY <2>2, TargetReached DEF OInv
    <3>2. sock[p].fd # f /\ Target(p) # e
      BY <1>1, <3>1, TargetsApart DEF OInv, KernelInv
    <3>3. Target(p)' = Target(p)
      BY <1>3, <2>2, <3>1, <3>2 DEF Target
    <3> QED BY <3>1, <3>2, <3>3 DEF Kept
  <2> QED BY <2>1, <2>2
<1>5. \A p : OpenInProgress(p) => OpenInProgress(p)'
  BY DEF OpenInProgress
<1>6. OpenInv'
  <2> DEFINE T == {}
  <2>1. \A p : p \notin T
    OBVIOUS
  <2> HIDE DEF T
  <2> QED BY <1>4, <1>5, <2>1, SocketsKept
<1> QED BY <1>2, <1>6 DEF OInv

\* The caller's own descriptor.
LEMMA ForeignKeepsOpen ==
  ASSUME OInv, IInv', NEW t \in Threads, ForeignDescriptor(t)
  PROVE  OInv'
<1>1. PICK f \in FreeFds, e \in UnusedEndpoints :
        /\ fdTable' = [fdTable EXCEPT ![f] = e]
        /\ ep' = [ep EXCEPT ![e].st = "connected"]
        /\ frame' = [frame EXCEPT ![t].fd = f]
  BY DEF ForeignDescriptor
<1>2. pc' = [pc EXCEPT ![t] = "holding"] /\ sock' = sock
  BY DEF ForeignDescriptor, Goto
<1>3. e \in Endpoints
  BY DEF UnusedEndpoints
<1>4. ep'[e].st = "connected" /\ \A d \in Endpoints : d # e => SameFace(d)
  BY <1>1, <1>3, Types DEF EndpointRecord, SameFace, OInv
<1>5. \A u \in Threads : frame'[u].obj = frame[u].obj
  BY <1>1, Types DEF FrameRecord, OInv
<1>6. \A u \in Threads : pc'[u] \in Opening => pc'[u] = pc[u]
  BY <1>2, Types DEF Opening, OInv
<1> QED BY <1>1, <1>2, <1>4, <1>5, <1>6, TakesKeepsOpen

\* A connection that accept() takes.
LEMMA AcceptTakesEffect ==
  ASSUME IInv, NEW t \in Threads, NEW o \in Objects, NEW then \in AfterAccept,
         AcceptTakes(t, o, then)
  PROVE  \E f \in FreeFds, e \in UnusedEndpoints, len \in GarbageLens :
         \E peerLen \in PeerLens[Domain[sock[o].addr]] :
           /\ ~Negative(len) /\ sock[o].addr \in Addresses
           /\ fdTable' = [fdTable EXCEPT ![f] = e] /\ sock' = sock
           /\ ep'[e].st = "connected"
           /\ \A d \in Endpoints : d # e => SameFace(d)
           /\ frame[t].obj = NoObject /\ frame[t].fd = NoFd /\ frame'[t].obj = NoObject
           /\ frame'[t].fd = f /\ f # NoFd /\ frame'[t].addr = sock[o].addr
           /\ frame'[t].len = peerLen /\ frame'[t].copied = Copied(len, peerLen)
           /\ pc[t] = "idle" /\ pc'[t] = then
           /\ \A u \in Threads : u # t => frame'[u] = frame[u] /\ pc'[u] = pc[u]
<1>1. PICK f \in FreeFds, e \in UnusedEndpoints,
           len \in {n \in GarbageLens : ~Negative(n)},
           peerLen \in PeerLens[Domain[sock[o].addr]] :
        /\ fdTable' = [fdTable EXCEPT ![f] = e]
        /\ ep' = [ep EXCEPT ![Target(o)].pending = @ - 1, ![e].st = "connected",
                            ![e].addr = ep[Target(o)].addr, ![e].reuse = ep[Target(o)].reuse]
        /\ frame' = [frame EXCEPT ![t].addr = sock[o].addr, ![t].fd = f,
                                  ![t].len = peerLen, ![t].copied = Copied(len, peerLen)]
  BY DEF AcceptTakes
<1>2. /\ pc[t] = "idle" /\ o \in Held(t) /\ pc' = [pc EXCEPT ![t] = then] /\ sock' = sock
      /\ HasConnection(Target(o))
  BY DEF AcceptTakes, CanAccept, Goto
<1>3. e \in Endpoints /\ Target(o) \in Endpoints /\ Target(o) # e
  BY <1>2 DEF UnusedEndpoints, HasConnection
<1>4. ep'[e].st = "connected" /\ \A d \in Endpoints : d # e => SameFace(d)
  <2> DEFINE one == [ep EXCEPT ![Target(o)].pending = @ - 1]
  <2>1. /\ one \in [Endpoints -> [st : EndpointStates, addr : Addresses \cup {NoAddress},
                                  reuse : BOOLEAN, pending : Nat]]
        /\ \A d \in Endpoints : /\ one[d].st = ep[d].st /\ one[d].addr = ep[d].addr
                                /\ one[d].reuse = ep[d].reuse
    BY <1>2, <1>3, Types, ConstantsAssumption DEF EndpointRecord, HasConnection
  <2>2. ep' = [one EXCEPT ![e].st = "connected", ![e].addr = ep[Target(o)].addr,
                          ![e].reuse = ep[Target(o)].reuse]
    BY <1>1
  <2> HIDE DEF one
  <2> QED BY <1>3, <2>1, <2>2 DEF SameFace
<1>5. frame[t] = NoFrame
  BY <1>2 DEF IInv, FrameShape, ShapeOf
<1>6. f \in Fds /\ f # NoFd
  BY ConstantsAssumption DEF FreeFds
<1>7. /\ frame'[t].obj = frame[t].obj
      /\ frame'[t].fd = f /\ frame'[t].addr = sock[o].addr
      /\ frame'[t].len = peerLen /\ frame'[t].copied = Copied(len, peerLen)
      /\ \A u \in Threads : u # t => frame'[u] = frame[u]
  BY <1>1, Types DEF FrameRecord
<1>8. pc'[t] = then /\ \A u \in Threads : u # t => pc'[u] = pc[u]
  BY <1>2, Types
<1>9. sock[o].addr \in Addresses
  BY <1>2, TargetReached, ConstantsAssumption DEF Held, Alive
<1>10. NoFrame.obj = NoObject /\ NoFrame.fd = NoFd
  BY DEF NoFrame
<1> QED BY <1>1, <1>2, <1>4, <1>5, <1>6, <1>7, <1>8, <1>9, <1>10

\* It is a new endpoint, and of no Socket yet.
LEMMA AcceptTakesKeepsOpen ==
  ASSUME OInv, IInv', NEW t \in Threads, NEW o \in Objects, NEW then \in AfterAccept,
         AcceptTakes(t, o, then)
  PROVE  OInv'
<1>1. PICK f \in FreeFds, e \in UnusedEndpoints :
        /\ fdTable' = [fdTable EXCEPT ![f] = e] /\ sock' = sock
        /\ ep'[e].st = "connected"
        /\ \A d \in Endpoints : d # e => SameFace(d)
        /\ frame[t].obj = NoObject /\ frame'[t].obj = NoObject
        /\ pc'[t] = then
        /\ \A u \in Threads : u # t => frame'[u] = frame[u] /\ pc'[u] = pc[u]
  BY AcceptTakesEffect DEF OInv
<1>2. \A u \in Threads : frame'[u].obj = frame[u].obj
  BY <1>1
<1>3. \A u \in Threads : pc'[u] \in Opening => pc'[u] = pc[u]
  BY <1>1 DEF Opening, AfterAccept
<1> QED BY <1>1, <1>2, <1>3, TakesKeepsOpen

(***************************************************************************)
(* A Socket made over a descriptor is not one of open().                   *)
(***************************************************************************)
LEMMA HandOverKeepsOpen ==
  ASSUME OInv, IInv', UNCHANGED kernelVars,
         NEW t, NEW o \in Objects, NEW f, NEW a, NEW known, ConstructOver(t, o, f, a, known),
         \A u \in Threads : frame'[u].obj = frame[u].obj,
         \A u \in Threads : pc'[u] \in Opening => pc'[u] = pc[u]
  PROVE  OInv'
<1> DEFINE T == {o}
<1>1. \A p : p \in T <=> p = o
  OBVIOUS
<1>2. /\ o \notin Alive /\ ~sock'[o].opened
      /\ \A p \in Alive' : p # o => p \in Alive /\ sock'[p] = sock[p]
  BY Types DEF ConstructOver, NewSocket, Alive, OInv
<1>3. KernelInv'
  BY FacesKept DEF OInv, kernelVars, SameFace
<1> HIDE DEF T
<1>4. \A p \in Alive' : p \notin T => Kept(p)
  BY <1>1, <1>2 DEF Kept, Target, SameFace, kernelVars
<1>5. \A p : OpenInProgress(p) => OpenInProgress(p)'
  BY DEF OpenInProgress
<1>6. \A p \in Alive' : p \in T => ReuseAsked(p)' /\ (OpenInProgress(p)' \/ Delivered(p)')
  BY <1>1, <1>2 DEF ReuseAsked, Delivered
<1>7. \A u \in Threads : pc'[u] \in Opening =>
        pc'[u] = pc[u] /\ frame'[u].obj = frame[u].obj /\ frame[u].obj \notin T
  BY <1>1, <1>2, OpenedByHolder DEF OInv
<1>8. OpenInv'
  BY <1>4, <1>5, <1>6, <1>7, SocketsKept
<1> QED BY <1>3, <1>8 DEF OInv

\* A call that is not open() returns.
LEMMA ReturnQuiet ==
  ASSUME IInv, NEW t \in Threads, pc[t] \notin Opening, Returns(t)
  PROVE  /\ \A u \in Threads : frame'[u].obj = frame[u].obj
         /\ \A u \in Threads : pc'[u] \in Opening => pc'[u] = pc[u]
<1>1. frame[t].obj = NoObject
  BY OpenedByHolder
<1> QED BY <1>1, ReturnEffect

\* A Socket is made over a descriptor the library was given.
LEMMA MadeOverKeepsOpen ==
  ASSUME OInv, IInv', NEW t \in Threads,
         \/ \E a \in Addresses : Adopt(t, a)
         \/ AcceptReturns(t)
         \/ ThreadStarts(t)
  PROVE  OInv'
<1>1. /\ UNCHANGED kernelVars /\ Returns(t)
      /\ \E o \in Objects : \E f, a, known : ConstructOver(t, o, f, a, known)
  BY DEF Adopt, AcceptReturns, ThreadStarts, Returns
<1>2. pc[t] \notin Opening
  BY DEF Adopt, AcceptReturns, ThreadStarts, Opening
<1>3. PICK o \in Objects : \E f, a, known : ConstructOver(t, o, f, a, known)
  BY <1>1
<1>4. /\ \A u \in Threads : frame'[u].obj = frame[u].obj
      /\ \A u \in Threads : pc'[u] \in Opening => pc'[u] = pc[u]
  BY <1>1, <1>2, ReturnQuiet DEF OInv
<1>5. PICK f, a, known : ConstructOver(t, o, f, a, known)
  BY <1>3
<1> QED BY <1>1, <1>4, <1>5, HandOverKeepsOpen

\* An accept() that gets nothing keeps all it found but the length of a queue.
LEMMA NoConnectionEffect ==
  ASSUME IInv, NEW t \in Threads, NEW o \in Objects, NEW then \in AfterAccept,
         AcceptFails(t, o, then) \/ AcceptDrops(t, o, then)
  PROVE  /\ UNCHANGED <<fdTable, sock>>
         /\ \A e \in Endpoints : SameFace(e)
         /\ frame[t].obj = NoObject /\ frame'[t].obj = NoObject
         /\ frame[t].fd = NoFd /\ frame'[t].fd = NoFd
         /\ pc[t] = "idle" /\ pc'[t] = then
         /\ \A u \in Threads : u # t => frame'[u] = frame[u] /\ pc'[u] = pc[u]
<1>1. PICK len \in GarbageLens :
        frame' = [frame EXCEPT ![t].addr = sock[o].addr, ![t].len = len]
  BY DEF AcceptFails, AcceptDrops
<1>2. pc[t] = "idle" /\ pc' = [pc EXCEPT ![t] = then] /\ UNCHANGED <<fdTable, sock>>
  BY DEF AcceptFails, AcceptDrops, CanAccept, Goto
<1>3. \A e \in Endpoints : SameFace(e)
  <2>1. CASE ep' = ep
    BY <2>1 DEF SameFace
  <2>2. CASE ep' # ep
    <3>1. ep' = [ep EXCEPT ![Target(o)].pending = @ - 1]
      BY <2>2 DEF AcceptFails, AcceptDrops
    <3> QED BY <3>1, Types DEF EndpointRecord, SameFace
  <2> QED BY <2>1, <2>2
<1>4. frame[t] = NoFrame
  BY <1>2 DEF IInv, FrameShape, ShapeOf
<1>5. NoFrame.obj = NoObject /\ NoFrame.fd = NoFd
  BY DEF NoFrame
<1>6. /\ frame'[t].obj = frame[t].obj /\ frame'[t].fd = frame[t].fd
      /\ \A u \in Threads : u # t => frame'[u] = frame[u]
  BY <1>1, Types DEF FrameRecord
<1>7. pc'[t] = then /\ \A u \in Threads : u # t => pc'[u] = pc[u]
  BY <1>2, Types
<1> QED BY <1>2, <1>3, <1>4, <1>5, <1>6, <1>7

\* acceptInNewThread() moves its locals into the new thread's closure.
LEMMA SpawnEffect ==
  ASSUME IInv, NEW t \in Threads, NEW n \in Threads, Spawn(t, n)
  PROVE  /\ UNCHANGED <<fdTable, ep, files, sock>>
         /\ t # n /\ pc[t] = "acceptedInNewThread" /\ Verdict(t) = "none"
         /\ frame[n] = NoFrame /\ frame'[t] = NoFrame /\ frame'[n] = frame[t]
         /\ pc'[t] = "idle" /\ pc'[n] = "starting"
         /\ \A u \in Threads : u \notin {t, n} => frame'[u] = frame[u] /\ pc'[u] = pc[u]
<1>1. /\ pc[t] = "acceptedInNewThread" /\ Verdict(t) = "none" /\ pc[n] = "unborn"
      /\ pc' = [pc EXCEPT ![t] = "idle", ![n] = "starting"]
      /\ frame' = [frame EXCEPT ![t] = NoFrame, ![n] = frame[t]]
      /\ UNCHANGED <<fdTable, ep, files, sock>>
  BY DEF Spawn
<1>2. t # n
  BY <1>1
<1>3. frame[n] = NoFrame
  BY <1>1 DEF IInv, FrameShape, ShapeOf
<1> QED BY <1>1, <1>2, <1>3, Types

\* The other steps of accept() and acceptInNewThread().
LEMMA AcceptStepsKeepOpen ==
  ASSUME OInv, IInv', NEW t \in Threads,
         \/ \E o \in Objects, then \in AfterAccept :
              AcceptFails(t, o, then) \/ AcceptDrops(t, o, then)
         \/ AcceptThrows(t) \/ SpawnThrows(t)
         \/ \E n \in Threads : Spawn(t, n)
  PROVE  OInv'
<1>1. ASSUME NEW o \in Objects, NEW then \in AfterAccept,
             AcceptFails(t, o, then) \/ AcceptDrops(t, o, then)
      PROVE  OInv'
  <2>1. /\ UNCHANGED <<fdTable, sock>> /\ \A e \in Endpoints : SameFace(e)
        /\ frame[t].obj = NoObject /\ frame'[t].obj = NoObject /\ pc'[t] = then
        /\ \A u \in Threads : u # t => frame'[u] = frame[u] /\ pc'[u] = pc[u]
    BY <1>1, NoConnectionEffect DEF OInv
  <2>2. \A u \in Threads : frame'[u].obj = frame[u].obj
    BY <2>1
  <2>3. \A u \in Threads : pc'[u] \in Opening => pc'[u] = pc[u]
    BY <2>1 DEF Opening, AfterAccept
  <2> QED BY <2>1, <2>2, <2>3, QuietKeeps
<1>2. ASSUME AcceptThrows(t) \/ SpawnThrows(t) PROVE OInv'
  <2>1. pc[t] \notin Opening /\ Returns(t) /\ UNCHANGED <<fdTable, ep, sock>>
    BY <1>2 DEF AcceptThrows, SpawnThrows, Opening, AfterAccept
  <2>2. /\ \A u \in Threads : frame'[u].obj = frame[u].obj
        /\ \A u \in Threads : pc'[u] \in Opening => pc'[u] = pc[u]
    BY <2>1, ReturnQuiet DEF OInv
  <2>3. \A e \in Endpoints : SameFace(e)
    BY <2>1 DEF SameFace
  <2> QED BY <2>1, <2>2, <2>3, QuietKeeps
<1>3. ASSUME NEW n \in Threads, Spawn(t, n) PROVE OInv'
  <2>1. /\ UNCHANGED <<fdTable, ep, sock>> /\ pc[t] = "acceptedInNewThread"
        /\ frame[n] = NoFrame /\ frame'[t] = NoFrame /\ frame'[n] = frame[t]
        /\ pc'[t] = "idle" /\ pc'[n] = "starting"
        /\ \A u \in Threads : u \notin {t, n} => frame'[u] = frame[u] /\ pc'[u] = pc[u]
    BY <1>3, SpawnEffect DEF OInv
  <2>2. frame[t].obj = NoObject /\ NoFrame.obj = NoObject
    BY <2>1, OpenedByHolder DEF OInv, Opening, NoFrame
  <2>3. \A u \in Threads : frame'[u].obj = frame[u].obj
    BY <2>1, <2>2
  <2>4. \A u \in Threads : pc'[u] \in Opening => pc'[u] = pc[u]
    BY <2>1 DEF Opening
  <2>5. \A e \in Endpoints : SameFace(e)
    BY <2>1 DEF SameFace
  <2> QED BY <2>1, <2>3, <2>4, <2>5, QuietKeeps
<1> QED BY <1>1, <1>2, <1>3

\* Every step of a thread keeps the invariant.
LEMMA StepKeepsOpen ==
  ASSUME OInv, IInv', NEW t \in Threads, Step(t)
  PROVE  OInv'
<1>1. CASE \E k \in Kinds, a \in Addresses : Create(t, k, a)
  BY <1>1, CreateKeepsOpen
<1>2. CASE (\E o \in Objects : Release(t, o)) \/ ThreadReturns(t)
  BY <1>2, LettingGoKeepsOpen
<1>3. CASE ForeignDescriptor(t)
  BY <1>3, ForeignKeepsOpen
<1>4. CASE (\E a \in Addresses : Adopt(t, a)) \/ AcceptReturns(t) \/ ThreadStarts(t)
  BY <1>4, MadeOverKeepsOpen
<1>5. CASE \E o \in Objects : Bind(t, o) \/ Listen(t, o) \/ Connect(t, o)
  BY <1>5, CallsKeepOpen
<1>6. CASE \E k \in Kinds, a \in Addresses, reuse \in BOOLEAN : Open(t, k, a, reuse)
  BY <1>6, OpenKeepsOpen
<1>7. CASE OpenSetReuse(t)
  BY <1>7, SetReuseKeepsOpen
<1>12. CASE OpenSetReusePort(t)
  BY <1>12, SetReusePortKeepsOpen
<1>8. CASE OpenBind(t)
  BY <1>8, BindKeepsOpen
<1>9. CASE OpenListen(t) \/ OpenConnect(t)
  BY <1>9, LastCallKeepsOpen
<1>10. CASE \E o \in Objects, then \in AfterAccept : AcceptTakes(t, o, then)
  BY <1>10, AcceptTakesKeepsOpen
<1>11. CASE \/ \E o \in Objects, then \in AfterAccept :
                 AcceptFails(t, o, then) \/ AcceptDrops(t, o, then)
            \/ AcceptThrows(t) \/ SpawnThrows(t)
            \/ \E n \in Threads : Spawn(t, n)
  BY <1>11, AcceptStepsKeepOpen
<1> QED BY <1>1, <1>2, <1>3, <1>4, <1>5, <1>6, <1>7, <1>8, <1>9, <1>10, <1>11, <1>12
           DEF Step
-----------------------------------------------------------------------------
(***************************************************************************)
(* The invariant, and what open() promises by it.                          *)
(***************************************************************************)

\* Initially no endpoint is used and no Socket alive.
LEMMA InitOInv == Init => OInv
<1> SUFFICES ASSUME Init PROVE OInv
  OBVIOUS
<1>1. IInv
  BY InitHolds
<1>2. Alive = {} /\ \A t \in Threads : pc[t] \notin Opening
  BY DEF Init, Alive, DeadSocket, Opening
<1>3. OpenInv
  BY <1>2 DEF OpenInv, OpenStages, SocketsAsked, SocketsDelivered
<1>4. KernelInv
  BY DEF Init, KernelInv, TableApart, EndpointsFresh, AddressConsent, Named, UnusedEndpoint
<1> QED BY <1>1, <1>3, <1>4 DEF OInv

\* Nobody has a connection that is waiting.
LEMMA ExpireKeepsOpen ==
  ASSUME OInv, IInv', NEW e \in Endpoints, Expire(e)
  PROVE  OInv'
<1>1. /\ ep[e].st = "waiting" /\ ep' = [ep EXCEPT ![e] = ClosedEndpoint]
      /\ UNCHANGED <<fdTable, sock, pc, frame>>
  BY DEF Expire
<1>2. /\ ep'[e].st = "closed" /\ \A d \in Endpoints : d # e => ep'[d] = ep[d]
      /\ \A d \in Endpoints : d # e => SameFace(d)
  BY <1>1, Types DEF ClosedEndpoint, SameFace, OInv
<1>3. KernelInv'
  <2>1. \A f \in Fds : fdTable[f] # NoEndpoint => fdTable[f] \in Endpoints /\ fdTable[f] # e
    BY <1>1, OpenFds DEF OInv, KernelInv
  <2>2. TableApart'
    BY <1>1, <1>2, <2>1 DEF OInv, KernelInv, TableApart
  <2>3. EndpointsFresh'
    BY <1>2 DEF OInv, KernelInv, EndpointsFresh
  <2>4. \A d \in Endpoints : Named(d)' => Named(d) /\ ep'[d] = ep[d]
    BY <1>2 DEF Named
  <2>5. AddressConsent'
    BY <2>4 DEF OInv, KernelInv, AddressConsent
  <2> QED BY <2>2, <2>3, <2>5 DEF KernelInv
<1>4. \A p \in Alive' : Kept(p)
  <2> SUFFICES ASSUME NEW p \in Alive PROVE Kept(p)
    BY <1>1 DEF Alive
  <2>1. Target(p) \in Endpoints => Target(p) # e
    BY <1>1, TargetsApart DEF OInv, KernelInv
  <2> QED BY <1>1, <1>2, <2>1 DEF Kept, Target
<1>5. OpenInv'
  <2> DEFINE T == {}
  <2>1. \A p : p \notin T
    OBVIOUS
  <2>2. \A p : OpenInProgress(p) => OpenInProgress(p)'
    BY <1>1 DEF OpenInProgress
  <2> HIDE DEF T
  <2> QED BY <1>1, <1>4, <2>1, <2>2, SocketsKept
<1> QED BY <1>3, <1>5 DEF OInv

\* Clients of other processes, and connections that end, change nobody's face.
LEMMA NextOInv == OInv /\ [Next]_vars => OInv'
<1> SUFFICES ASSUME OInv, [Next]_vars PROVE OInv'
  OBVIOUS
<1>1. IInv'
  BY NextHolds DEF OInv
<1>2. ASSUME UNCHANGED <<fdTable, sock, pc, frame>>, \A e \in Endpoints : SameFace(e)
      PROVE  OInv'
  BY <1>1, <1>2, QuietKeeps
<1>3. CASE \E t \in Threads : Step(t)
  BY <1>1, <1>3, StepKeepsOpen
<1>4. CASE \E l \in Endpoints : RemoteConnect(l)
  <2>1. PICK l \in Endpoints : RemoteConnect(l)
    BY <1>4
  <2>2. ep' = [ep EXCEPT ![l].pending = @ + 1] /\ UNCHANGED <<fdTable, sock, pc, frame>>
    BY <2>1 DEF RemoteConnect
  <2>3. \A e \in Endpoints : SameFace(e)
    BY <2>2, Types DEF EndpointRecord, SameFace, OInv
  <2> QED BY <1>2, <2>2, <2>3
<1>5. CASE \E e \in Endpoints : RemoteReset(e)
  <2>1. PICK e \in Endpoints : RemoteReset(e)
    BY <1>5
  <2>2. /\ ep[e].st = "connected" /\ ep' = [ep EXCEPT ![e].addr = NoAddress]
        /\ UNCHANGED <<fdTable, sock, pc, frame>>
    BY <2>1 DEF RemoteReset
  <2>3. \A d \in Endpoints : SameFace(d)
    BY <2>2, Types DEF EndpointRecord, SameFace, OInv
  <2> QED BY <1>2, <2>2, <2>3
<1>7. CASE \E e \in Endpoints : Expire(e)
  BY <1>1, <1>7, ExpireKeepsOpen
<1>6. CASE UNCHANGED vars
  BY <1>2, <1>6 DEF vars, SameFace
<1> QED BY <1>3, <1>4, <1>5, <1>6, <1>7 DEF Next

\* The descriptor table, the kernel's addresses and every open() fit together.
THEOREM OpenInvariance == Spec => []OInv
BY InitOInv, NextOInv, PTL DEF Spec

(***************************************************************************)
(* A Socket that open() has returned is listening at its address, or       *)
(* connected, and stays so while it is alive (OpenDelivers), whatever      *)
(* other threads open, bind, accept or destroy.                            *)
(***************************************************************************)
THEOREM OpenedIsValid == Spec => []OpenDelivers
<1>1. OInv => OpenDelivers
  BY DEF OInv, OpenInv, SocketsDelivered, Delivered, OpenDelivers
<1> QED BY <1>1, OpenInvariance, PTL

(***************************************************************************)
(* Two ServerSockets that open() returned are at one address only if both  *)
(* were asked to share it (SharedByConsent).                               *)
(***************************************************************************)
THEOREM Consent == Spec => []SharedByConsent
<1>1. ASSUME OInv PROVE SharedByConsent
  <2> SUFFICES ASSUME NEW o \in OpenedServers, NEW p \in OpenedServers, o # p,
                      sock[o].addr = sock[p].addr
               PROVE  sock[o].reuse /\ sock[p].reuse
    BY DEF SharedByConsent
  <2> USE <1>1
  <2>1. \A q \in OpenedServers :
          /\ q \in Alive /\ sock[q].opened
          /\ Target(q) \in Endpoints /\ Named(Target(q))
          /\ ep[Target(q)].addr = sock[q].addr
    <3> SUFFICES ASSUME NEW q \in OpenedServers
                 PROVE  /\ q \in Alive /\ sock[q].opened
                        /\ Target(q) \in Endpoints /\ Named(Target(q))
                        /\ ep[Target(q)].addr = sock[q].addr
      OBVIOUS
    <3>1. /\ q \in Alive /\ sock[q].opened /\ sock[q].kind = "server"
          /\ ~OpenInProgress(q)
      BY DEF OpenedServers
    <3>2. sock[q].addr \in Addresses
      BY <3>1, TargetReached DEF OInv
    <3>3. Delivered(q)
      BY <3>1 DEF OInv, OpenInv, SocketsDelivered
    <3> QED BY <3>1, <3>2, <3>3 DEF Delivered, Named
  <2>2. Target(o) # Target(p)
    BY <2>1, TargetsApart DEF OInv, KernelInv
  <2>3. ep[Target(o)].reuse /\ ep[Target(p)].reuse
    BY <2>1, <2>2 DEF OInv, KernelInv, AddressConsent
  <2> QED BY <2>1, <2>3 DEF OInv, OpenInv, SocketsAsked, ReuseAsked
<1> QED BY <1>1, OpenInvariance, PTL

-----------------------------------------------------------------------------
\* Only local addresses have files.
FilesLocal == \A a \in files : Domain[a] = "LOCAL"

\* bind() makes them, and nothing takes them away.
LEMMA FilesKept == FilesLocal /\ Next => FilesLocal'
<1> SUFFICES ASSUME FilesLocal, Next PROVE FilesLocal'
  OBVIOUS
<1>1. ASSUME files' = files PROVE FilesLocal'
  BY <1>1 DEF FilesLocal
<1>2. ASSUME NEW e, NEW a, BindEndpoint(e, a) \/ ListenEndpoint(e, a) \/ ConnectEndpoint(e, a)
      PROVE  FilesLocal'
  BY <1>2 DEF BindEndpoint, ListenEndpoint, ConnectEndpoint, FilesLocal
<1>3. ASSUME NEW S, Destroy(S) PROVE FilesLocal'
  BY <1>1, <1>3 DEF Destroy
<1>4. ASSUME NEW t \in Threads, Step(t) PROVE FilesLocal'
  <2>1. CASE \/ \E k \in Kinds, a \in Addresses : Create(t, k, a)
             \/ \E k \in Kinds, a \in Addresses, reuse \in BOOLEAN : Open(t, k, a, reuse)
             \/ ForeignDescriptor(t) \/ \E a \in Addresses : Adopt(t, a)
    BY <1>1, <2>1 DEF Create, Open, Construct, ForeignDescriptor, Adopt, kernelVars
  <2>2. CASE (\E o \in Objects : Release(t, o)) \/ ThreadReturns(t)
    BY <1>3, <2>2 DEF Release, ThreadReturns
  <2>3. CASE \E o \in Objects : Bind(t, o) \/ Listen(t, o) \/ Connect(t, o)
    BY <1>2, <2>3 DEF Bind, Listen, Connect
  <2>4. CASE \/ OpenSetReuse(t) \/ OpenSetReusePort(t) \/ OpenBind(t)
             \/ OpenListen(t) \/ OpenConnect(t)
    BY <1>1, <1>2, <1>3, <2>4
       DEF OpenSetReuse, OpenSetReusePort, OpenBind, OpenListen, OpenConnect, Unwind
  <2>5. CASE \/ \E o \in Objects, then \in AfterAccept :
                  AcceptFails(t, o, then) \/ AcceptDrops(t, o, then) \/ AcceptTakes(t, o, then)
             \/ AcceptThrows(t) \/ SpawnThrows(t) \/ AcceptReturns(t) \/ ThreadStarts(t)
             \/ \E n \in Threads : Spawn(t, n)
    BY <1>1, <2>5 DEF AcceptFails, AcceptDrops, AcceptTakes, AcceptThrows, SpawnThrows,
                      AcceptReturns, ThreadStarts, Spawn, kernelVars
  <2> QED BY <1>4, <2>1, <2>2, <2>3, <2>4, <2>5 DEF Step
<1> QED BY <1>1, <1>4 DEF Next, RemoteConnect, RemoteReset, Expire

(***************************************************************************)
(* When open() with reuse comes to bind() an IPv4 address, it finds it     *)
(* taken only for an endpoint without the option, which no ServerSocket    *)
(* opened with reuse has (ReuseNotRefused), however many of them listen,   *)
(* have connections or have left some behind.                              *)
(***************************************************************************)
THEOREM ReuseWorks == Spec => []ReuseNotRefused
<1>1. ASSUME OInv, FilesLocal PROVE ReuseNotRefused
  <2> SUFFICES ASSUME NEW t \in Threads, NEW o, o = frame[t].obj, NEW a, a = sock[o].addr,
                      pc[t] = "binding", sock[o].reuse, Domain[a] = "INET4",
                      Target(o) # NoEndpoint, ~CanBind(Target(o), a)
               PROVE  \E e \in Endpoints :
                        /\ At(e, a) /\ ~ep[e].reuse
                        /\ \A p \in OpenedServers : sock[p].reuse => Target(p) # e
    BY DEF ReuseNotRefused
  <2> USE <1>1
  <2>1. StageAt(o, "binding")
    BY DEF OInv, OpenInv, OpenStages, Opening
  <2>2. /\ Target(o) \in Endpoints /\ ep[Target(o)].st = "created"
        /\ ep[Target(o)].reuse
    BY <2>1 DEF StageAt
  <2>3. BufferLen["INET4"] >= MinNameLen["INET4"]
    BY DEF BufferLen, MinNameLen, Domains
  <2>4. InUse(a, ep[Target(o)].reuse)
    BY <2>2, <2>3 DEF CanBind
  <2>5. a \notin files
    BY DEF FilesLocal
  <2>6. PICK e \in Endpoints : At(e, a) /\ ~ep[e].reuse
    BY <2>2, <2>4, <2>5 DEF InUse
  <2>7. \A p \in OpenedServers : sock[p].reuse => ep[Target(p)].reuse
    BY DEF OpenedServers, OInv, OpenInv, SocketsDelivered, Delivered
  <2> QED BY <2>6, <2>7
<1>2. Init => FilesLocal
  BY DEF Init, FilesLocal
<1>3. FilesLocal /\ [Next]_vars => FilesLocal'
  BY FilesKept DEF vars, FilesLocal
<1> QED BY <1>1, <1>2, <1>3, OpenInvariance, PTL DEF Spec
=============================================================================
