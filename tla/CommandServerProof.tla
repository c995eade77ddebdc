------------------------- MODULE CommandServerProof -------------------------
(***************************************************************************)
(* Proofs about CommandServer, for any number of clients and any caps.     *)
(*                                                                         *)
(* The promise of GracefulShutdown needs to know which threads the vector  *)
(* holds: every working handler is among those the server has still to     *)
(* join (Kept), and a connection in the queue has no handler yet (Queued). *)
(***************************************************************************)
EXTENDS CommandServer, SequenceTheorems, TLAPS

PlacesTyped ==
  /\ pc \in [Threads -> HandlerPlaces \cup ServerPlaces]
  /\ pc[Server] \in ServerPlaces
  /\ \A c \in Clients : pc[c] \in HandlerPlaces

VectorTyped ==
  /\ acceptedThreads \in Seq(Clients)
  /\ joining \in 1..(Len(acceptedThreads) + 1)

Kept ==
  \A c \in Working :
    \E i \in joining..Len(acceptedThreads) : acceptedThreads[i] = c

Queued ==
  /\ \A c \in Clients : link[c] = "none" => c \notin waiting /\ pc[c] = "unborn"
  /\ \A c \in waiting : c \in Clients /\ pc[c] = "unborn"

LinksTyped == link \in [Clients -> LinkStates] /\ waiting \subseteq Clients

AllJoined == pc[Server] = "over" => joining > Len(acceptedThreads)

Inv ==
  /\ terminateRequested \in BOOLEAN
  /\ PlacesTyped /\ VectorTyped /\ LinksTyped
  /\ Kept /\ Queued /\ AllJoined
-----------------------------------------------------------------------------
\* No thread exists at first.
LEMMA InitInv == Init => Inv
<1> SUFFICES ASSUME Init PROVE Inv
  OBVIOUS
<1>1. PlacesTyped
  BY ServerAssumption DEF Init, PlacesTyped, Threads, HandlerPlaces, ServerPlaces
<1>2. VectorTyped
  BY DEF Init, VectorTyped
<1>3. LinksTyped /\ Queued
  BY ServerAssumption DEF Init, LinksTyped, Queued, LinkStates, Threads
<1>4. Working = {}
  BY ServerAssumption DEF Init, Working, Threads
<1>5. Kept /\ AllJoined
  BY <1>4 DEF Init, Kept, AllJoined, Threads
<1> QED BY <1>1, <1>2, <1>3, <1>5 DEF Inv, Init

(***************************************************************************)
(* A handler that goes from one place to another, neither of them before   *)
(* its start, works no more than it did.                                   *)
(***************************************************************************)
LEMMA HandlerMoves ==
  ASSUME Inv, NEW c \in Clients, NEW place \in HandlerPlaces \ {"unborn"},
         pc[c] # "unborn", pc[c] # "over", pc' = [pc EXCEPT ![c] = place],
         UNCHANGED <<acceptedThreads, joining, waiting>>,
         terminateRequested' \in BOOLEAN,
         link' \in [Clients -> LinkStates],
         \A d \in Clients : link'[d] = "none" => link[d] = "none"
  PROVE  Inv'
<1>1. PlacesTyped'
  BY ServerAssumption DEF Inv, PlacesTyped, Threads
<1>2. VectorTyped' /\ AllJoined'
  BY ServerAssumption DEF Inv, PlacesTyped, VectorTyped, AllJoined, Threads
<1>3. LinksTyped'
  BY DEF Inv, LinksTyped
<1>4. Queued'
  BY DEF Inv, Queued, PlacesTyped, Threads
<1>5. Working' \subseteq Working
  BY DEF Inv, Working, PlacesTyped, Threads
<1>6. Kept'
  BY <1>5 DEF Inv, Kept
<1> QED BY <1>1, <1>2, <1>3, <1>4, <1>6 DEF Inv

(***************************************************************************)
(* The server moves, with the vector and the handlers as they were.        *)
(***************************************************************************)
LEMMA ServerMoves ==
  ASSUME Inv, NEW place \in ServerPlaces, place = "over" => joining > Len(acceptedThreads),
         pc' = [pc EXCEPT ![Server] = place],
         UNCHANGED <<terminateRequested, acceptedThreads, joining>>,
         waiting' \subseteq waiting,
         link' \in [Clients -> LinkStates],
         \A d \in Clients : link'[d] = "none" => link[d] = "none"
  PROVE  Inv'
<1>1. PlacesTyped'
  BY ServerAssumption DEF Inv, PlacesTyped, Threads
<1>2. VectorTyped' /\ AllJoined'
  BY ServerAssumption DEF Inv, PlacesTyped, VectorTyped, AllJoined, Threads
<1>3. LinksTyped'
  BY DEF Inv, LinksTyped
<1>4. \A c \in Clients : pc'[c] = pc[c]
  BY ServerAssumption DEF Inv, PlacesTyped, Threads
<1>5. Queued'
  BY <1>4 DEF Inv, Queued
<1>6. Kept'
  BY <1>4 DEF Inv, Kept, Working
<1> QED BY <1>1, <1>2, <1>3, <1>5, <1>6 DEF Inv

\* What send() does to a connection keeps it a connection.
LEMMA SendKeepsLinks ==
  ASSUME Inv, NEW c \in Clients, SendSucceeds(c) \/ SendThrows(c)
  PROVE  /\ link' \in [Clients -> LinkStates]
         /\ \A d \in Clients : link'[d] = "none" => link[d] = "none"
BY DEF Inv, LinksTyped, LinkStates, SendSucceeds, SendThrows

\* Every step of a handler is such a move.
LEMMA HandlerStepHolds ==
  ASSUME Inv, NEW c \in Clients, HandlerStep(c)
  PROVE  Inv'
<1> USE DEF HandlerPlaces
<1>0. /\ link \in [Clients -> LinkStates] /\ terminateRequested \in BOOLEAN
  BY DEF Inv, LinksTyped
<1>1. CASE Greet(c)
  <2>1. UNCHANGED <<terminateRequested, acceptedThreads, joining, waiting>>
    BY <1>1 DEF Greet
  <2>2. \E place \in {"loop", "greeting"} : pc' = [pc EXCEPT ![c] = place]
    BY <1>1 DEF Greet, Goto
  <2>3. pc[c] = "greeting" /\ (SendSucceeds(c) \/ SendThrows(c))
    BY <1>1 DEF Greet
  <2> QED BY <1>0, <2>1, <2>2, <2>3, SendKeepsLinks, HandlerMoves
<1>2. CASE HandlerTests(c)
  <2>1. /\ UNCHANGED <<terminateRequested, acceptedThreads, joining, waiting, link>>
        /\ pc[c] = "loop"
    BY <1>2 DEF HandlerTests, LoopTest, netVars
  <2>2. \E place \in {"leaving", "selecting"} : pc' = [pc EXCEPT ![c] = place]
    BY <1>2 DEF HandlerTests, LoopTest, Goto
  <2> QED BY <1>0, <2>1, <2>2, HandlerMoves
<1>3. CASE HandlerSelects(c)
  <2>1. /\ UNCHANGED <<terminateRequested, acceptedThreads, joining, waiting, link>>
        /\ pc[c] = "selecting"
    BY <1>3 DEF HandlerSelects, SelectReturns, netVars
  <2>2. \E place \in {"leaving", "selected"} : pc' = [pc EXCEPT ![c] = place]
    BY <1>3 DEF HandlerSelects, SelectReturns, Goto
  <2> QED BY <1>0, <2>1, <2>2, HandlerMoves
<1>4. CASE HandlerTestsAgain(c)
  <2>1. /\ UNCHANGED <<terminateRequested, acceptedThreads, joining, waiting, link>>
        /\ pc[c] = "selected"
    BY <1>4 DEF HandlerTestsAgain, SecondTest, netVars
  <2>2. \E place \in {"leaving", "reading", "loop"} : pc' = [pc EXCEPT ![c] = place]
    BY <1>4 DEF HandlerTestsAgain, SecondTest, Goto
  <2> QED BY <1>0, <2>1, <2>2, HandlerMoves
<1>5. CASE ReadCurrent(c)
  <2>1. /\ UNCHANGED <<terminateRequested, acceptedThreads, joining, waiting, link>>
        /\ pc[c] = "reading"
    BY <1>5 DEF ReadCurrent
  <2>2. \E place \in {"leaving", "replying", "loop"} : pc' = [pc EXCEPT ![c] = place]
    BY <1>5 DEF ReadCurrent, Goto
  <2> QED BY <1>0, <2>1, <2>2, HandlerMoves
<1>6. CASE ActOn(c)
  <2>1. UNCHANGED <<terminateRequested, acceptedThreads, joining, waiting>>
    BY <1>6 DEF ActOn
  <2>2. \E place \in {"storing", "leaving", "loop"} : pc' = [pc EXCEPT ![c] = place]
    BY <1>6 DEF ActOn, AfterReply, Goto
  <2>3. pc[c] = "replying" /\ (SendSucceeds(c) \/ SendThrows(c))
    BY <1>6 DEF ActOn
  <2> QED BY <1>0, <2>1, <2>2, <2>3, SendKeepsLinks, HandlerMoves
<1>7. CASE StoreRequest(c)
  BY <1>0, <1>7, HandlerMoves DEF StoreRequest, Goto, netVars
<1>8. CASE Leave(c)
  <2>1. /\ link' \in [Clients -> LinkStates]
        /\ \A d \in Clients : link'[d] = "none" => link[d] = "none"
    BY <1>0, <1>8 DEF Leave, LinkStates
  <2> QED BY <1>0, <1>8, <2>1, HandlerMoves DEF Leave, Goto
<1> QED BY <1>1, <1>2, <1>3, <1>4, <1>5, <1>6, <1>7, <1>8 DEF HandlerStep

(***************************************************************************)
(* An accepted connection leaves the queue, and its thread is pushed back  *)
(* behind the index that the server will join from.                        *)
(***************************************************************************)
LEMMA AcceptCurrentHolds ==
  ASSUME Inv, AcceptCurrent
  PROVE  Inv'
<1>1. PICK c \in waiting :
        /\ waiting' = waiting \ {c}
        /\ acceptedThreads' = Append(acceptedThreads, c)
        /\ pc' = [pc EXCEPT ![Server] = "loop", ![c] = "greeting"]
        /\ unsent' = [unsent EXCEPT ![c] = Greetings]
  BY DEF AcceptCurrent
<1>2. c \in Clients /\ c # Server /\ pc[Server] = "accepting"
  BY ServerAssumption DEF Inv, LinksTyped, AcceptCurrent
<1>3. UNCHANGED <<terminateRequested, joining, link>>
  BY DEF AcceptCurrent
<1>4. /\ pc' \in [Threads -> HandlerPlaces \cup ServerPlaces]
      /\ pc'[Server] = "loop" /\ pc'[c] = "greeting"
      /\ \A d \in Clients \ {c} : pc'[d] = pc[d]
  BY <1>1, <1>2, ServerAssumption
     DEF Inv, PlacesTyped, Threads, HandlerPlaces, ServerPlaces
<1>5. PlacesTyped'
  BY <1>4 DEF Inv, PlacesTyped, HandlerPlaces, ServerPlaces
<1>6. /\ acceptedThreads' \in Seq(Clients)
      /\ Len(acceptedThreads') = Len(acceptedThreads) + 1
      /\ acceptedThreads'[Len(acceptedThreads) + 1] = c
      /\ \A i \in 1..Len(acceptedThreads) : acceptedThreads'[i] = acceptedThreads[i]
  BY <1>1, <1>2 DEF Inv, VectorTyped
<1>7. VectorTyped' /\ AllJoined'
  BY <1>3, <1>4, <1>6 DEF Inv, VectorTyped, AllJoined
<1>8. LinksTyped' /\ Queued'
  BY <1>1, <1>2, <1>3, <1>4 DEF Inv, LinksTyped, Queued
<1>9. Kept'
  <2> SUFFICES ASSUME NEW d \in Working'
               PROVE  \E i \in joining'..Len(acceptedThreads') : acceptedThreads'[i] = d
    BY DEF Kept
  <2>1. CASE d = c
    BY <2>1, <1>3, <1>6 DEF Inv, VectorTyped
  <2>2. CASE d # c
    <3>1. d \in Working
      BY <2>2, <1>4 DEF Working
    <3>2. PICK i \in joining..Len(acceptedThreads) : acceptedThreads[i] = d
      BY <3>1 DEF Inv, Kept
    <3> QED BY <3>2, <1>3, <1>6 DEF Inv, VectorTyped
  <2> QED BY <2>1, <2>2
<1> QED BY <1>3, <1>5, <1>7, <1>8, <1>9 DEF Inv

\* The thread that join() came back from is over, so it is not missed.
LEMMA JoinNextHolds ==
  ASSUME Inv, JoinNext
  PROVE  Inv'
<1>1. /\ joining' = joining + 1 /\ joining <= Len(acceptedThreads)
      /\ pc[acceptedThreads[joining]] = "over" /\ pc[Server] = "joining"
      /\ UNCHANGED <<terminateRequested, acceptedThreads, pc, waiting, link>>
  BY DEF JoinNext, netVars
<1>2. VectorTyped' /\ AllJoined'
  BY <1>1 DEF Inv, VectorTyped, AllJoined
<1>3. PlacesTyped' /\ LinksTyped' /\ Queued'
  BY <1>1 DEF Inv, PlacesTyped, LinksTyped, Queued
<1>4. Kept'
  <2> SUFFICES ASSUME NEW d \in Working
               PROVE  \E i \in (joining + 1)..Len(acceptedThreads) : acceptedThreads[i] = d
    BY <1>1 DEF Kept, Working
  <2>1. PICK i \in joining..Len(acceptedThreads) : acceptedThreads[i] = d
    BY DEF Inv, Kept
  <2>2. i # joining
    BY <1>1, <2>1 DEF Working
  <2> QED BY <2>1, <2>2 DEF Inv, VectorTyped
<1> QED BY <1>1, <1>2, <1>3, <1>4 DEF Inv

\* Every step of the server keeps the invariant.
LEMMA ServerStepHolds ==
  ASSUME Inv, ServerStep
  PROVE  Inv'
<1> USE DEF ServerPlaces
<1>0. link \in [Clients -> LinkStates]
  BY DEF Inv, LinksTyped
<1>1. CASE ServerTests
  <2>1. UNCHANGED <<terminateRequested, acceptedThreads, joining, waiting, link>>
    BY <1>1 DEF ServerTests, LoopTest, netVars
  <2>2. \E place \in {"joining", "selecting"} : pc' = [pc EXCEPT ![Server] = place]
    BY <1>1 DEF ServerTests, LoopTest, Goto
  <2> QED BY <1>0, <2>1, <2>2, ServerMoves
<1>2. CASE ServerSelects
  <2>1. UNCHANGED <<terminateRequested, acceptedThreads, joining, waiting, link>>
    BY <1>2 DEF ServerSelects, SelectReturns, netVars
  <2>2. \E place \in {"joining", "selected"} : pc' = [pc EXCEPT ![Server] = place]
    BY <1>2 DEF ServerSelects, SelectReturns, Goto
  <2> QED BY <1>0, <2>1, <2>2, ServerMoves
<1>3. CASE ServerTestsAgain
  <2>1. UNCHANGED <<terminateRequested, acceptedThreads, joining, waiting, link>>
    BY <1>3 DEF ServerTestsAgain, SecondTest, netVars
  <2>2. \E place \in {"joining", "accepting", "loop"} : pc' = [pc EXCEPT ![Server] = place]
    BY <1>3 DEF ServerTestsAgain, SecondTest, Goto
  <2> QED BY <1>0, <2>1, <2>2, ServerMoves
<1>4. CASE AcceptCurrent
  BY <1>4, AcceptCurrentHolds
<1>5. CASE AcceptThrows
  <2>1. /\ waiting' \subseteq waiting /\ link' \in [Clients -> LinkStates]
        /\ \A d \in Clients : link'[d] = "none" => link[d] = "none"
    BY <1>0, <1>5 DEF AcceptThrows, LinkStates
  <2> QED BY <1>5, <2>1, ServerMoves DEF AcceptThrows, Goto
<1>6. CASE JoinNext
  BY <1>6, JoinNextHolds
<1>7. CASE ServerEnds
  <2>1. /\ waiting' \subseteq waiting /\ link' \in [Clients -> LinkStates]
        /\ \A d \in Clients : link'[d] = "none" => link[d] = "none"
    BY <1>0, <1>7 DEF ServerEnds, LinkStates
  <2> QED BY <1>7, <2>1, ServerMoves DEF ServerEnds, Goto
<1> QED BY <1>1, <1>2, <1>3, <1>4, <1>5, <1>6, <1>7 DEF ServerStep

\* Clients touch connections only, and connect before there is a handler.
LEMMA ClientStepHolds ==
  ASSUME Inv, NEW c \in Clients, ClientStep(c) \/ BrokenPipe(c)
  PROVE  Inv'
<1>1. UNCHANGED <<terminateRequested, acceptedThreads, joining, pc>>
  BY DEF ClientStep, Connect, TakeReply, Hangup, Type, BrokenPipe, programVars
<1>2. PlacesTyped' /\ VectorTyped' /\ AllJoined' /\ Kept'
  BY <1>1 DEF Inv, PlacesTyped, VectorTyped, AllJoined, Kept, Working
<1>3. LinksTyped' /\ Queued'
  <2>1. CASE Connect(c)
    BY <1>1, <2>1 DEF Connect, Inv, LinksTyped, Queued, LinkStates
  <2>2. CASE Hangup(c)
    BY <1>1, <2>2 DEF Hangup, Inv, LinksTyped, Queued, LinkStates
  <2>3. CASE UNCHANGED <<waiting, link>>
    BY <1>1, <2>3 DEF Inv, LinksTyped, Queued
  <2> QED BY <2>1, <2>2, <2>3 DEF ClientStep, TakeReply, Type, BrokenPipe, netVars
<1> QED BY <1>1, <1>2, <1>3 DEF Inv

\* Every step keeps the invariant.
LEMMA NextInv == Inv /\ [Next]_vars => Inv'
<1> SUFFICES ASSUME Inv, [Next]_vars PROVE Inv'
  OBVIOUS
<1>1. CASE UNCHANGED vars
  BY <1>1 DEF vars, Inv, PlacesTyped, VectorTyped, LinksTyped, Kept, Working, Queued, AllJoined
<1>2. CASE Next
  BY <1>2, ServerStepHolds, HandlerStepHolds, ClientStepHolds DEF Next
<1> QED BY <1>1, <1>2

\* Each working handler is one the server has still to join, for any number of clients.
THEOREM Invariance == Spec => []Inv
<1> QED BY InitInv, NextInv, PTL DEF Spec

(***************************************************************************)
(* When the server object, and the flag in it, is gone, no handler runs.   *)
(***************************************************************************)
THEOREM FlagSafe == Spec => []FlagOutlivesHandlers
<1>1. Inv => FlagOutlivesHandlers
  BY DEF Inv, AllJoined, Kept, VectorTyped, FlagOutlivesHandlers
<1> QED BY <1>1, Invariance, PTL
-----------------------------------------------------------------------------
(***************************************************************************)
(* The refinement.  A handler that moves between places changes who works  *)
(* and who is committed by itself alone.                                   *)
(***************************************************************************)
Busy == {"reading", "replying", "storing"}

LEMMA HandlerMapped ==
  ASSUME Inv, NEW c \in Clients, NEW place \in HandlerPlaces \ {"unborn"},
         pc[c] # "unborn", pc[c] # "over", pc' = [pc EXCEPT ![c] = place]
  PROVE  /\ c \in Working /\ pc[Server] # "over" /\ pc'[Server] = pc[Server]
         /\ Working' = IF place = "over" THEN Working \ {c} ELSE Working
         /\ CommittedTo' = IF place \in Busy THEN CommittedTo \cup {c} ELSE CommittedTo \ {c}
         /\ c \in CommittedTo <=> pc[c] \in Busy
<1>1. c \in Working
  BY DEF Working
<1>2. pc[Server] # "over"
  BY <1>1 DEF Inv, AllJoined, Kept, VectorTyped
<1>3. /\ c # Server /\ pc'[Server] = pc[Server] /\ pc'[c] = place
      /\ \A d \in Clients \ {c} : pc'[d] = pc[d]
  BY ServerAssumption DEF Inv, PlacesTyped, Threads
<1>4. Working' = IF place = "over" THEN Working \ {c} ELSE Working
  BY <1>1, <1>3 DEF Working
<1>5. CommittedTo' = IF place \in Busy THEN CommittedTo \cup {c} ELSE CommittedTo \ {c}
  BY <1>3 DEF CommittedTo, Busy
<1>6. c \in CommittedTo <=> pc[c] \in Busy
  BY <1>3 DEF CommittedTo, Busy
<1> QED BY <1>1, <1>2, <1>3, <1>4, <1>5, <1>6

\* A move of the server changes whether it is committed, and no handler.
LEMMA ServerMapped ==
  ASSUME Inv, NEW place \in ServerPlaces, pc' = [pc EXCEPT ![Server] = place]
  PROVE  /\ Working' = Working /\ pc'[Server] = place
         /\ CommittedTo' = IF place = "accepting" THEN CommittedTo \cup {Server}
                                                   ELSE CommittedTo \ {Server}
         /\ Server \in CommittedTo <=> pc[Server] = "accepting"
<1>1. pc'[Server] = place /\ \A d \in Clients : d # Server /\ pc'[d] = pc[d]
  BY ServerAssumption DEF Inv, PlacesTyped, Threads
<1>2. Working' = Working
  BY <1>1 DEF Working
<1>3. CommittedTo' = IF place = "accepting" THEN CommittedTo \cup {Server}
                                            ELSE CommittedTo \ {Server}
  BY <1>1 DEF CommittedTo
<1>4. Server \in CommittedTo <=> pc[Server] = "accepting"
  BY <1>1 DEF CommittedTo
<1> QED BY <1>1, <1>2, <1>3, <1>4

\* What the abstract specification sees of a step that it does not see.
Unseen ==
  /\ UNCHANGED terminateRequested
  /\ Working' = Working /\ CommittedTo' = CommittedTo
  /\ (pc'[Server] = "over") <=> (pc[Server] = "over")

\* Such a step is a stutter.
LEMMA UnseenStutters == Unseen => UNCHANGED Shutdown!vars
BY DEF Unseen, Shutdown!vars

\* A handler's move within its work, or outside of it, is not seen.
LEMMA HandlerUnseen ==
  ASSUME Inv, NEW c \in Clients, NEW place \in HandlerPlaces \ {"unborn", "over"},
         pc[c] # "unborn", pc[c] # "over", pc' = [pc EXCEPT ![c] = place],
         UNCHANGED terminateRequested, pc[c] \in Busy <=> place \in Busy
  PROVE  UNCHANGED Shutdown!vars
<1>1. Unseen
  BY HandlerMapped DEF Unseen
<1> QED BY <1>1, UnseenStutters

\* A handler that is done with its piece of work is no longer committed.
LEMMA HandlerCompletes ==
  ASSUME Inv, NEW c \in Clients, NEW place \in HandlerPlaces \ {"unborn", "over"},
         pc[c] \in Busy, place \notin Busy, pc' = [pc EXCEPT ![c] = place],
         UNCHANGED terminateRequested
  PROVE  Shutdown!Next
<1>1. /\ c \in CommittedTo /\ CommittedTo' = CommittedTo \ {c}
      /\ Working' = Working /\ pc'[Server] = pc[Server]
  BY HandlerMapped DEF Busy
<1>2. Shutdown!Complete(c)
  BY <1>1 DEF Shutdown!Complete
<1> QED BY <1>2 DEF Shutdown!Next

\* Every step of a handler is a step of the abstract specification, or none.
LEMMA HandlerStepMapped ==
  ASSUME Inv, NEW c \in Clients, HandlerStep(c)
  PROVE  [Shutdown!Next]_(Shutdown!vars)
<1> USE DEF HandlerPlaces
<1>1. CASE Greet(c)
  <2>1. \E place \in {"loop", "greeting"} : pc' = [pc EXCEPT ![c] = place]
    BY <1>1 DEF Greet, Goto
  <2>2. pc[c] = "greeting" /\ UNCHANGED terminateRequested
    BY <1>1 DEF Greet
  <2> QED BY <2>1, <2>2, HandlerUnseen DEF Busy
<1>2. CASE HandlerTests(c)
  <2>1. \E place \in {"leaving", "selecting"} : pc' = [pc EXCEPT ![c] = place]
    BY <1>2 DEF HandlerTests, LoopTest, Goto
  <2>2. pc[c] = "loop" /\ UNCHANGED terminateRequested
    BY <1>2 DEF HandlerTests, LoopTest
  <2> QED BY <2>1, <2>2, HandlerUnseen DEF Busy
<1>3. CASE HandlerSelects(c)
  <2>1. \E place \in {"leaving", "selected"} : pc' = [pc EXCEPT ![c] = place]
    BY <1>3 DEF HandlerSelects, SelectReturns, Goto
  <2>2. pc[c] = "selecting" /\ UNCHANGED terminateRequested
    BY <1>3 DEF HandlerSelects, SelectReturns
  <2> QED BY <2>1, <2>2, HandlerUnseen DEF Busy
<1>4. CASE HandlerTestsAgain(c)
  <2>1. \/ \E place \in {"leaving", "loop"} : pc' = [pc EXCEPT ![c] = place]
        \/ ~terminateRequested /\ pc' = [pc EXCEPT ![c] = "reading"]
    BY <1>4 DEF HandlerTestsAgain, SecondTest, Goto, Requested
  <2>2. pc[c] = "selected" /\ UNCHANGED terminateRequested
    BY <1>4 DEF HandlerTestsAgain, SecondTest
  <2>3. CASE pc' = [pc EXCEPT ![c] = "reading"] /\ ~terminateRequested
    <3>1. /\ c \in Working /\ pc[Server] # "over" /\ pc'[Server] = pc[Server]
          /\ Working' = Working /\ CommittedTo' = CommittedTo \cup {c}
      BY <2>2, <2>3, HandlerMapped DEF Busy
    <3>2. Shutdown!Commit(c)
      BY <2>2, <2>3, <3>1 DEF Shutdown!Commit
    <3> QED BY <3>2 DEF Shutdown!Next
  <2>4. CASE \E place \in {"leaving", "loop"} : pc' = [pc EXCEPT ![c] = place]
    BY <2>2, <2>4, HandlerUnseen DEF Busy
  <2> QED BY <2>1, <2>3, <2>4
<1>5. CASE ReadCurrent(c)
  <2>1. \/ pc' = [pc EXCEPT ![c] = "replying"]
        \/ \E place \in {"leaving", "loop"} : pc' = [pc EXCEPT ![c] = place]
    BY <1>5 DEF ReadCurrent, Goto
  <2>2. pc[c] = "reading" /\ UNCHANGED terminateRequested
    BY <1>5 DEF ReadCurrent
  <2>3. CASE pc' = [pc EXCEPT ![c] = "replying"]
    BY <2>2, <2>3, HandlerUnseen DEF Busy
  <2>4. CASE \E place \in {"leaving", "loop"} : pc' = [pc EXCEPT ![c] = place]
    BY <2>2, <2>4, HandlerCompletes DEF Busy
  <2> QED BY <2>1, <2>3, <2>4
<1>6. CASE ActOn(c)
  <2>1. \/ pc' = [pc EXCEPT ![c] = "storing"]
        \/ \E place \in {"leaving", "loop"} : pc' = [pc EXCEPT ![c] = place]
    BY <1>6 DEF ActOn, AfterReply, Goto
  <2>2. pc[c] = "replying" /\ UNCHANGED terminateRequested
    BY <1>6 DEF ActOn
  <2>3. CASE pc' = [pc EXCEPT ![c] = "storing"]
    BY <2>2, <2>3, HandlerUnseen DEF Busy
  <2>4. CASE \E place \in {"leaving", "loop"} : pc' = [pc EXCEPT ![c] = place]
    BY <2>2, <2>4, HandlerCompletes DEF Busy
  <2> QED BY <2>1, <2>3, <2>4
<1>7. CASE StoreRequest(c)
  <2>1. /\ pc[c] = "storing" /\ pc' = [pc EXCEPT ![c] = "leaving"]
        /\ terminateRequested' = TRUE
    BY <1>7 DEF StoreRequest, Goto
  <2>2. /\ c \in CommittedTo /\ CommittedTo' = CommittedTo \ {c}
        /\ Working' = Working /\ pc'[Server] = pc[Server]
    <3>1. "leaving" \in HandlerPlaces \ {"unborn"} /\ "leaving" \notin Busy
      BY DEF Busy
    <3>2. pc[c] \in Busy /\ pc[c] # "unborn" /\ pc[c] # "over"
      BY <2>1 DEF Busy
    <3> QED BY <2>1, <3>1, <3>2, HandlerMapped
  <2>3. Shutdown!Request(c)
    BY <2>1, <2>2 DEF Shutdown!Request
  <2> QED BY <2>3 DEF Shutdown!Next
<1>8. CASE Leave(c)
  <2>1. /\ pc[c] = "leaving" /\ pc' = [pc EXCEPT ![c] = "over"]
        /\ UNCHANGED terminateRequested
    BY <1>8 DEF Leave, Goto
  <2>2. /\ c \in Working /\ CommittedTo' = CommittedTo \ {c}
        /\ Working' = Working \ {c} /\ pc'[Server] = pc[Server]
    BY <2>1, HandlerMapped DEF Busy
  <2>3. Shutdown!Finish(c)
    BY <2>1, <2>2 DEF Shutdown!Finish
  <2> QED BY <2>3 DEF Shutdown!Next
<1> QED BY <1>1, <1>2, <1>3, <1>4, <1>5, <1>6, <1>7, <1>8 DEF HandlerStep

\* A move of the server that neither begins nor ends an accept is not seen.
LEMMA ServerUnseen ==
  ASSUME Inv, NEW place \in ServerPlaces \ {"accepting", "over"},
         pc[Server] # "accepting", pc[Server] # "over",
         pc' = [pc EXCEPT ![Server] = place], UNCHANGED terminateRequested
  PROVE  UNCHANGED Shutdown!vars
<1>1. Unseen
  BY ServerMapped DEF Unseen
<1> QED BY <1>1, UnseenStutters

\* Every step of the server is a step of the abstract specification, or none.
LEMMA ServerStepMapped ==
  ASSUME Inv, ServerStep
  PROVE  [Shutdown!Next]_(Shutdown!vars)
<1> USE DEF ServerPlaces
<1>1. CASE ServerTests
  <2>1. \E place \in {"joining", "selecting"} : pc' = [pc EXCEPT ![Server] = place]
    BY <1>1 DEF ServerTests, LoopTest, Goto
  <2>2. pc[Server] = "loop" /\ UNCHANGED terminateRequested
    BY <1>1 DEF ServerTests, LoopTest
  <2> QED BY <2>1, <2>2, ServerUnseen
<1>2. CASE ServerSelects
  <2>1. \E place \in {"joining", "selected"} : pc' = [pc EXCEPT ![Server] = place]
    BY <1>2 DEF ServerSelects, SelectReturns, Goto
  <2>2. pc[Server] = "selecting" /\ UNCHANGED terminateRequested
    BY <1>2 DEF ServerSelects, SelectReturns
  <2> QED BY <2>1, <2>2, ServerUnseen
<1>3. CASE ServerTestsAgain
  <2>1. \/ \E place \in {"joining", "loop"} : pc' = [pc EXCEPT ![Server] = place]
        \/ ~terminateRequested /\ pc' = [pc EXCEPT ![Server] = "accepting"]
    BY <1>3 DEF ServerTestsAgain, SecondTest, Goto, Requested
  <2>2. pc[Server] = "selected" /\ UNCHANGED terminateRequested
    BY <1>3 DEF ServerTestsAgain, SecondTest
  <2>3. CASE pc' = [pc EXCEPT ![Server] = "accepting"] /\ ~terminateRequested
    <3>1. /\ Working' = Working /\ CommittedTo' = CommittedTo \cup {Server}
          /\ pc'[Server] = "accepting"
      BY <2>3, ServerMapped
    <3>2. Shutdown!Commit(Server)
      BY <2>2, <2>3, <3>1 DEF Shutdown!Commit
    <3> QED BY <3>2 DEF Shutdown!Next
  <2>4. CASE \E place \in {"joining", "loop"} : pc' = [pc EXCEPT ![Server] = place]
    BY <2>2, <2>4, ServerUnseen
  <2> QED BY <2>1, <2>3, <2>4
<1>4. CASE AcceptCurrent
  <2>1. PICK c \in waiting : pc' = [pc EXCEPT ![Server] = "loop", ![c] = "greeting"]
    BY <1>4 DEF AcceptCurrent
  <2>2. /\ c \in Clients /\ c # Server /\ pc[Server] = "accepting" /\ pc[c] = "unborn"
        /\ UNCHANGED terminateRequested
    BY <1>4, ServerAssumption DEF Inv, LinksTyped, Queued, AcceptCurrent
  <2>3. /\ pc'[Server] = "loop" /\ pc'[c] = "greeting"
        /\ \A d \in Clients \ {c} : pc'[d] = pc[d]
    BY <2>1, <2>2, ServerAssumption DEF Inv, PlacesTyped, Threads
  <2>4. c \notin Working /\ Working' = Working \cup {c}
    BY <2>2, <2>3 DEF Working
  <2>5. Server \in CommittedTo /\ CommittedTo' = CommittedTo \ {Server}
    BY <2>2, <2>3, ServerAssumption DEF CommittedTo
  <2>6. Shutdown!TakeOn(c)
    BY <2>2, <2>3, <2>4, <2>5 DEF Shutdown!TakeOn
  <2> QED BY <2>2, <2>6 DEF Shutdown!Next
<1>5. CASE AcceptThrows
  <2>1. /\ pc[Server] = "accepting" /\ pc' = [pc EXCEPT ![Server] = "joining"]
        /\ UNCHANGED terminateRequested
    BY <1>5 DEF AcceptThrows, Goto
  <2>2. /\ Working' = Working /\ CommittedTo' = CommittedTo \ {Server}
        /\ Server \in CommittedTo /\ pc'[Server] = "joining"
    BY <2>1, ServerMapped
  <2>3. Shutdown!Complete(Server)
    BY <2>1, <2>2 DEF Shutdown!Complete
  <2> QED BY <2>3 DEF Shutdown!Next
<1>6. CASE JoinNext
  <2>1. UNCHANGED <<pc, terminateRequested>>
    BY <1>6 DEF JoinNext
  <2>2. Unseen
    BY <2>1 DEF Unseen, Working, CommittedTo
  <2> QED BY <2>2, UnseenStutters
<1>7. CASE ServerEnds
  <2>1. /\ pc[Server] = "joining" /\ pc' = [pc EXCEPT ![Server] = "over"]
        /\ joining > Len(acceptedThreads) /\ UNCHANGED terminateRequested
    BY <1>7 DEF ServerEnds, Goto
  <2>2. Working = {}
    BY <2>1 DEF Inv, Kept, VectorTyped
  <2>3. /\ Working' = Working /\ CommittedTo' = CommittedTo
        /\ Server \notin CommittedTo /\ pc'[Server] = "over"
    BY <2>1, ServerMapped
  <2>4. Shutdown!End
    BY <2>1, <2>2, <2>3 DEF Shutdown!End
  <2> QED BY <2>4 DEF Shutdown!Next
<1> QED BY <1>1, <1>2, <1>3, <1>4, <1>5, <1>6, <1>7 DEF ServerStep

\* The initial states are mapped to the abstract one.
LEMMA InitMapped == Init => Shutdown!Init
<1> SUFFICES ASSUME Init PROVE Shutdown!Init
  OBVIOUS
<1>1. pc[Server] = "loop" /\ \A c \in Clients : pc[c] = "unborn"
  BY ServerAssumption DEF Init, Threads
<1>2. Working = {} /\ CommittedTo = {}
  BY <1>1 DEF Working, CommittedTo
<1> QED BY <1>1, <1>2 DEF Init, Shutdown!Init

\* So is every step, or it is a stutter.
LEMMA NextMapped == Inv /\ [Next]_vars => [Shutdown!Next]_(Shutdown!vars)
<1> SUFFICES ASSUME Inv, [Next]_vars PROVE [Shutdown!Next]_(Shutdown!vars)
  OBVIOUS
<1>1. CASE UNCHANGED vars
  <2>1. Unseen
    BY <1>1 DEF vars, Unseen, Working, CommittedTo
  <2> QED BY <2>1, UnseenStutters
<1>2. ASSUME NEW c \in Clients, ClientStep(c) \/ BrokenPipe(c)
      PROVE  UNCHANGED Shutdown!vars
  <2>1. UNCHANGED <<pc, terminateRequested>>
    BY <1>2 DEF ClientStep, Connect, TakeReply, Hangup, Type, BrokenPipe, programVars
  <2>2. Unseen
    BY <2>1 DEF Unseen, Working, CommittedTo
  <2> QED BY <2>2, UnseenStutters
<1>3. CASE Next
  BY <1>2, <1>3, ServerStepMapped, HandlerStepMapped DEF Next
<1> QED BY <1>1, <1>3

(***************************************************************************)
(* CommandServer keeps the promise of GracefulShutdown: after a request    *)
(* nobody decides on more work, and the end comes after the last handler.  *)
(***************************************************************************)
THEOREM Graceful == Spec => ShutdownIsGraceful
<1> QED BY InitMapped, NextMapped, Invariance, PTL DEF Spec, ShutdownIsGraceful, Shutdown!Spec
-----------------------------------------------------------------------------
(***************************************************************************)
(* Types.  The counter of greetings stays in its range because a handler   *)
(* that is greeting has one left to send.                                  *)
(***************************************************************************)
UnsentTyped ==
  /\ unsent \in [Clients -> 0..Greetings]
  /\ \A c \in Clients : pc[c] = "greeting" => unsent[c] > 0

SeenTyped == seen \in [Threads -> SelectResults] /\ killed \in BOOLEAN

InboxTyped ==
  /\ inbox \in [Clients -> Seq(Lines)]
  /\ \A c \in Clients : Len(inbox[c]) <= InboxCap

LineTyped == line \in [Clients -> Lines]

OutboxTyped == outbox \in [Clients -> 0..OutboxCap]

TypeInv == Inv /\ UnsentTyped /\ SeenTyped /\ InboxTyped /\ LineTyped /\ OutboxTyped

\* Initially every local is unused and every connection empty.
LEMMA InitTypeInv == Init => TypeInv
<1> SUFFICES ASSUME Init PROVE TypeInv
  OBVIOUS
<1>1. UnsentTyped
  BY ServerAssumption DEF Init, UnsentTyped, Greetings, Threads
<1>2. SeenTyped /\ LineTyped
  BY DEF Init, SeenTyped, SelectResults, LineTyped, Lines
<1>3. InboxTyped /\ OutboxTyped
  BY ServerAssumption DEF Init, InboxTyped, OutboxTyped
<1> QED BY <1>1, <1>2, <1>3, InitInv DEF TypeInv

\* Greet() alone sends greetings, and AcceptCurrent alone makes a handler greet.
LEMMA UnsentHolds ==
  ASSUME TypeInv, Next
  PROVE  UnsentTyped'
<1> USE DEF Greetings
<1>0. /\ pc \in [Threads -> HandlerPlaces \cup ServerPlaces]
      /\ unsent \in [Clients -> 0..3] /\ \A c \in Clients : c \in Threads /\ c # Server
      /\ \A c \in Clients : pc[c] = "greeting" => unsent[c] > 0
  BY ServerAssumption DEF TypeInv, UnsentTyped, Inv, PlacesTyped, Threads
<1>1. ASSUME NEW c \in Clients, Greet(c) PROVE UnsentTyped'
  <2>1. pc[c] = "greeting" /\ unsent[c] \in 1..3
    BY <1>0, <1>1 DEF Greet
  <2>2. CASE /\ unsent' = [unsent EXCEPT ![c] = @ - 1]
             /\ pc' = [pc EXCEPT ![c] = IF unsent[c] = 1 THEN "loop" ELSE "greeting"]
    BY <1>0, <2>1, <2>2 DEF UnsentTyped
  <2>3. CASE unsent' = [unsent EXCEPT ![c] = 0] /\ pc' = [pc EXCEPT ![c] = "loop"]
    BY <1>0, <2>3 DEF UnsentTyped
  <2> QED BY <1>1, <2>2, <2>3 DEF Greet, Goto
<1>2. ASSUME AcceptCurrent PROVE UnsentTyped'
  <2>1. PICK c \in waiting : /\ unsent' = [unsent EXCEPT ![c] = 3]
                             /\ pc' = [pc EXCEPT ![Server] = "loop", ![c] = "greeting"]
    BY <1>2 DEF AcceptCurrent
  <2>2. c \in Clients
    BY DEF TypeInv, Inv, LinksTyped
  <2> QED BY <1>0, <2>1, <2>2 DEF UnsentTyped
<1>3. ASSUME NEW t \in Threads, NEW place, place # "greeting",
             UNCHANGED unsent, pc' = [pc EXCEPT ![t] = place]
      PROVE  UnsentTyped'
  BY <1>0, <1>3 DEF UnsentTyped
<1>4. ASSUME UNCHANGED <<pc, unsent>> PROVE UnsentTyped'
  BY <1>0, <1>4 DEF UnsentTyped
<1>5. ASSUME NEW c \in Clients, HandlerStep(c) PROVE UnsentTyped'
  <2> USE <1>0, <1>3 DEF Goto, handlerVars
  <2>1. CASE HandlerTests(c)
    BY <2>1 DEF HandlerTests, LoopTest
  <2>2. CASE HandlerSelects(c)
    BY <2>2 DEF HandlerSelects, SelectReturns
  <2>3. CASE HandlerTestsAgain(c)
    BY <2>3 DEF HandlerTestsAgain, SecondTest
  <2>4. CASE ReadCurrent(c)
    BY <2>4 DEF ReadCurrent
  <2>5. CASE ActOn(c)
    BY <2>5 DEF ActOn, AfterReply
  <2>6. CASE StoreRequest(c)
    BY <2>6 DEF StoreRequest
  <2>7. CASE Leave(c)
    BY <2>7 DEF Leave
  <2> QED BY <1>1, <1>5, <2>1, <2>2, <2>3, <2>4, <2>5, <2>6, <2>7 DEF HandlerStep
<1>6. ASSUME ServerStep PROVE UnsentTyped'
  <2>0. Server \in Threads
    BY DEF Threads
  <2> USE <2>0, <1>3 DEF Goto, handlerVars
  <2>1. CASE ServerTests
    BY <2>1 DEF ServerTests, LoopTest
  <2>2. CASE ServerSelects
    BY <2>2 DEF ServerSelects, SelectReturns
  <2>3. CASE ServerTestsAgain
    BY <2>3 DEF ServerTestsAgain, SecondTest
  <2>4. CASE AcceptThrows
    BY <2>4 DEF AcceptThrows
  <2>5. CASE JoinNext
    BY <2>5, <1>4 DEF JoinNext
  <2>6. CASE ServerEnds
    BY <2>6 DEF ServerEnds
  <2> QED BY <1>2, <1>6, <2>1, <2>2, <2>3, <2>4, <2>5, <2>6 DEF ServerStep
<1>7. ASSUME NEW c \in Clients, ClientStep(c) \/ BrokenPipe(c) PROVE UnsentTyped'
  BY <1>4, <1>7 DEF ClientStep, Connect, TakeReply, Hangup, Type, BrokenPipe,
                    programVars, handlerVars
<1> QED BY <1>5, <1>6, <1>7 DEF Next

\* The locals and connections: what each step writes is of the right kind.
LEMMA DataHolds ==
  ASSUME TypeInv, Next
  PROVE  SeenTyped' /\ InboxTyped' /\ LineTyped' /\ OutboxTyped'
<1>0. ASSUME UNCHANGED <<seen, killed, line, inbox, outbox>>
      PROVE  SeenTyped' /\ InboxTyped' /\ LineTyped' /\ OutboxTyped'
  BY <1>0 DEF TypeInv, SeenTyped, InboxTyped, LineTyped, OutboxTyped
<1>1. ASSUME NEW t \in Threads, NEW r \in SelectResults, seen' = [seen EXCEPT ![t] = r],
             UNCHANGED <<killed, line, inbox, outbox>>
      PROVE  SeenTyped' /\ InboxTyped' /\ LineTyped' /\ OutboxTyped'
  BY <1>1 DEF TypeInv, SeenTyped, InboxTyped, LineTyped, OutboxTyped
<1>2. ASSUME NEW c \in Clients, SendSucceeds(c) \/ SendThrows(c)
      PROVE  OutboxTyped'
  BY <1>2, ServerAssumption DEF TypeInv, OutboxTyped, SendSucceeds, SendThrows
<1>3. ASSUME NEW t \in Threads, NEW place, LoopTest(t, place)
      PROVE  SeenTyped' /\ InboxTyped' /\ LineTyped' /\ OutboxTyped'
  BY <1>0, <1>3 DEF LoopTest, handlerVars, netVars
<1>4. ASSUME NEW t \in Threads, NEW ready, NEW place, SelectReturns(t, ready, place)
      PROVE  SeenTyped' /\ InboxTyped' /\ LineTyped' /\ OutboxTyped'
  BY <1>0, <1>1, <1>4 DEF SelectReturns, netVars, SelectResults
<1>5. ASSUME NEW t \in Threads, NEW work, NEW place, SecondTest(t, work, place)
      PROVE  SeenTyped' /\ InboxTyped' /\ LineTyped' /\ OutboxTyped'
  BY <1>1, <1>5 DEF SecondTest, netVars, SelectResults
<1>6. ASSUME NEW c \in Clients, HandlerStep(c)
      PROVE  SeenTyped' /\ InboxTyped' /\ LineTyped' /\ OutboxTyped'
  <2>0. c \in Threads
    BY DEF Threads
  <2>1. CASE Greet(c)
    <3>1. UNCHANGED <<seen, killed, line, inbox>>
      BY <2>1 DEF Greet
    <3>2. OutboxTyped'
      BY <1>2, <2>1 DEF Greet
    <3> QED BY <3>1, <3>2 DEF TypeInv, SeenTyped, InboxTyped, LineTyped
  <2>2. CASE HandlerTests(c) \/ HandlerSelects(c) \/ HandlerTestsAgain(c)
    BY <2>0, <2>2, <1>3, <1>4, <1>5 DEF HandlerTests, HandlerSelects, HandlerTestsAgain
  <2>3. CASE ReadCurrent(c)
    <3>1. UNCHANGED <<seen, killed, outbox>>
      BY <2>3 DEF ReadCurrent
    <3>2. CASE UNCHANGED <<inbox, line>>
      BY <3>1, <3>2, <1>0
    <3>3. ASSUME NEW n \in 1..Len(inbox[c]),
                 inbox' = [inbox EXCEPT ![c] = SubSeq(@, n + 1, Len(@))],
                 line' = [line EXCEPT ![c] = Head(inbox[c])]
          PROVE  InboxTyped' /\ LineTyped'
      <4> DEFINE s == inbox[c]
      <4>1. s \in Seq(Lines) /\ Len(s) \in Nat /\ Len(s) <= InboxCap
        BY DEF TypeInv, InboxTyped
      <4>2. \A i \in 1..Len(s) : s[i] \in Lines
        BY <4>1
      <4>3. Head(s) \in Lines
        BY <3>3, <4>1, <4>2
      <4>4. /\ SubSeq(s, n + 1, Len(s)) \in Seq(Lines)
            /\ Len(SubSeq(s, n + 1, Len(s))) <= InboxCap
        BY <3>3, <4>1, <4>2, ServerAssumption, SubSeqProperties
      <4>5. inbox' = [inbox EXCEPT ![c] = SubSeq(s, n + 1, Len(s))]
        BY <3>3
      <4> HIDE DEF s
      <4>6. InboxTyped'
        BY <4>4, <4>5 DEF TypeInv, InboxTyped
      <4> QED BY <3>3, <4>3, <4>6 DEF TypeInv, LineTyped, s
    <3> QED BY <2>3, <3>1, <3>2, <3>3
            DEF ReadCurrent, TypeInv, SeenTyped, OutboxTyped
  <2>4. CASE ActOn(c)
    <3>1. UNCHANGED <<seen, killed, inbox>> /\ line' = [line EXCEPT ![c] = "text"]
      BY <2>4 DEF ActOn
    <3>2. OutboxTyped'
      BY <1>2, <2>4 DEF ActOn
    <3> QED BY <3>1, <3>2 DEF TypeInv, SeenTyped, InboxTyped, LineTyped, Lines
  <2>5. CASE StoreRequest(c)
    BY <1>0, <2>5 DEF StoreRequest, handlerVars, netVars
  <2>6. CASE Leave(c)
    <3>1. /\ UNCHANGED <<seen, line, killed>>
          /\ inbox' = [inbox EXCEPT ![c] = <<>>] /\ outbox' = [outbox EXCEPT ![c] = 0]
      BY <2>6 DEF Leave, handlerVars
    <3> QED BY <3>1, ServerAssumption
            DEF TypeInv, SeenTyped, InboxTyped, LineTyped, OutboxTyped
  <2> QED BY <1>6, <2>1, <2>2, <2>3, <2>4, <2>5, <2>6 DEF HandlerStep
<1>7. ASSUME ServerStep
      PROVE  SeenTyped' /\ InboxTyped' /\ LineTyped' /\ OutboxTyped'
  <2>0. Server \in Threads
    BY DEF Threads
  <2>1. CASE ServerTests \/ ServerSelects \/ ServerTestsAgain
    BY <2>0, <2>1, <1>3, <1>4, <1>5 DEF ServerTests, ServerSelects, ServerTestsAgain
  <2>2. CASE AcceptCurrent \/ AcceptThrows \/ JoinNext \/ ServerEnds
    BY <1>0, <2>2 DEF AcceptCurrent, AcceptThrows, JoinNext, ServerEnds, handlerVars, netVars
  <2> QED BY <1>7, <2>1, <2>2 DEF ServerStep
<1>8. ASSUME NEW c \in Clients, ClientStep(c) \/ BrokenPipe(c)
      PROVE  SeenTyped' /\ InboxTyped' /\ LineTyped' /\ OutboxTyped'
  <2>1. UNCHANGED <<seen, line>>
    BY <1>8 DEF ClientStep, Connect, TakeReply, Hangup, Type, BrokenPipe, programVars, handlerVars
  <2>2. SeenTyped' /\ LineTyped'
    BY <1>8, <2>1 DEF ClientStep, Connect, TakeReply, Hangup, Type, BrokenPipe,
                      TypeInv, SeenTyped, LineTyped
  <2>3. InboxTyped'
    <3>1. ASSUME NEW l \in Typed, Type(c, l) PROVE InboxTyped'
      <4>1. inbox[c] \in Seq(Lines) /\ l \in Lines /\ Len(inbox[c]) < InboxCap
        BY <3>1, ServerAssumption DEF Type, TypeInv, InboxTyped
      <4>2. /\ Append(inbox[c], l) \in Seq(Lines)
            /\ Len(Append(inbox[c], l)) <= InboxCap
        BY <4>1, ServerAssumption
      <4> QED BY <3>1, <4>2 DEF Type, TypeInv, InboxTyped
    <3>2. CASE UNCHANGED inbox
      BY <3>2 DEF TypeInv, InboxTyped
    <3> QED BY <1>8, <3>1, <3>2 DEF ClientStep, Connect, TakeReply, Hangup, BrokenPipe, netVars
  <2>4. OutboxTyped'
    BY <1>8, ServerAssumption DEF ClientStep, Connect, TakeReply, Hangup, Type, BrokenPipe,
                                  netVars, TypeInv, OutboxTyped
  <2> QED BY <2>2, <2>3, <2>4
<1> QED BY <1>6, <1>7, <1>8 DEF Next

(***************************************************************************)
(* Types, for any number of clients and any capacity of their connections. *)
(***************************************************************************)
THEOREM TypeCorrect == Spec => []TypeOK
<1>1. TypeInv /\ [Next]_vars => TypeInv'
  <2> SUFFICES ASSUME TypeInv, [Next]_vars PROVE TypeInv'
    OBVIOUS
  <2>1. Inv'
    BY NextInv DEF TypeInv
  <2>2. CASE UNCHANGED vars
    BY <2>1, <2>2 DEF vars, TypeInv, UnsentTyped, SeenTyped, InboxTyped, LineTyped, OutboxTyped
  <2>3. CASE Next
    BY <2>1, <2>3, UnsentHolds, DataHolds DEF TypeInv
  <2> QED BY <2>2, <2>3
<1>2. TypeInv => TypeOK
  BY DEF TypeInv, Inv, PlacesTyped, VectorTyped, LinksTyped, UnsentTyped, SeenTyped,
         InboxTyped, LineTyped, OutboxTyped, TypeOK
<1> QED BY InitTypeInv, <1>1, <1>2, PTL DEF Spec
-----------------------------------------------------------------------------
\* The server stops accepting only on request (CommandServerExample.cpp:155-194).
EndsOnRequest == pc[Server] \in {"joining", "over"} => terminateRequested

(***************************************************************************)
(* Without faults the server's select() reports no error, so only the flag *)
(* takes it out of its loop, and nobody clears the flag.                   *)
(***************************************************************************)
RequestInv == EndsOnRequest /\ seen \in [Threads -> SelectResults] /\ seen[Server] # "error"

\* A step that leaves the server in its loop, or after a request, keeps it.
LEMMA NextRequest ==
  ASSUME ~Faults, Inv, RequestInv, Next
  PROVE  RequestInv'
<1>0. /\ Server \in Threads /\ \A c \in Clients : c # Server /\ c \in Threads
      /\ pc \in [Threads -> HandlerPlaces \cup ServerPlaces]
      /\ waiting \subseteq Clients
  BY ServerAssumption DEF Threads, Inv, PlacesTyped, LinksTyped
<1> USE <1>0
<1>1. ASSUME NEW c \in Clients, HandlerStep(c) PROVE RequestInv'
  <2>1. terminateRequested => terminateRequested'
    BY <1>1 DEF HandlerStep, Greet, HandlerTests, LoopTest, HandlerSelects, SelectReturns,
                HandlerTestsAgain, SecondTest, ReadCurrent, ActOn, StoreRequest, Leave
  <2>2. pc'[Server] = pc[Server]
    BY <1>1 DEF HandlerStep, Greet, HandlerTests, LoopTest, HandlerSelects, SelectReturns,
                HandlerTestsAgain, SecondTest, ReadCurrent, ActOn, StoreRequest, Leave, Goto
  <2>3. seen' \in [Threads -> SelectResults] /\ seen'[Server] = seen[Server]
    <3>1. CASE HandlerSelects(c) \/ HandlerTestsAgain(c)
      BY <3>1 DEF HandlerSelects, SelectReturns, HandlerTestsAgain, SecondTest,
                  RequestInv, SelectResults
    <3>2. CASE UNCHANGED seen
      BY <3>2 DEF RequestInv
    <3> QED BY <1>1, <3>1, <3>2
            DEF HandlerStep, Greet, HandlerTests, LoopTest, ReadCurrent, ActOn,
                StoreRequest, Leave, handlerVars
  <2> QED BY <2>1, <2>2, <2>3 DEF RequestInv, EndsOnRequest
<1>2. ASSUME ServerStep PROVE RequestInv'
  <2>1. CASE ServerTests
    BY <2>1 DEF ServerTests, LoopTest, Goto, Requested, handlerVars, RequestInv, EndsOnRequest
  <2>2. CASE ServerSelects
    BY <2>2 DEF ServerSelects, SelectReturns, Goto, RequestInv, EndsOnRequest, SelectResults
  <2>3. CASE ServerTestsAgain
    BY <2>3 DEF ServerTestsAgain, SecondTest, Goto, Requested, RequestInv, EndsOnRequest,
                SelectResults
  <2>4. CASE AcceptCurrent
    BY <2>4 DEF AcceptCurrent, RequestInv, EndsOnRequest
  <2>5. CASE AcceptThrows
    BY <2>5 DEF AcceptThrows
  <2>6. CASE JoinNext \/ ServerEnds
    BY <2>6 DEF JoinNext, ServerEnds, Goto, handlerVars, RequestInv, EndsOnRequest
  <2> QED BY <1>2, <2>1, <2>2, <2>3, <2>4, <2>5, <2>6 DEF ServerStep
<1>3. ASSUME NEW c \in Clients, ClientStep(c) \/ BrokenPipe(c) PROVE RequestInv'
  BY <1>3 DEF ClientStep, Connect, TakeReply, Hangup, Type, BrokenPipe,
              programVars, handlerVars, RequestInv, EndsOnRequest
<1> QED BY <1>1, <1>2, <1>3 DEF Next

(***************************************************************************)
(* Without faults the server leaves its loop only when a client asked it   *)
(* to (CommandServerExample.cpp:158-194).                                  *)
(***************************************************************************)
THEOREM EndsOnlyOnRequest ==
  ASSUME ~Faults
  PROVE  Spec => []EndsOnRequest
<1>1. Init => RequestInv
  BY DEF Init, RequestInv, EndsOnRequest, Threads, SelectResults
<1>2. Inv /\ RequestInv /\ [Next]_vars => RequestInv'
  BY NextRequest DEF vars, RequestInv, EndsOnRequest
<1>3. RequestInv => EndsOnRequest
  BY DEF RequestInv
<1> QED BY <1>1, <1>2, <1>3, Invariance, PTL DEF Spec
=============================================================================
