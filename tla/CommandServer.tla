--------------------------- MODULE CommandServer ---------------------------
(***************************************************************************)
(* examples/CommandServerExample.cpp: a server thread that selects on a    *)
(* ServerSocket and accepts each connection into a thread of its own, the  *)
(* CommandHandler threads, and the atomic flag `terminateRequested' by     *)
(* which a client ends them all.                                           *)
(*                                                                         *)
(* A step is a load or a store of the flag, or a system call with the code *)
(* up to the next one.  A client and the handler of its connection have    *)
(* the same name.  What a client types is a line, reduced to what actOn()  *)
(* makes of its beginning.                                                 *)
(***************************************************************************)
EXTENDS Naturals, Sequences

CONSTANTS
  Clients,    \* bound: each connects once
  Server,     \* the server thread
  Typed,      \* the lines that clients type
  InboxCap,   \* bound: lines a connection holds for the handler
  OutboxCap,  \* replies a connection holds for the client
  Faults      \* whether select() and accept() may fail

Lines == {"terminate", "quit", "text"}

ASSUME ServerAssumption ==
  /\ Server \notin Clients
  /\ Typed \subseteq Lines
  /\ InboxCap \in Nat /\ OutboxCap \in Nat
  /\ Faults \in BOOLEAN

VARIABLES
  terminateRequested,
  acceptedThreads,  \* the threads, by the client they serve
  joining,          \* index of the thread the server joins next
  pc,               \* where each thread is
  unsent,           \* greeting lines a handler has still to send
  seen,             \* what a thread's last select() said
  line,             \* the line a handler is acting on
  waiting,          \* connections in the ServerSocket's queue
  link,             \* state of each connection
  inbox, outbox,    \* lines and number of replies under way
  killed            \* a signal has ended the process

handlerVars == <<unsent, seen, line>>
netVars == <<waiting, link, inbox, outbox>>
vars == <<terminateRequested, acceptedThreads, joining, pc, unsent, seen, line,
          waiting, link, inbox, outbox, killed>>
-----------------------------------------------------------------------------
Threads == Clients \cup {Server}

SelectResults == {"nothing", "ready", "error"}

HandlerPlaces ==
  {"unborn", "greeting", "loop", "selecting", "selected", "reading", "replying",
   "storing", "leaving", "over"}

ServerPlaces ==
  {"loop", "selecting", "selected", "accepting", "joining", "over"}

\* "closed": by the client; "reset": as far as the handler can tell, broken.
LinkStates == {"none", "open", "closed", "reset", "done"}

Greetings == 3

TypeOK ==
  /\ terminateRequested \in BOOLEAN /\ killed \in BOOLEAN
  /\ acceptedThreads \in Seq(Clients)
  /\ joining \in 1..(Len(acceptedThreads) + 1)
  /\ pc \in [Threads -> HandlerPlaces \cup ServerPlaces]
  /\ pc[Server] \in ServerPlaces
  /\ \A c \in Clients : pc[c] \in HandlerPlaces
  /\ unsent \in [Clients -> 0..Greetings]
  /\ seen \in [Threads -> SelectResults]
  /\ line \in [Clients -> Lines]
  /\ waiting \subseteq Clients
  /\ link \in [Clients -> LinkStates]
  /\ inbox \in [Clients -> Seq(Lines)]
  /\ \A c \in Clients : Len(inbox[c]) <= InboxCap
  /\ outbox \in [Clients -> 0..OutboxCap]

Init ==
  /\ terminateRequested = FALSE /\ killed = FALSE
  /\ acceptedThreads = <<>> /\ joining = 1
  /\ pc = [t \in Threads |-> IF t = Server THEN "loop" ELSE "unborn"]
  /\ unsent = [c \in Clients |-> 0]
  /\ seen = [t \in Threads |-> "nothing"]
  /\ line = [c \in Clients |-> "text"]
  /\ waiting = {}
  /\ link = [c \in Clients |-> "none"]
  /\ inbox = [c \in Clients |-> <<>>]
  /\ outbox = [c \in Clients |-> 0]

Goto(t, place) == pc' = [pc EXCEPT ![t] = place]

\* Mutant: a plain bool whose load was moved out of the loops.
RequestedCached == FALSE

Requested == terminateRequested

(***************************************************************************)
(* The loop of both threads: look at the flag, select, look again.  `quit' *)
(* is where a thread goes when it is done, `work' where it goes when its   *)
(* socket is ready.                                                        *)
(***************************************************************************)
LoopTest(t, quit) ==
  /\ pc[t] = "loop"
  /\ Goto(t, IF Requested THEN quit ELSE "selecting")
  /\ UNCHANGED <<terminateRequested, acceptedThreads, joining, handlerVars, netVars, killed>>

SelectReturns(t, isReady, quit) ==
  /\ pc[t] = "selecting"
  /\ \/ /\ seen' = [seen EXCEPT ![t] = IF isReady THEN "ready" ELSE "nothing"]
        /\ Goto(t, "selected")
     \/ Faults /\ seen' = [seen EXCEPT ![t] = "error"] /\ Goto(t, "selected")
     \/ Faults /\ Goto(t, quit) /\ UNCHANGED seen
  /\ UNCHANGED <<terminateRequested, acceptedThreads, joining, unsent, line, netVars, killed>>

SecondTest(t, work, quit) ==
  /\ pc[t] = "selected"
  /\ Goto(t, IF Requested \/ seen[t] = "error" THEN quit
             ELSE IF seen[t] = "ready" THEN work ELSE "loop")
  /\ seen' = [seen EXCEPT ![t] = "nothing"]
  /\ UNCHANGED <<terminateRequested, acceptedThreads, joining, unsent, line, netVars, killed>>
-----------------------------------------------------------------------------
(***************************************************************************)
(* CommandHandler.                                                         *)
(***************************************************************************)

\* A read would not block.
Readable(c) == inbox[c] # <<>> \/ link[c] \in {"closed", "reset"}

(***************************************************************************)
(* send(): waits for room; a connection closed at the other end takes it,  *)
(* and may answer that it is broken.                                       *)
(***************************************************************************)
SendSucceeds(c) ==
  \/ /\ link[c] = "open" /\ outbox[c] < OutboxCap
     /\ outbox' = [outbox EXCEPT ![c] = @ + 1]
     /\ UNCHANGED link
  \/ /\ link[c] = "closed"
     /\ \E st \in {"closed", "reset"} : link' = [link EXCEPT ![c] = st]
     /\ UNCHANGED outbox

SendThrows(c) == link[c] = "reset" /\ UNCHANGED <<link, outbox>>

\* Mutant: one greeting too many.
GreetOnceMore(c) ==
  /\ pc[c] = "greeting" /\ SendSucceeds(c)
  /\ unsent' = [unsent EXCEPT ![c] = @ - 1]
  /\ Goto(c, IF unsent[c] = 0 THEN "loop" ELSE "greeting")
  /\ UNCHANGED <<terminateRequested, acceptedThreads, joining, seen, line, waiting, inbox, killed>>

\* The constructor's sends; an exception skips the ones that are left.
Greet(c) ==
  /\ pc[c] = "greeting"
  /\ \/ /\ SendSucceeds(c)
        /\ unsent' = [unsent EXCEPT ![c] = @ - 1]
        /\ Goto(c, IF unsent[c] = 1 THEN "loop" ELSE "greeting")
     \/ /\ SendThrows(c)
        /\ unsent' = [unsent EXCEPT ![c] = 0]
        /\ Goto(c, "loop")
  /\ UNCHANGED <<terminateRequested, acceptedThreads, joining, seen, line, waiting, inbox, killed>>

HandlerTests(c) == LoopTest(c, "leaving")
HandlerSelects(c) == SelectReturns(c, Readable(c), "leaving")
HandlerTestsAgain(c) == SecondTest(c, "reading", "leaving")

(***************************************************************************)
(* readCurrent(): a read returns what has arrived, however many lines, and *)
(* only the beginning is looked at; 0 bytes send the handler round again.  *)
(***************************************************************************)
ReadCurrent(c) ==
  /\ pc[c] = "reading"
  /\ \/ \E n \in 1..Len(inbox[c]) :
          /\ inbox' = [inbox EXCEPT ![c] = SubSeq(@, n + 1, Len(@))]
          /\ line' = [line EXCEPT ![c] = Head(inbox[c])]
          /\ Goto(c, "replying")
     \/ /\ inbox[c] = <<>> /\ link[c] \in {"closed", "reset"}
        /\ Goto(c, "loop")
        /\ UNCHANGED <<inbox, line>>
     \/ /\ inbox[c] = <<>> /\ link[c] = "reset"
        /\ Goto(c, "leaving")
        /\ UNCHANGED <<inbox, line>>
  /\ UNCHANGED <<terminateRequested, acceptedThreads, joining, unsent, seen,
                 waiting, link, outbox, killed>>

\* actOn(): the reply comes first.
AfterReply(l) ==
  CASE l = "terminate" -> "storing" [] l = "quit" -> "leaving" [] OTHER -> "loop"

ActOn(c) ==
  /\ pc[c] = "replying"
  /\ \/ SendSucceeds(c) /\ Goto(c, AfterReply(line[c]))
     \/ SendThrows(c) /\ Goto(c, "leaving")
  /\ line' = [line EXCEPT ![c] = "text"]
  /\ UNCHANGED <<terminateRequested, acceptedThreads, joining, unsent, seen, waiting, inbox, killed>>

StoreRequest(c) ==
  /\ pc[c] = "storing"
  /\ terminateRequested' = TRUE
  /\ Goto(c, "leaving")
  /\ UNCHANGED <<acceptedThreads, joining, handlerVars, netVars, killed>>

\* The thread's function is back: the Socket is closed and the thread over.
Leave(c) ==
  /\ pc[c] = "leaving"
  /\ Goto(c, "over")
  /\ link' = [link EXCEPT ![c] = "done"]
  /\ inbox' = [inbox EXCEPT ![c] = <<>>]
  /\ outbox' = [outbox EXCEPT ![c] = 0]
  /\ UNCHANGED <<terminateRequested, acceptedThreads, joining, handlerVars, waiting, killed>>

HandlerStep(c) ==
  \/ Greet(c) \/ HandlerTests(c) \/ HandlerSelects(c) \/ HandlerTestsAgain(c)
  \/ ReadCurrent(c) \/ ActOn(c) \/ StoreRequest(c) \/ Leave(c)
-----------------------------------------------------------------------------
(***************************************************************************)
(* CommandServer.                                                          *)
(***************************************************************************)
ServerTests == LoopTest(Server, "joining")

\* Mutant: select() is not asked about reading.
ServerSelectsNoRead == SelectReturns(Server, FALSE, "joining")

ServerSelects == SelectReturns(Server, waiting # {}, "joining")
ServerTestsAgain == SecondTest(Server, "accepting", "joining")

(***************************************************************************)
(* acceptInNewThread() and push_back(); only the server looks at the       *)
(* vector, so nothing can come between the two.                            *)
(***************************************************************************)
AcceptCurrent ==
  /\ pc[Server] = "accepting"
  /\ \E c \in waiting :
       /\ waiting' = waiting \ {c}
       /\ acceptedThreads' = Append(acceptedThreads, c)
       /\ pc' = [pc EXCEPT ![Server] = "loop", ![c] = "greeting"]
       /\ unsent' = [unsent EXCEPT ![c] = Greetings]
  /\ UNCHANGED <<terminateRequested, joining, seen, line, link, inbox, outbox, killed>>

\* It throws; a connection may be lost, or left open with nobody to serve it.
AcceptThrows ==
  /\ Faults /\ pc[Server] = "accepting"
  /\ \/ UNCHANGED <<waiting, link>>
     \/ \E c \in waiting : /\ waiting' = waiting \ {c}
                           /\ \/ link[c] = "open" /\ link' = [link EXCEPT ![c] = "reset"]
                              \/ UNCHANGED link
  /\ Goto(Server, "joining")
  /\ UNCHANGED <<terminateRequested, acceptedThreads, joining, handlerVars, inbox, outbox, killed>>

\* Mutant: the last thread is not waited for.
JoinNextButLast ==
  /\ pc[Server] = "joining" /\ joining <= Len(acceptedThreads)
  /\ pc[acceptedThreads[joining]] = "over" \/ joining = Len(acceptedThreads)
  /\ joining' = joining + 1
  /\ UNCHANGED <<terminateRequested, acceptedThreads, pc, handlerVars, netVars, killed>>

JoinNext ==
  /\ pc[Server] = "joining" /\ joining <= Len(acceptedThreads)
  /\ pc[acceptedThreads[joining]] = "over"
  /\ joining' = joining + 1
  /\ UNCHANGED <<terminateRequested, acceptedThreads, pc, handlerVars, netVars, killed>>

\* All are joined: the CommandServer, its flag and its ServerSocket go.
ServerEnds ==
  /\ pc[Server] = "joining" /\ joining > Len(acceptedThreads)
  /\ Goto(Server, "over")
  /\ link' = [c \in Clients |-> IF c \in waiting /\ link[c] = "open" THEN "reset" ELSE link[c]]
  /\ waiting' = {}
  /\ UNCHANGED <<terminateRequested, acceptedThreads, joining, handlerVars, inbox, outbox, killed>>

ServerStep ==
  \/ ServerTests \/ ServerSelects \/ ServerTestsAgain \/ AcceptCurrent
  \/ AcceptThrows \/ JoinNext \/ ServerEnds
-----------------------------------------------------------------------------
(***************************************************************************)
(* Clients, and the signal that send() raises on a broken connection.      *)
(***************************************************************************)
programVars == <<terminateRequested, acceptedThreads, joining, pc, handlerVars>>

Connect(c) ==
  /\ link[c] = "none" /\ pc[Server] # "over"
  /\ link' = [link EXCEPT ![c] = "open"]
  /\ waiting' = waiting \cup {c}
  /\ UNCHANGED <<programVars, inbox, outbox, killed>>

Type(c, l) ==
  /\ link[c] = "open" /\ Len(inbox[c]) < InboxCap
  /\ inbox' = [inbox EXCEPT ![c] = Append(@, l)]
  /\ UNCHANGED <<programVars, waiting, link, outbox, killed>>

TakeReply(c) ==
  /\ link[c] = "open" /\ outbox[c] > 0
  /\ outbox' = [outbox EXCEPT ![c] = @ - 1]
  /\ UNCHANGED <<programVars, waiting, link, inbox, killed>>

\* A close() with replies unread breaks the connection at once.
Hangup(c) ==
  /\ link[c] = "open"
  /\ link' = [link EXCEPT ![c] = IF outbox[c] = 0 THEN "closed" ELSE "reset"]
  /\ outbox' = [outbox EXCEPT ![c] = 0]
  /\ UNCHANGED <<programVars, waiting, inbox, killed>>

BrokenPipe(c) ==
  /\ pc[c] \in {"greeting", "replying"} /\ link[c] = "reset"
  /\ killed' = TRUE
  /\ UNCHANGED <<programVars, netVars>>

ClientStep(c) ==
  \/ Connect(c) \/ TakeReply(c) \/ Hangup(c)
  \/ \E l \in Typed : Type(c, l)

Next ==
  /\ ~killed
  /\ \/ ServerStep
     \/ \E c \in Clients : HandlerStep(c) \/ ClientStep(c) \/ BrokenPipe(c)

Spec == Init /\ [][Next]_vars

\* Threads are scheduled and select() returns when its time is up.
FairSpec ==
  /\ Spec
  /\ WF_vars(~killed /\ ServerStep)
  /\ \A c \in Clients : WF_vars(~killed /\ HandlerStep(c))

\* Besides, a client that stays connected takes its replies.
DrainedSpec == FairSpec /\ \A c \in Clients : WF_vars(~killed /\ TakeReply(c))
-----------------------------------------------------------------------------
Working == {c \in Clients : pc[c] \notin {"unborn", "over"}}

CommittedTo ==
  {c \in Clients : pc[c] \in {"reading", "replying", "storing"}}
    \cup {t \in {Server} : pc[t] = "accepting"}

(***************************************************************************)
(* The threads implement the promise: no handler outlives the server       *)
(* object whose flag it refers to, and once the flag is set nobody decides *)
(* to read or to accept again (CommandServerExample.cpp:53-82, 155-194).   *)
(***************************************************************************)
Shutdown == INSTANCE GracefulShutdown WITH
  Workers <- Clients, Acceptor <- Server, stop <- terminateRequested,
  working <- Working, committed <- CommittedTo, over <- (pc[Server] = "over")

ShutdownIsGraceful == Shutdown!Spec

(***************************************************************************)
(* No thread is left when the CommandServer object, which holds the flag,  *)
(* is destroyed.                                                           *)
(***************************************************************************)
FlagOutlivesHandlers == pc[Server] = "over" => Working = {}

(***************************************************************************)
(* A request to terminate is carried through: every thread is joined and   *)
(* the server returns (dox/main.dox:17), or a signal gets there first.     *)
(***************************************************************************)
TerminateEnds == terminateRequested ~> (pc[Server] = "over" \/ killed)

(***************************************************************************)
(* A connection in the queue is served as long as the server accepts: who  *)
(* is busy with another client, or with none, holds nobody up.             *)
(***************************************************************************)
WaitingServed ==
  \A c \in Clients :
    (c \in waiting) ~> (c \notin waiting \/ pc[Server] \in {"joining", "over"} \/ killed)

(***************************************************************************)
(* A line that begins with "terminate" is acted on when it is read: "Any   *)
(* line beginning with "terminate" will terminate the echo server."        *)
(* (CommandServerExample.cpp:46).                                          *)
(***************************************************************************)
TerminateHonoured ==
  [][\A c \in Clients :
       LET n == Len(inbox[c]) - Len(inbox'[c]) IN
       pc[c] = "reading" /\ pc'[c] = "replying"
         /\ (\E i \in 1..n : inbox[c][i] = "terminate")
       => line'[c] = "terminate"]_vars

(***************************************************************************)
(* The handler of a connection that its client closed comes to an end:     *)
(* blockingReceive() returned 0, "a remote closed socket" (Socket.h:154).  *)
(***************************************************************************)
ClosedPeerReleased ==
  \A c \in Clients :
    (link[c] = "closed" /\ c \in Working) ~> (c \notin Working \/ killed)
=============================================================================
