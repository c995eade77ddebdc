------------------------------ MODULE EchoServer ------------------------------
(***************************************************************************)
(* examples/EchoServerExample.cpp: a server thread that accepts, and for   *)
(* each connection an EchoHandler in a thread of its own that greets,      *)
(* reads and echoes until what it reads begins with "quit".                *)
(*                                                                         *)
(* The connections are those of Stream: a handler has the near end of one, *)
(* its client the far end.  A client types "quit" or some other text.  The *)
(* program installs no signal handler, so nothing interrupts its calls.    *)
(***************************************************************************)
EXTENDS Stream

CONSTANTS
  Clients,    \* bound: each connects once
  Near, Far,  \* the ends of a client's connection
  Server,     \* the server thread
  BufferLen,  \* what the handler asks blockingReceive() for
  Talkers,    \* bound: clients that do something; the others just stay
  Faults      \* whether accept() may fail

ASSUME EchoAssumption ==
  /\ Near \in [Clients -> Ends] /\ Far \in [Clients -> Ends]
  /\ \A c \in Clients : Peer[Near[c]] = Far[c]
  /\ \A c, d \in Clients : c # d => {Near[c], Far[c]} \cap {Near[d], Far[d]} = {}
  /\ Server \notin Clients
  /\ BufferLen \in Nat \ {0} /\ 1..BufferLen \subseteq Lengths /\ Room \in Lengths
  /\ Talkers \subseteq Clients
  /\ Faults \in BOOLEAN
  /\ ~Interrupts

VARIABLES
  acceptedThreads,  \* the threads, by the client they serve
  joining,          \* index of the thread the server joins next
  pc,               \* where each thread is
  typed,            \* what each byte of a client is
  said,             \* what each byte of a handler is
  handled,          \* how many of the bytes it got a handler has acted on
  killed            \* a signal has ended the process

echoVars == <<acceptedThreads, joining, pc, typed, said, handled, killed>>
allVars == <<vars, echoVars>>
-----------------------------------------------------------------------------
\* A handler's bytes: the number of the byte that is echoed, or one of these.
Welcome == -1
Help == -2
Goodbye == -3

Inputs == {"quit", "text"}

(***************************************************************************)
(* Of a handler's thread; before it there is a connection in the           *)
(* ServerSocket's queue, or one that accept() has lost.                    *)
(***************************************************************************)
HandlerPlaces ==
  {"absent", "queued", "lost", "greeting", "welcoming", "greeted", "helping",
   "looping", "reading", "replying", "echoing", "parting", "leaving", "over"}

ServerPlaces == {"accepting", "joining", "over"}

EchoTypeOK ==
  /\ TypeOK
  /\ acceptedThreads \in Seq(Clients)
  /\ joining \in 1..(Len(acceptedThreads) + 1)
  /\ pc \in [Clients \cup {Server} -> HandlerPlaces \cup ServerPlaces]
  /\ pc[Server] \in ServerPlaces
  /\ \A c \in Clients : pc[c] \in HandlerPlaces
  /\ typed \in [Clients -> Seq(Inputs)]
  /\ said \in [Clients -> Seq(Int)]
  /\ handled \in [Clients -> Nat]
  /\ killed \in BOOLEAN

EchoInit ==
  /\ Init
  /\ acceptedThreads = <<>> /\ joining = 1
  /\ pc = [t \in Clients \cup {Server} |-> IF t = Server THEN "accepting" ELSE "absent"]
  /\ typed = [c \in Clients |-> <<>>]
  /\ said = [c \in Clients |-> <<>>]
  /\ handled = [c \in Clients |-> 0]
  /\ killed = FALSE

Goto(t, place) == pc' = [pc EXCEPT ![t] = place]
-----------------------------------------------------------------------------
(***************************************************************************)
(* EchoHandler.  The last byte of a message stands for it and for the NUL  *)
(* that send(string) sends after it.                                       *)
(***************************************************************************)
Says(c, message) ==
  /\ StartSend(Near[c], Len(message), FALSE)
  /\ said' = [said EXCEPT ![c] = @ \o message]

\* The constructor's two sends.
Greet(c) ==
  /\ \/ pc[c] = "greeting" /\ Says(c, <<Welcome>>) /\ Goto(c, "welcoming")
     \/ pc[c] = "greeted" /\ Says(c, <<Help>>) /\ Goto(c, "helping")
  /\ UNCHANGED <<acceptedThreads, joining, typed, handled, killed>>

\* readCurrent(): the next read, which may wait for ever ...
ReadCurrent(c) ==
  /\ pc[c] = "looping"
  /\ StartReceive(Near[c], BufferLen, FALSE, FALSE)
  /\ Goto(c, "reading")
  /\ UNCHANGED <<acceptedThreads, joining, typed, said, handled, killed>>

\* ... and, if it gives 0 bytes, once more round the loop.
ReadReturns(c) ==
  /\ pc[c] = "reading"
  /\ \/ Receive(Near[c]) /\ Goto(c, "replying")
     \/ ReceiveEnd(Near[c]) /\ Goto(c, "looping")
  /\ UNCHANGED <<acceptedThreads, joining, typed, said, handled, killed>>

\* Mutant: the buffer still holds what was read before.
BufferKept(c) == Numbered(0, Len(got[Near[c]]))

\* The numbers of the bytes in the buffer.
Buffer(c) == Numbered(handled[c], Len(got[Near[c]]) - handled[c])

\* actOn(): only the beginning of what was read is looked at.
ActOn(c) ==
  /\ pc[c] = "replying"
  /\ IF typed[c][handled[c] + 1] = "quit"
       THEN Says(c, <<Goodbye>>) /\ Goto(c, "parting")
       ELSE Says(c, Buffer(c)) /\ Goto(c, "echoing")
  /\ handled' = [handled EXCEPT ![c] = Len(got[Near[c]])]
  /\ UNCHANGED <<acceptedThreads, joining, typed, killed>>

\* Mutant: whether actOn() is done is not looked at.
AfterSendOn(place) == IF place = "welcoming" THEN "greeted" ELSE "looping"

AfterSend(place) ==
  CASE place = "welcoming" -> "greeted"
    [] place \in {"helping", "echoing"} -> "looping"
    [] OTHER -> "leaving"

\* The count that send() returns is not looked at.
SendEnds(c) ==
  /\ SendReturns(Near[c])
  /\ Goto(c, AfterSend(pc[c]))
  /\ UNCHANGED <<acceptedThreads, joining, typed, said, handled, killed>>

\* An exception ends the greeting, or the loop.
HandlerThrows(c) ==
  /\ SendThrows(Near[c]) \/ ReceiveThrows(Near[c])
  /\ Goto(c, IF pc[c] \in {"welcoming", "helping"} THEN "looping" ELSE "leaving")
  /\ UNCHANGED <<acceptedThreads, joining, typed, said, handled, killed>>

\* The thread's function is back, and the last shared_ptr gone.
Leave(c) ==
  /\ pc[c] = "leaving"
  /\ Destroy(Near[c])
  /\ Goto(c, "over")
  /\ UNCHANGED <<acceptedThreads, joining, typed, said, handled, killed>>

HandlerStep(c) ==
  \/ Greet(c) \/ ReadCurrent(c) \/ ReadReturns(c) \/ ActOn(c) \/ SendEnds(c)
  \/ HandlerThrows(c) \/ Leave(c)
  \/ SendCopies(Near[c]) /\ UNCHANGED echoVars

\* send() on a broken connection ends the process, and with it the model.
HandlerKilled(c) ==
  /\ InCall(Near[c], {"send"}) /\ link[Near[c]] # "whole"
  /\ killed' = TRUE
  /\ UNCHANGED <<vars, acceptedThreads, joining, pc, typed, said, handled>>
-----------------------------------------------------------------------------
(***************************************************************************)
(* EchoServer.                                                             *)
(***************************************************************************)

\* Mutant: one client at a time.
AcceptWhenAlone ==
  /\ pc[Server] = "accepting"
  /\ \A t \in Clients : pc[t] \in {"absent", "queued", "lost", "over"}
  /\ \E c \in Clients :
       /\ pc[c] = "queued"
       /\ acceptedThreads' = Append(acceptedThreads, c)
       /\ Goto(c, "greeting")
  /\ UNCHANGED <<vars, joining, typed, said, handled, killed>>

\* acceptInNewThread() and push_back().
AcceptCurrent ==
  /\ pc[Server] = "accepting"
  /\ \E c \in Clients :
       /\ pc[c] = "queued"
       /\ acceptedThreads' = Append(acceptedThreads, c)
       /\ Goto(c, "greeting")
  /\ UNCHANGED <<vars, joining, typed, said, handled, killed>>

\* It throws: with the connection, which is closed or left open, or without one.
AcceptThrows ==
  /\ Faults /\ pc[Server] = "accepting"
  /\ \/ Goto(Server, "joining") /\ UNCHANGED vars
     \/ \E c \in Clients :
          /\ pc[c] = "queued"
          /\ Destroy(Near[c]) \/ UNCHANGED vars
          /\ pc' = [pc EXCEPT ![Server] = "joining", ![c] = "lost"]
  /\ UNCHANGED <<acceptedThreads, joining, typed, said, handled, killed>>

\* Mutant: the threads are left to themselves.
JoinNextNot ==
  /\ pc[Server] = "joining" /\ joining <= Len(acceptedThreads)
  /\ joining' = joining + 1
  /\ UNCHANGED <<vars, acceptedThreads, pc, typed, said, handled, killed>>

JoinNext ==
  /\ pc[Server] = "joining" /\ joining <= Len(acceptedThreads)
  /\ pc[acceptedThreads[joining]] = "over"
  /\ joining' = joining + 1
  /\ UNCHANGED <<vars, acceptedThreads, pc, typed, said, handled, killed>>

\* The EchoServer goes with its vector of threads; main() returns.
ServerEnds ==
  /\ pc[Server] = "joining" /\ joining > Len(acceptedThreads)
  /\ Goto(Server, "over")
  /\ UNCHANGED <<vars, acceptedThreads, joining, typed, said, handled, killed>>

ServerGoesOn == AcceptCurrent \/ JoinNext \/ ServerEnds

ServerStep == ServerGoesOn \/ AcceptThrows
-----------------------------------------------------------------------------
(***************************************************************************)
(* Clients.                                                                *)
(***************************************************************************)
programVars == <<acceptedThreads, joining, said, handled, killed>>

Connect(c) ==
  /\ pc[c] = "absent" /\ pc[Server] # "over"
  /\ Goto(c, "queued")
  /\ UNCHANGED <<vars, typed, programVars>>

\* It gives up typing when that has failed.
Type(c, input) ==
  /\ pc[c] # "absent" /\ c \in Talkers /\ Len(typed[c]) = sent[Far[c]]
  /\ StartSend(Far[c], 1, FALSE)
  /\ typed' = [typed EXCEPT ![c] = Append(@, input)]
  /\ UNCHANGED <<pc, programVars>>

Listen(c) ==
  /\ pc[c] # "absent" /\ c \in Talkers
  /\ StartReceive(Far[c], Room, FALSE, FALSE)
  /\ UNCHANGED echoVars

ClientGoesOn(c) ==
  /\ \/ SendCopies(Far[c]) \/ SendReturns(Far[c]) \/ SendThrows(Far[c])
     \/ Receive(Far[c]) \/ ReceiveEnd(Far[c]) \/ ReceiveThrows(Far[c])
  /\ UNCHANGED echoVars

HangUp(c) ==
  /\ pc[c] # "absent" /\ c \in Talkers
  /\ Destroy(Far[c]) \/ BrokenPipe(Far[c])
  /\ UNCHANGED echoVars

ClientStep(c) ==
  \/ Connect(c) \/ Listen(c) \/ ClientGoesOn(c) \/ HangUp(c)
  \/ \E input \in Inputs : Type(c, input)

EchoNext ==
  /\ ~killed
  /\ \/ ServerStep
     \/ \E c \in Clients : HandlerStep(c) \/ HandlerKilled(c) \/ ClientStep(c)

EchoSpec == EchoInit /\ [][EchoNext]_allVars

(***************************************************************************)
(* Threads are scheduled; a client that stays reads what there is to read. *)
(* accept() need not fail.                                                 *)
(***************************************************************************)
EchoFairSpec ==
  /\ EchoSpec
  /\ WF_allVars(~killed /\ ServerGoesOn)
  /\ \A c \in Clients :
       /\ WF_allVars(~killed /\ HandlerStep(c))
       /\ WF_allVars(~killed /\ ClientGoesOn(c))
       /\ WF_allVars(~killed /\ queue[Far[c]] # <<>> /\ Listen(c))
-----------------------------------------------------------------------------
(***************************************************************************)
(* What a client has read, by what it is.                                  *)
(***************************************************************************)
Heard(c) == [i \in 1..Len(got[Far[c]]) |-> said[c][got[Far[c]][i]]]

(***************************************************************************)
(* "Echo everything" (EchoServerExample.cpp:28): the bytes of its own that *)
(* a client reads are the ones it typed, from the first one on, in order,  *)
(* each once, whatever else is in between.                                 *)
(***************************************************************************)
EchoedInOrder ==
  \A c \in Clients : LET h == Heard(c) IN
    \A i \in DOMAIN h : h[i] > 0 =>
      /\ h[i] <= Len(typed[c])
      /\ \A j \in 1..(i - 1) : h[j] < h[i]
      /\ h[i] > 1 => \E j \in 1..(i - 1) : h[j] = h[i] - 1

(***************************************************************************)
(* A handler that has read "quit" ends and closes its Socket, unless the   *)
(* client has closed, or waits in a send() of its own and so does not read.*)
(***************************************************************************)
QuitEnds ==
  \A c \in Clients :
    (pc[c] = "parting")
      ~> (Near[c] \in closed \/ Far[c] \in closed \/ killed \/ InCall(Far[c], {"send"}))

(***************************************************************************)
(* No handler, however long it waits for its client, keeps the server from *)
(* accepting another one.                                                  *)
(***************************************************************************)
QueuedAccepted ==
  \A c \in Clients :
    (pc[c] = "queued") ~> (pc[c] # "queued" \/ pc[Server] # "accepting" \/ killed)

Working == {c \in Clients : pc[c] \notin {"absent", "queued", "lost", "over"}}

(***************************************************************************)
(* The server object, and its vector of joinable threads, goes when every  *)
(* thread has ended (EchoServerExample.cpp:135-142).                       *)
(***************************************************************************)
NoThreadLeft == pc[Server] = "over" => Working = {}
=============================================================================
