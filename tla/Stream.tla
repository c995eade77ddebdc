-------------------------------- MODULE Stream --------------------------------
(***************************************************************************)
(* The calls that a Socket makes on a connection: select(), poll(),        *)
(* send(), receive(), blockingReceive() and the destructor, at the two     *)
(* ends of a stream, each end a Socket with a thread of its own            *)
(* (dox/design.dox:34-36).                                                 *)
(*                                                                         *)
(* A call starts, may wait in the kernel, and returns or throws.  A byte   *)
(* is its number in what its sender has sent.  The kernel's side (buffers, *)
(* end of the stream, reset) is external.                                  *)
(***************************************************************************)
EXTENDS Integers, Sequences

CONSTANTS
  Ends,        \* both ends of every connection
  Peer,        \* the other end
  Room,        \* bytes that the kernel holds on their way to an end
  MaxSent,     \* bound: bytes that each end sends
  Lengths,     \* lengths that callers pass to send() and receive()
  Times,       \* times that callers pass to select() and poll(), in ms
  WantSets,    \* events that they ask for
  Interrupts   \* whether signals interrupt system calls

Events == {"read", "write", "error"}

ASSUME StreamAssumption ==
  /\ Peer \in [Ends -> Ends]
  /\ \A e \in Ends : Peer[e] # e /\ Peer[Peer[e]] = e
  /\ Room \in Nat \ {0} /\ MaxSent \in [Ends -> Nat]
  /\ Lengths \subseteq Nat \ {0}
  /\ Times \subseteq Int
  /\ WantSets \subseteq SUBSET Events
  /\ Interrupts \in BOOLEAN

VARIABLES
  queue,   \* bytes under way to an end or in its receive buffer
  sent,    \* number of bytes the kernel has taken from an end
  link,    \* what an end knows of the connection
  closed,  \* ends whose descriptor is closed
  call,    \* the call that an end's thread is in
  told,    \* what the last select() or poll() said, until it is used up
  acked,   \* number of bytes that send() said it sent
  got,     \* the bytes that receive() returned for good
  eof,     \* whether it has returned 0
  threw    \* whether a call on this end has thrown

callerVars == <<told, acked, got, eof, threw>>
vars == <<queue, sent, link, closed, call, told, acked, got, eof, threw>>
-----------------------------------------------------------------------------
(***************************************************************************)
(* Time limits.  C++ divides towards zero.                                 *)
(***************************************************************************)
Forever == -1
Refused == -2

CQuot(t) == IF t >= 0 THEN t \div 1000 ELSE -((-t) \div 1000)
CRem(t) == t - 1000 * CQuot(t)

\* Mutant: the whole seconds are in tv_usec as well.
TimevalOverfull(t) == [sec |-> CQuot(t), usec |-> 1000 * t]

Timeval(t) == [sec |-> CQuot(t), usec |-> 1000 * CRem(t)]

\* The kernel refuses a timeval with a negative field and carries a large one.
KernelLimit(tv) ==
  IF tv.sec < 0 \/ tv.usec < 0 THEN Refused ELSE 1000 * tv.sec + tv.usec \div 1000

\* Mutant: the test for nullptr is the wrong way round.
SelectLimitSwapped(t) == IF 0 # t THEN Forever ELSE KernelLimit(Timeval(t))

SelectLimit(t) == IF 0 = t THEN Forever ELSE KernelLimit(Timeval(t))

PollLimit(t) == IF t < 0 THEN Forever ELSE t
-----------------------------------------------------------------------------
Waits == {"select", "poll"}

\* "gone": the thread has let go of the Socket, or the process has ended.
Ops == Waits \cup {"idle", "send", "receive", "gone"}

\* `left' and `done' are of a send(), `left' also the length for a receive().
CallRecord ==
  [op : Ops, want : SUBSET Events, time : Int, limit : Int, left : Nat, done : Nat,
   peek : BOOLEAN, dontwait : BOOLEAN]

Idle ==
  [op |-> "idle", want |-> {}, time |-> 0, limit |-> 0, left |-> 0, done |-> 0,
   peek |-> FALSE, dontwait |-> FALSE]

\* "reset": broken, and the error not reported yet; "dead": reported.
LinkStates == {"whole", "reset", "dead"}

TypeOK ==
  /\ queue \in [Ends -> Seq(Nat)]
  /\ \A e \in Ends : Len(queue[e]) <= Room
  /\ sent \in [Ends -> Nat]
  /\ link \in [Ends -> LinkStates]
  /\ closed \subseteq Ends
  /\ call \in [Ends -> CallRecord]
  /\ told \in [Ends -> SUBSET Events]
  /\ acked \in [Ends -> Nat]
  /\ got \in [Ends -> Seq(Nat)]
  /\ eof \in [Ends -> BOOLEAN]
  /\ threw \in [Ends -> BOOLEAN]

Init ==
  /\ queue = [e \in Ends |-> <<>>]
  /\ sent = [e \in Ends |-> 0]
  /\ link = [e \in Ends |-> "whole"]
  /\ closed = {}
  /\ call = [e \in Ends |-> Idle]
  /\ told = [e \in Ends |-> {}]
  /\ acked = [e \in Ends |-> 0]
  /\ got = [e \in Ends |-> <<>>]
  /\ eof = [e \in Ends |-> FALSE]
  /\ threw = [e \in Ends |-> FALSE]

InCall(e, ops) == call[e].op \in ops

Returns(e) == call' = [call EXCEPT ![e] = Idle]

Throws(e) == Returns(e) /\ threw' = [threw EXCEPT ![e] = TRUE]

Starts(e, c) == InCall(e, {"idle"}) /\ call' = [call EXCEPT ![e] = c]
-----------------------------------------------------------------------------
(***************************************************************************)
(* select() and poll().                                                    *)
(***************************************************************************)
HasRoom(e) == Len(queue[Peer[e]]) < Room

Readable(e) == queue[e] # <<>> \/ Peer[e] \in closed \/ link[e] # "whole"
Writable(e) == HasRoom(e) \/ Peer[e] \in closed \/ link[e] # "whole"

Ready(e) == {v \in {"read"} : Readable(e)} \cup {v \in {"write"} : Writable(e)}

\* Mutant: select() is given the descriptor, not one more.
FoundBelow(e) ==
  IF InCall(e, {"poll"}) THEN Ready(e) \cap call[e].want ELSE {}

\* Unasked, poll() reports a broken connection; select()'s errors are urgent data.
Found(e) ==
  (Ready(e) \cap call[e].want)
    \cup {v \in {"error"} : InCall(e, {"poll"}) /\ link[e] # "whole"}

\* Mutant: two of the constructor's six bools are exchanged.
SelectResultSwapped(found) ==
  {v \in Events : \/ v = "read" /\ "write" \in found
                  \/ v = "write" /\ "read" \in found}

SelectResult(found) == {v \in Events : v \in found}

StartSelect(e, t, want) ==
  /\ SelectLimit(t) # Refused
  /\ Starts(e, [Idle EXCEPT !.op = "select", !.want = want, !.time = t,
                            !.limit = SelectLimit(t)])
  /\ told' = [told EXCEPT ![e] = {}]
  /\ UNCHANGED <<queue, sent, link, closed, acked, got, eof, threw>>

\* A negative time makes both fields of the timeval so, or one.
SelectRefused(e, t) ==
  /\ InCall(e, {"idle"}) /\ SelectLimit(t) = Refused
  /\ told' = [told EXCEPT ![e] = {}]
  /\ Throws(e)
  /\ UNCHANGED <<queue, sent, link, closed, acked, got, eof>>

StartPoll(e, t, want) ==
  /\ Starts(e, [Idle EXCEPT !.op = "poll", !.want = want, !.time = t,
                            !.limit = PollLimit(t)])
  /\ told' = [told EXCEPT ![e] = {}]
  /\ UNCHANGED <<queue, sent, link, closed, acked, got, eof, threw>>

WaitEnds(e) ==
  /\ InCall(e, Waits) /\ Found(e) # {}
  /\ told' = [told EXCEPT ![e] =
                IF InCall(e, {"select"}) THEN SelectResult(Found(e)) ELSE Found(e)]
  /\ Returns(e)
  /\ UNCHANGED <<queue, sent, link, closed, acked, got, eof, threw>>

TimesOut(e) ==
  /\ InCall(e, Waits) /\ call[e].limit # Forever /\ Found(e) = {}
  /\ Returns(e)
  /\ UNCHANGED <<queue, sent, link, closed, callerVars>>
-----------------------------------------------------------------------------
(***************************************************************************)
(* send().  What is sent to a closed end is taken, and may be answered     *)
(* with a reset.                                                           *)
(***************************************************************************)
StartSend(e, n, dontwait) ==
  /\ sent[e] + n <= MaxSent[e]
  /\ Starts(e, [Idle EXCEPT !.op = "send", !.left = n, !.dontwait = dontwait])
  /\ told' = [told EXCEPT ![e] = @ \ {"write"}]
  /\ UNCHANGED <<queue, sent, link, closed, acked, got, eof, threw>>

Numbered(from, n) == [i \in 1..n |-> from + i]

\* Mutant: more is taken than there is room for.
SendCopiesAll(e) ==
  /\ InCall(e, {"send"}) /\ link[e] = "whole" /\ Peer[e] \notin closed
  /\ queue' = [queue EXCEPT ![Peer[e]] = @ \o Numbered(sent[e], call[e].left)]
  /\ sent' = [sent EXCEPT ![e] = @ + call[e].left]
  /\ call' = [call EXCEPT ![e].left = 0, ![e].done = @ + call[e].left]
  /\ UNCHANGED <<link, closed, callerVars>>

SendCopies(e) ==
  /\ InCall(e, {"send"}) /\ link[e] = "whole"
  /\ \E k \in 1..call[e].left :
       /\ \/ /\ Peer[e] \notin closed
             /\ Len(queue[Peer[e]]) + k <= Room
             /\ queue' = [queue EXCEPT ![Peer[e]] = @ \o Numbered(sent[e], k)]
             /\ UNCHANGED link
          \/ /\ Peer[e] \in closed
             /\ \E st \in {"whole", "reset"} : link' = [link EXCEPT ![e] = st]
             /\ UNCHANGED queue
       /\ sent' = [sent EXCEPT ![e] = @ + k]
       /\ call' = [call EXCEPT ![e].left = @ - k, ![e].done = @ + k]
  /\ UNCHANGED <<closed, callerVars>>

\* A signal, an error, or a full buffer for who would not wait.
CutShort(e) ==
  Interrupts \/ link[e] # "whole" \/ (call[e].dontwait /\ ~Writable(e))

\* Mutant: the length asked for is returned, not the result.
SendReturnsLength(e) ==
  /\ InCall(e, {"send"}) /\ call[e].done > 0
  /\ call[e].left = 0 \/ CutShort(e)
  /\ acked' = [acked EXCEPT ![e] = @ + call[e].done + call[e].left]
  /\ Returns(e)
  /\ UNCHANGED <<queue, sent, link, closed, told, got, eof, threw>>

\* Mutant: send() is called again and again until all is sent.
SendReturnsWhole(e) ==
  /\ InCall(e, {"send"}) /\ call[e].done > 0 /\ call[e].left = 0
  /\ acked' = [acked EXCEPT ![e] = @ + call[e].done]
  /\ Returns(e)
  /\ UNCHANGED <<queue, sent, link, closed, told, got, eof, threw>>

SendReturns(e) ==
  /\ InCall(e, {"send"}) /\ call[e].done > 0
  /\ call[e].left = 0 \/ CutShort(e)
  /\ acked' = [acked EXCEPT ![e] = @ + call[e].done]
  /\ Returns(e)
  /\ UNCHANGED <<queue, sent, link, closed, told, got, eof, threw>>

Reported(e) == link' = [link EXCEPT ![e] = IF @ = "reset" THEN "dead" ELSE @]

SendThrows(e) ==
  /\ InCall(e, {"send"}) /\ call[e].done = 0 /\ CutShort(e)
  /\ Reported(e)
  /\ Throws(e)
  /\ UNCHANGED <<queue, sent, closed, told, acked, got, eof>>
-----------------------------------------------------------------------------
(***************************************************************************)
(* receive() and, without flags, blockingReceive().                        *)
(***************************************************************************)
StartReceive(e, n, peek, dontwait) ==
  /\ Starts(e, [Idle EXCEPT !.op = "receive", !.left = n, !.peek = peek,
                            !.dontwait = dontwait])
  /\ told' = [told EXCEPT ![e] = @ \ {"read"}]
  /\ UNCHANGED <<queue, sent, link, closed, acked, got, eof, threw>>

\* Mutant: recv() is called without the caller's flags.
ReceiveUnflagged(e) ==
  /\ InCall(e, {"receive"})
  /\ \E k \in 1..call[e].left :
       /\ k <= Len(queue[e])
       /\ queue' = [queue EXCEPT ![e] = SubSeq(@, k + 1, Len(@))]
       /\ got' = IF call[e].peek THEN got
                 ELSE [got EXCEPT ![e] = @ \o SubSeq(queue[e], 1, k)]
  /\ Returns(e)
  /\ UNCHANGED <<sent, link, closed, told, acked, eof, threw>>

Receive(e) ==
  /\ InCall(e, {"receive"})
  /\ \E k \in 1..call[e].left :
       /\ k <= Len(queue[e])
       /\ IF call[e].peek
            THEN UNCHANGED <<queue, got>>
            ELSE /\ queue' = [queue EXCEPT ![e] = SubSeq(@, k + 1, Len(@))]
                 /\ got' = [got EXCEPT ![e] = @ \o SubSeq(queue[e], 1, k)]
  /\ Returns(e)
  /\ UNCHANGED <<sent, link, closed, told, acked, eof, threw>>

\* A result of 0: the end of the stream, or a broken one that was reported.
ReceiveEnd(e) ==
  /\ InCall(e, {"receive"}) /\ queue[e] = <<>>
  /\ link[e] = "dead" \/ (link[e] = "whole" /\ Peer[e] \in closed)
  /\ eof' = [eof EXCEPT ![e] = TRUE]
  /\ Returns(e)
  /\ UNCHANGED <<queue, sent, link, closed, told, acked, got, threw>>

\* Mutant: an error of recv() is returned as 0 bytes.
ReceiveHidesError(e) ==
  /\ InCall(e, {"receive"}) /\ queue[e] = <<>>
  /\ \/ link[e] = "reset"
     \/ Interrupts
     \/ call[e].dontwait /\ ~Readable(e)
  /\ Reported(e)
  /\ eof' = [eof EXCEPT ![e] = TRUE]
  /\ Returns(e)
  /\ UNCHANGED <<queue, sent, closed, told, acked, got, threw>>

ReceiveThrows(e) ==
  /\ InCall(e, {"receive"}) /\ queue[e] = <<>>
  /\ \/ link[e] = "reset"
     \/ Interrupts
     \/ call[e].dontwait /\ ~Readable(e)
  /\ Reported(e)
  /\ Throws(e)
  /\ UNCHANGED <<queue, sent, closed, told, acked, got, eof>>

\* select() and poll() interrupted by a signal.
WaitThrows(e) ==
  /\ Interrupts /\ InCall(e, Waits)
  /\ Throws(e)
  /\ UNCHANGED <<queue, sent, link, closed, told, acked, got, eof>>
-----------------------------------------------------------------------------
(***************************************************************************)
(* close().  With bytes unread it breaks the connection, and what is under *)
(* way to the other end may be lost from some byte on.                     *)
(***************************************************************************)
Close(e) ==
  /\ closed' = closed \cup {e}
  /\ call' = [call EXCEPT ![e] = [Idle EXCEPT !.op = "gone"]]
  /\ IF queue[e] = <<>> \/ Peer[e] \in closed
       THEN queue' = [queue EXCEPT ![e] = <<>>] /\ UNCHANGED link
       ELSE /\ \E k \in 0..Len(queue[Peer[e]]) :
                 queue' = [queue EXCEPT ![e] = <<>>, ![Peer[e]] = SubSeq(@, 1, k)]
            /\ link' = [link EXCEPT ![Peer[e]] = IF @ = "whole" THEN "reset" ELSE @]
  /\ told' = [told EXCEPT ![e] = {}]
  /\ UNCHANGED <<sent, acked, got, eof, threw>>

\* ~Socket().
Destroy(e) == InCall(e, {"idle"}) /\ Close(e)

\* SIGPIPE, which send() raises on a broken connection, ends the process.
BrokenPipe(e) == InCall(e, {"send"}) /\ link[e] # "whole" /\ Close(e)

Completes(e) ==
  \/ WaitEnds(e) \/ TimesOut(e) \/ SendCopies(e) \/ SendReturns(e) \/ SendThrows(e)
  \/ Receive(e) \/ ReceiveEnd(e) \/ ReceiveThrows(e)

Step(e) ==
  \/ \E t \in Times, want \in WantSets : StartSelect(e, t, want)
  \/ \E t \in Times : SelectRefused(e, t)
  \/ \E t \in Times, want \in WantSets : StartPoll(e, t, want)
  \/ \E n \in Lengths, dontwait \in BOOLEAN : StartSend(e, n, dontwait)
  \/ \E n \in Lengths, peek, dontwait \in BOOLEAN : StartReceive(e, n, peek, dontwait)
  \/ WaitEnds(e) \/ TimesOut(e) \/ WaitThrows(e)
  \/ SendCopies(e) \/ SendReturns(e) \/ SendThrows(e)
  \/ Receive(e) \/ ReceiveEnd(e) \/ ReceiveThrows(e)
  \/ Destroy(e) \/ BrokenPipe(e)

Next == \E e \in Ends : Step(e)

Spec == Init /\ [][Next]_vars

\* What the call waits for is not there; a signal may end it, but need not.
Blocked(e) ==
  \/ InCall(e, Waits) /\ call[e].limit = Forever /\ Found(e) = {}
  \/ InCall(e, {"send"}) /\ call[e].left > 0 /\ ~call[e].dontwait /\ ~Writable(e)
  \/ InCall(e, {"receive"}) /\ ~call[e].dontwait /\ ~Readable(e)

\* A system call that can go on goes on; nobody has to make another one.
FairSpec == Spec /\ \A e \in Ends : WF_vars(~Blocked(e) /\ Completes(e))
-----------------------------------------------------------------------------
(***************************************************************************)
(* What receive() has returned is what the other end sent, from the first  *)
(* byte on, each byte once (Socket.cpp:105-121).                           *)
(***************************************************************************)
InOrder == \A e \in Ends : got[e] = Numbered(0, Len(got[e]))

(***************************************************************************)
(* send()'s results add up (Socket.cpp:96-103): between calls, on a sound  *)
(* connection, what they say was sent has been received or is under way.   *)
(***************************************************************************)
SendsAddUp ==
  \A e \in Ends :
    InCall(e, {"idle"}) /\ Peer[e] \notin closed /\ link[Peer[e]] = "whole"
    => acked[e] = Len(got[Peer[e]]) + Len(queue[Peer[e]])

(***************************************************************************)
(* "0 is a remote closed socket" (Socket.h:154): and unless an exception   *)
(* has said that something is wrong, all that it sent has been received.   *)
(***************************************************************************)
ZeroIsTheEnd ==
  \A e \in Ends :
    eof[e] /\ ~threw[e] => Peer[e] \in closed /\ Len(got[e]) = sent[Peer[e]]

(***************************************************************************)
(* What select() or poll() found ready (Socket.cpp:61-94) stays so until   *)
(* the thread uses it, whatever the other end does: the next receive()     *)
(* finds something, the next send() room for a byte at least.              *)
(***************************************************************************)
ReadyStays == \A e \in Ends : told[e] \ {"error"} \subseteq Ready(e)

(***************************************************************************)
(* select() and poll() wait as long as they are asked to, if not for ever: *)
(* poll() when the time is negative, select() when it is 0 (Socket.cpp:71).*)
(***************************************************************************)
WaitsAsAsked ==
  \A e \in Ends :
    /\ InCall(e, {"select"}) =>
         IF call[e].time = 0 THEN call[e].limit = Forever ELSE call[e].limit = call[e].time
    /\ InCall(e, {"poll"}) =>
         IF call[e].time < 0 THEN call[e].limit = Forever ELSE call[e].limit = call[e].time

(***************************************************************************)
(* A wait with a time to it ends, whatever the other end does.             *)
(***************************************************************************)
TimedWaitEnds ==
  \A e \in Ends : (InCall(e, Waits) /\ call[e].time > 0) ~> ~InCall(e, Waits)

(***************************************************************************)
(* One without ends when the other end closes or sends.                    *)
(***************************************************************************)
WokenToRead ==
  \A e \in Ends :
    (InCall(e, Waits) /\ "read" \in call[e].want /\ Readable(e)) ~> ~InCall(e, Waits)

(***************************************************************************)
(* A send() waits for nothing but the other end's reading.                 *)
(***************************************************************************)
SendWaitsForReader ==
  \A e \in Ends : InCall(e, {"send"}) ~> (~InCall(e, {"send"}) \/ ~Writable(e))
=============================================================================
