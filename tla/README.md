# A verification of libBsdSockets

libBsdSockets is a C++11 wrapper around the BSD socket calls: objects that own
a socket descriptor (`Socket`, `ServerSocket`, `ClientSocket`), addresses to
bind and connect them to (`Address`, `InetAddress`, `LocalAddress`), and two
example servers that run a thread per accepted connection.  This directory
holds TLA+ models of it, the TLC runs that check them on small instances, and
proofs, checked by TLAPS, of what holds for every instance.

## Inventory

| Component | State it keeps | Operations | Interacts with |
|---|---|---|---|
| `Socket` (`src/Socket.cpp`) | the descriptor (`const int`, -1 when `socket()` failed), a shared `Address` | construct from an address or from a descriptor, destroy, `select`, `poll`, `send`, `receive`, `blockingReceive`, socket options | the kernel, by descriptor number |
| `ServerSocket` (`src/ServerSocket.cpp`) | as `Socket` | `create`, `open` (create, reuse options, bind, listen), `bind`, `listen`, `accept`, `acceptInNewThread` | makes `Socket`s and threads; asks its `Address` for a buffer and for a new `Address` |
| `ClientSocket` (`src/ClientSocket.cpp`) | as `Socket` | `create`, `open` (create, connect), `connect` | the kernel's listening sockets |
| `LowLevelAddress` (header) | a `sockaddr_in` or a `sockaddr_un` | zeroed or copied construction, address and length | filled in by `accept()` |
| `InetAddress` | names asked for, address found, port; immutable | resolution of a name to one or to all addresses, creation from a `LowLevelAddress` | `getaddrinfo()` |
| `LocalAddress` | path; immutable | creation from a path or from a `LowLevelAddress` | the file system, through bind |
| `Address`, conversions | domain, type, protocol; immutable | getters; switches between library and system constants | all of the above |
| `CommandServer`, `CommandHandler` (`examples/CommandServerExample.cpp`) | the server socket, the vector of threads, an atomic flag; per handler a socket and a reference to the flag | accept loop and handler loop around `select` with a time-out, `terminate` and `quit` commands, join of all threads | one server thread, one thread per connection, remote clients |
| `EchoServer` (`examples/EchoServerExample.cpp`) | as above without a flag | blocking accept and read loops | as above |

What is hard here:

* **Ownership of descriptors.**  A descriptor is a plain `int` between
  `accept()` and the `Socket` made from it, across a thread boundary in
  `acceptInNewThread()`, and exceptions can leave at each point in between.
  Numbers are reused by the kernel at once, so a descriptor closed twice or
  kept too long belongs to somebody else.
* **Interleaving.**  Threads share the descriptor table and the addresses;
  `open()` makes up to five system calls, any of which may fail after others
  have taken effect.
* **Outcomes the kernel chooses.**  A peer's address may be longer than the
  buffer or absent; `accept()`'s length is read before it is written
  (`ServerSocket.cpp:60`), and it was never given a value.
* **Shutdown.**  `CommandServer` ends only when every handler thread does, and
  a handler can be in `select`, in a read, or blocked in a write to a client
  that does not read.
* **Byte streams.**  A read returns any number of writes at once, a write may
  take only part, and one result stands for bytes, for the end of the stream and
  for an error.  What `select` and `poll` say is old when the caller acts on it.
* **Waiting.**  Each call may wait for the other end, for a time or for ever, be
  cut short by a signal, or end the process by another one (SIGPIPE); two ends
  that both write and do not read wait for each other.

What makes each part correct:

* sockets: a descriptor has one owner; an owned one is open and still refers to
  the same kernel socket; an open one has an owner; `open()` gives back a
  listening or connected socket or nothing; reuse means sharing by consent, and
  is not refused on account of servers that asked for it too; a connection taken
  off the queue reaches the caller, with its peer's address;
* connections: bytes arrive in order and once; what `send` says adds up; 0 is the
  end and nothing was lost before it; what was found ready is; a wait ends when it
  should;
* addresses: a vector that is resolved into keeps what it had and gets the results
  in order, no more than asked for; what `accept()` fills in is accepted by the
  class that made the buffer; the text of an address is made from the address;
* command server: nobody uses the flag after the server object is gone; after
  the flag is set nobody takes on new work but what it had committed to; once
  it is set the server ends;
* echo server: what was typed comes back in order and once; "quit" ends its
  handler; no handler keeps another client waiting; the server object outlives
  its threads.

The full list of what is hard to test, each at its line, is under "hazards" in
`PROJECT.json`.

## Modules

    SockAddr, DescriptorCustody  <--  Sockets  <--  MCSockets      (TLC)
                                               <--  SocketsProof   (TLAPS)
    SocketsProof  <--  SocketsOpenProof  <--  SocketsCustodyProof
    Stream  <--  MCStream                                  (TLC)
            <--  StreamProof                               (TLAPS)
            <--EXTENDS--  EchoServer  <--  MCEchoServer    (TLC)
                                      <--  EchoServerProof (TLAPS)
    GracefulShutdown  <--INSTANCE--  CommandServer  <--  MCCommandServer
                                                    <--  CommandServerProof
    InetResolve  <--  MCInetResolve
                 <--  InetResolveProof

`Sockets` EXTENDS `SockAddr` and makes an INSTANCE of `DescriptorCustody`.

### SockAddr: address structures at the kernel boundary

An address is reduced to its domain and to lengths in bytes.  `BufferLen` is
`getSockAddrLen()`: 16 for every `InetAddress`, since its pimpl wraps a
`sockaddr_in` in both families, and 110 for a `LocalAddress`.  `AcceptError` is
`lowLevelAccept()` after the system call, in the order of the code: the length
check comes before the check of the descriptor.  `Copied` and `MinNameLen` are
the kernel's (Linux): it copies `min(len, length of the name)` bytes and reports
the full length, and it refuses an IPv6 name shorter than 24 bytes.

### Sockets: descriptors and the objects that own them

| State | In the program |
|---|---|
| `fdTable`, `ep`, `files` | the kernel: descriptor table; sockets with their state, address, reuse options and queue; the socket files that local addresses have made |
| `sock` | the `Socket` objects: descriptor, address, kind, and the thread whose `shared_ptr`s keep the object alive |
| `pc`, `frame` | where each thread is in a library call, and that call's locals (`AcceptedSocketData`, the `Socket` under construction in `open()`, the closure of a thread about to start) |

A step is one system call of one thread with the code up to the next one.
`Open` is the construction inside `open()`; `OpenSetReuse` (SO_REUSEADDR),
`OpenSetReusePort`, `OpenBind`, `OpenListen` and `OpenConnect` are the calls that
follow, each of which may throw for reasons left open (an option that is not
supported, no permission, no such interface), in which case `Unwind` runs the
destructor of the only `shared_ptr`.
`AcceptTakes`, `AcceptFails` and `AcceptDrops` are the outcomes of `accept()`;
`AcceptThrows`, `AcceptReturns`, `Spawn` and `SpawnThrows` what
`lowLevelAccept()` and its callers do next; `ThreadStarts` and `ThreadReturns`
the thread of `acceptInNewThread()`.  `ForeignDescriptor` and `Adopt` are a
caller that has a descriptor of its own and hands it to `Socket::create()`.
A call whose system call fails with nothing to undo changes nothing and is not
a step.

The library asks for one thread per object (`dox/design.dox:34-36`), so a
`Socket` has one holder, which stands for all the `shared_ptr` copies that
thread makes.

What `bind()` must find is in `CanBind`: an endpoint without a name, a name that is
long enough, and an address that is not taken.  `InUse` is Linux's rule.  An address
is taken by whatever is `At` it: a bound or listening endpoint, but also a
connection that the listener has accepted, which is at its address, and one that
was closed and has not gone yet (`waiting`: TIME_WAIT and the states before it);
unless both sides have the reuse options, which an accepted connection inherits.
`Destroy` leaves some of the internet connections it closes behind in that state,
until `Expire`; a peer that resets its connection (`RemoteReset`) frees this end's
address at once.  A socket file is never shared, and outlives its socket.  The
options are one flag: SO_REUSEADDR alone shows only against sockets that have an
address already, and `open()` sets both before `bind()` or fails.

### DescriptorCustody: what the library promises about descriptors

Free of addresses, system calls and their outcomes: a number is given out when
nobody uses it, to a Socket (`Own`) or to a call (`Hold`); calls hand theirs on
(`HandOn`), by value and without keeping it; a Socket is made of it (`Keep`) and
never gives it away; only the end of Sockets closes numbers (`Close`, of all that
a thread held when its function returns).  A call forgets its number
(`Drop`) only if `MayDrop`.  `Sockets` maps `open` to the descriptors in the table
(`UsedFds`), `owned` to those of the objects (`SocketFds`), `held` to those in
the threads' frames and closures (`CallFds`), and `MayDrop` to `MayThrowLate`:
something can throw after `accept()` has returned, because a thread cannot be
created or a peer's name can be longer than the buffer.  An accept whose call
simply fails, or that throws before there is a descriptor, is a stutter.

### Stream: the calls on a connection

| State | In the program |
|---|---|
| `queue`, `sent`, `link`, `closed` | the kernel: bytes on their way, bytes taken, whether the connection is broken and whether that was reported, closed descriptors |
| `call` | the call an end's thread is in: its arguments, the time limit made of them, and for `send()` how much has been taken |
| `told`, `acked`, `got`, `eof`, `threw` | what the calls have given back: the last `SelectResult`, the sum of `send()`'s results, the bytes received, whether there was a 0, whether there was an exception |

A byte is its number in what its sender has sent, so order, loss and repetition
show.  A call is at least two steps: its start, with what the code does before
the system call, and its return or exception; in between the other end moves.
`StartSelect` makes the time limit as the code does, with a `timeval` whose two
fields are the quotient and the remainder and `nullptr` for 0; `SelectLimit` and
`PollLimit` are where the two calls differ.  `WaitEnds`, `TimesOut` and
`WaitThrows` end a wait.  `SendCopies` is the kernel taking some of the bytes;
`SendReturns` gives the count, `SendThrows` is -1 with nothing taken.  `Receive`
takes any number of bytes that are there, or leaves them there (`MSG_PEEK`);
`ReceiveEnd` is a result of 0; `ReceiveThrows` is -1.  `Destroy` is the destructor.
A close with bytes unread breaks the connection, may lose what is under way to the
other end, and is reported there once; a `send()` after that throws or raises
SIGPIPE (`BrokenPipe`).  Signals interrupt every call when `Interrupts` is set.

`SelectRefused` is `select()` with a negative time, out of which the code makes a
`timeval` that the kernel refuses.  Each end has one thread, as the library asks.

### EchoServer

`examples/EchoServerExample.cpp` on the connections of `Stream`, which it extends:
every step of a handler or of a client that makes a call is one of `Stream`'s
steps together with a step in the program's text (`pc`).  `Greet` is the
constructor's two sends, `ReadCurrent` and `ReadReturns` the read, `ActOn` the
choice between "quit" and an echo, `SendEnds` and `HandlerThrows` the two ways a
call ends, `Leave` the end of the thread.  A message is one unit, whose last byte
stands for itself and the NUL that `send(string)` sends after it; a client types
units that are "quit" or not.  The server does `AcceptCurrent`, and, when an
`accept()` has thrown (`AcceptThrows`), `JoinNext` and `ServerEnds`.  Clients
connect, type, read and hang up as they like.  `typed` and `said` say what the
bytes of `Stream` are, which is how an echo is told from the rest.

### GracefulShutdown and CommandServer

`GracefulShutdown` is the promise, free of sockets: workers are taken on and
finish, anyone may be committed to one piece of work, nobody commits once a
stop is requested, and the end comes when no worker is left.  It allows the
work that was committed to before the request, which is what the code does: the
flag is looked at before the read or the accept, not during it.

`CommandServer` is `examples/CommandServerExample.cpp`.  `pc` says where each
thread is; both kinds go through `LoopTest` (`while(!terminateRequested.load())`),
`SelectReturns` and `SecondTest` (the second look at the flag and at the
`SelectResult`).  A handler then does `ReadCurrent`, `ActOn` (which replies) and,
for "terminate", `StoreRequest`; `Leave` is the end of its thread.  The server
does `AcceptCurrent` (`acceptInNewThread()` and `push_back()`: nobody else looks
at the vector, so they are one step) and, when its loop is over, `JoinNext` and
`ServerEnds`.  An accept that throws (`AcceptThrows`) ends the loop through
`catch(...)`; as `Sockets` shows, the connection may be lost with it.

Each client connects once, types lines, takes replies, and may hang up at any
point, also before it is accepted.  A line is what `actOn()` makes of it.  A
read returns any number of the lines that have arrived and the handler looks at
the first.  A `send()` waits for room; to a connection the client has closed it
succeeds and may be answered with a reset; to a reset one it throws or raises
SIGPIPE (`BrokenPipe`), after which there is no process.  Lines that arrive in
parts are not modelled.

The refinement maps `working` to the handlers between their start and their
end, `committed` to the threads between the second look at the flag and the end
of the read and reply, or of the accept, and `over` to the end of the server.

### InetResolve: from names to addresses

`InetAddress::create()` as a caller uses it: call after call on one vector, or for
one address.  `Resolve` is `getaddrinfo()`; a step of the loop is `AddResult`;
`LoopThrows` is any exception in it (a family that is not taken, no memory), after
which the vector keeps what it got; `Finish` frees the list and returns.  A
structure is its 32-bit words, since what goes wrong is which words are read:
`parseAddress()` reads at the place of a `sockaddr_in`, and `InetAddressPimpl` keeps
16 bytes.  `Remade` is `create(LowLevelAddress)`.  For IPv6 the text is made of the
flow label and three words of the address (`test/InetAddressTest.cpp:87` expects
"::" for "::1"), and `Remade` reads one word past the copy; `Inet4Faithful` is
therefore about IPv4.

## Runs

Every configuration but `resolve.cfg` switches deadlock checking off: threads and
the server really end, and the bounds on endpoints and connections end the rest.

| Run | Question | Bounds |
|---|---|---|
| `sockets_hostile` | do ownership and the outcome of `open()` survive any peer length, any start value of `accept()`'s length, and a thread that cannot be created? | one caller thread and one that can be spawned, 3 descriptors, 4 kernel sockets, 3 `Socket`s, a local address |
| `sockets_benign` | with none of that, is every descriptor owned by somebody who lives and passed on as `DescriptorCustody` says, is an address shared by consent only, and is a server that asks for reuse never kept from an address by one that asked too? | two caller threads and one spawned, 3 descriptors, 3 kernel sockets, an IPv4 address |
| `stream` | do the bytes, the counts and the end come out right, is what was found ready ready, does every wait last as long as asked and end when it should? | two ends, 3 bytes one way and 1 the other, lengths of 1 and 3, room for 2, times of -1, 0 and 1500 ms, signals |
| `echo` | is the echo right, does "quit" end a handler, is everybody accepted, does the server outlive its threads? | a client that types two units and one that just stays, room for 2, a buffer of 2, failing accepts |
| `server` | does any handler outlive the flag it refers to, does the server keep the promise of `GracefulShutdown`, does a request end it, is every connection served while it accepts? | two clients, one line and one reply under way, failing `select()` and `accept()` |
| `resolve` | what is in the vector and in the result after any sequence of calls, returned or thrown? | six result lists of up to three entries of two families and one that is not taken, limits 0 to 3, vectors of 3 and less passed on |

and the runs that refute what the documentation, a comment or a test says:

| Run | What it shows |
|---|---|
| `find_lost_connection` | `accept()` with a length that happens to be negative loses the connection |
| `find_cut_address` | with a small one it gives a `Socket` whose address is not its peer's |
| `find_descriptor_leak` | a descriptor stays open when the thread for it cannot be created |
| `find_ipv6_bind` | no IPv6 address can be bound |
| `find_closed_peer` | a handler spins on a connection its client has closed |
| `find_terminate_ignored` | "terminate" in the same read as an earlier line is echoed |

Why the bounds are enough to be interesting.  Two `Socket`s of one thread and
one in the making in another let a number be closed by one and given out again
to the other, which is where two owners would meet; the fourth kernel socket
lets that happen twice.  One pending connection per listener makes the queue
both empty and full.  A length in `accept()` is nothing, plenty (300) or -1: less,
more and negative are all that the code and the kernel tell apart.  Peer names
are one that fits, an unnamed local one (2 bytes) and one byte too long (111).
The modulus of `socklen_t` is 16 bits in TLC, which has no larger integers to
spare; lengths in use are far below it, and the proofs hold for every modulus.
Three bytes in room for two, sent in one call, are taken in two parts, so a call is
cut short in between; lengths of 1 and 3 make reads of part, of all, and of more
than there is.  1500 ms has a quotient and a remainder.  The limits of `select()` for
every other time are proved (`Limits`).  In `echo` one client is enough to mix reads and
echoes of every size, the other to see that it is not kept waiting.
Two clients are the least with which one handler can be busy while the other
terminates the server; one reply of room blocks every second `send()`.
`MaxHeld`, `Endpoints`, `Clients` and the capacities are bounds on the amount
of work, not on its order.

Some facts about the code have no run of their own.  `create()` returns a `Socket` around -1 when `socket()`
fails, which `OpenDelivers` shows never to leave `open()`.  And `open()` with reuse
is refused on a socket file that a closed `ServerSocket` left behind, so
`ReuseNotRefused` is about internet addresses; it is also refused while a connection
of a server that was opened without reuse is there or has not gone yet, which the
property allows, since the kernel asks both sides.  Two ends that both write more
than the other has room for wait for each other for ever; at the bounds of `stream`
and `echo` only one end has as much to send.  A second `send()` to a connection that
its client has closed raises SIGPIPE, which nothing suppresses, and ends the
process; the liveness properties end there.

Fairness.  `Stream!FairSpec`: a call that can go on goes on (weak fairness of
`Completes` while it is not `Blocked`); nobody has to make another call, no signal
has to come, and nothing is assumed of the other end, which is why
`SendWaitsForReader` ends in "or there is no room".
`EchoServer!EchoFairSpec`: threads are scheduled (weak fairness of a handler's
steps, of the server's and of a client's calls), a client that stays reads what
there is to read, and `accept()` need not fail.  A client that is in a `send()` of
its own does not read: `QuitEnds` leaves it out, since it and its handler may wait
for each other for ever.
`CommandServer!FairSpec`: threads are scheduled and `select()` returns at the
latest when its 500 ms are up; nothing is assumed of clients.  `DrainedSpec`
adds that a client that stays connected takes its replies, which
`TerminateEnds` needs: without it a handler waits in `send()` for ever and the
server in `join()`.
`Sockets` states safety only; that a thread's function returns and that system
calls do is up to its caller and the kernel, and what matters then, that the
`Socket` goes with its thread, is the second half of `NoDescriptorLeak`.

## Proofs

`SocketsProof`, for every number of threads, descriptors, objects and
addresses, every set of peer lengths and every start value of `accept()`'s
length:

* `TypeCorrect`: `[]TypeOK`;
* `Ownership`: `[]OneOwner`, and `Handles`: `[]HandlesValid`;
* `FamilyNeverRejects`: `[]UnnamedPeerTaken`;
* `NoLeak`: `[]NoDescriptorLeak`, assuming `NoLateThrow`: peer names fit the
  buffer and the `std::thread` constructor does not throw.  `find_descriptor_leak`
  shows that the assumption is needed.

The inductive invariant `IInv` is `TypeOK`, the two ownership properties, and
two facts about shapes: a thread inside `open()` holds the live `Socket` in its
frame and no descriptor, one between `accept()` and the `Socket` holds a
descriptor and no object (`FrameShape`); only live objects have a descriptor
(`AliveShape`).  Ownership alone is not inductive: without `FrameShape` a
thread could construct a `Socket` over a descriptor that is in no frame.
`NoLeak` adds that nothing is left over, that an accepted name fits (`LInv`), and
that whoever holds a `Socket` is running (`HoldersRun`), which is inductive only
together with the fact that a thread exits with nothing left in its hands.  Each action has a lemma; those that construct, destroy or hand over
share `ConstructHolds`, `DestroyHolds` and `HandOverHolds`.

`SocketsOpenProof` adds, with no assumption:

* `OpenInvariance`: `[]OInv`;
* `OpenedIsValid`: `[]OpenDelivers`;
* `Consent`: `[]SharedByConsent`;
* `ReuseWorks`: `[]ReuseNotRefused`.

What `open()` delivered is not inductive: another thread's step could bind,
connect or close the kernel's side of it.  `OInv` is `IInv` with three facts
about the kernel's side and three about `open()`.  Two descriptors never reach
one kernel socket, and none reaches a closed one (`TableApart`), so that a call on
one `Socket` leaves the sockets of all others as they are; a kernel socket has
no address before `bind()` (`EndpointsFresh`); two with one address both have
the reuse option (`AddressConsent`).  A thread in `open()` has got as far as its
next call says (`OpenStages`): the option was set before `bind()`, and `listen()`
is reached only when the address is the one that was asked for.  The option is
set only where it was asked for (`SocketsAsked`), and what is no longer in
`open()` is as `open()` left it (`SocketsDelivered`), with the options if it was
asked for them.  `Consent` follows because two listeners at one address have
distinct kernel sockets, both with the options.  `ReuseWorks` is about a thread that
has got to `bind()`: its endpoint has the options, an IPv4 name is long enough and
has no file (`FilesLocal`, which every step keeps), so what makes the address taken
is an endpoint without them, and that is no server's that was opened with reuse.
It says nothing of the refusals that are left open.

`SocketsCustodyProof`: `CustodyImplemented`, that `Sockets` implements
`DescriptorCustody` (`CustodyKept`), with no assumption: each action is one of the
abstract steps or a stutter.  It needs, beyond `IInv`, that what is not alive
has no descriptor (`DeadHaveNone`), so that a new `Socket` takes an empty place,
and, when nothing throws late, `LenFits` from `NoLeak`'s invariant: a name that is
held fits, so no frame is dropped.

`StreamProof`, for every number of connections, every amount of room, every set
of lengths, times and events, with or without signals: `TypeCorrect`, `Order`
(`[]InOrder`), `Counts` (`[]SendsAddUp`), `End` (`[]ZeroIsTheEnd`), `ReadyUntilUsed`
(`[]ReadyStays`) and `Limits` (`[]WaitsAsAsked`, from `LimitAsAsked`, the arithmetic of
the `timeval`).  None of them is inductive.  `EndInv` says of each end: the bytes
in its queue go on where those received stop (`BytesFollow`); a connection is
broken only by the other end's close, and as long as it is not, what was sent is
what was received and what is under way, and never is it less (`NothingLost`); what was counted and what
the present call has counted is what was sent (`CountsAdd`); a connection that has
reported its error has done so by an exception (`AllRead`); and a call has used
up what it was told (`StaysReady`).  The steps that touch no byte share one lemma
(`QuietKeeps`); `SendCopies`, `Receive` and `Close` have one each, and other
connections another (`OthersKeep`).

`EchoServerProof`, which uses it, for every number of clients, every size of the
handlers' buffer and of the kernel's room: `EchoTypes` (`[]EchoTypeOK`), `EchoOrder`
(`[]EchoedInOrder`), `NoThread` (`[]NoThreadLeft`) and `Streams` (`EchoSpec => Spec`: what
is proved of `Stream` holds of these connections).  `EchoInv` joins the two sides.
A handler's place in its program says which call it is in (`CallAt`); what is in
its buffer fits, and is there only until it has been acted on (`Buffered`), so a
reply is within the lengths that `Stream` allows; no end has handed the kernel
more than it said or typed (`SaidEnough`, `TypedEnough`); and what a handler has
said echoes, in order, the bytes it has acted on, the last of which is there
unless it is about to leave (`SaidEcho`).  A client has got at most what its
handler sent, which is at most what it said, so what is true of `said` is true of
what is heard.  `StepLocal` says that a call touches nothing of other ends, and
`HandlerMoves` and `ClientMoves` that one actor's step need only be looked at for
that actor.

`CommandServerProof`, for every number of clients, every capacity and with or
without faults unless stated:

* `TypeCorrect`: `[]TypeOK`, where the count of greetings stays in range because
  a greeting handler has one left;
* `FlagSafe`: `[]FlagOutlivesHandlers`;
* `Graceful`: `Spec => GracefulShutdown!Spec` under the mapping above;
* `EndsOnlyOnRequest`: `[]EndsOnRequest`, assuming no faults.  With them, as in the
  run, the server may also end because its `accept()` threw, so this has no run.

`Inv` says that every working handler is in the vector at or after the index
the server joins next (`Kept`), that a queued connection has no handler yet
(`Queued`, so that no client gets two), and that the server is over only when
the index has passed the end.

`InetResolveProof`, for every set of result lists whose structures are as long as
their family says, every limit and every length of vector: `TypeCorrect`,
`InOrder` (`[]AddedInOrder`), `MaxKept` (`[]AllUpToMax`), `FirstMatch`
(`[]FirstMatchGiven`) and `Inet4Texts` (`[]Inet4Faithful`).  Its `Inv` adds that every
result added was of a family that is taken, so that what is added is an address,
and the shape of the INET4 addresses left over from earlier calls.

Not proved are the properties that a run refutes (`NoConnectionLost`,
`AcceptedAddressIsPeer` and the others of the `find` runs).

Only model-checked: the liveness properties (`TimedWaitEnds`, `WokenToRead`,
`SendWaitsForReader`, `QuitEnds`, `QueuedAccepted`, `TerminateEnds`,
`WaitingServed`), which are out of the prover's reach.  Every invariant
and refinement that a passing run checks is a theorem.

## Not modelled

The socket options other than reuse, which change nothing the library looks at,
and urgent data; datagram use of a `ServerSocket`; a descriptor outside of the
range of an `fd_set`; ports, the text forms of addresses beyond the words they are
made of, memory (the list that `InetAddress::create()` does not free when it
throws) and memory that runs out; a path's characters, of which only the number
matters, and two of the three conversions, which are tables with one entry per
constant; lines that arrive in parts at the command server; the order in which the
kernel hands out queued connections; signals other than those that interrupt a
call and SIGPIPE.
The documentation's other examples are straight-line code, and `Address` has
nothing but getters of constants.
`getSocketOption()` is called by `test/SocketsTest.cpp:125-128` with a length
that has no value, the same slip as in `lowLevelAccept()`; it is the caller's.

## Plan

Done: `SockAddr`, `DescriptorCustody` and `Sockets`, `Stream`, `EchoServer`,
`GracefulShutdown` and `CommandServer`, `InetResolve`, each with its runs and its
proofs, the two refinements among them.
What would come next:

1. `CommandServer` on the connections of `Stream`, as `EchoServer` is, with lines
   that arrive in parts.
2. An abstract specification of `open()` alone (a Socket that delivers or
   nothing), from which `OpenDelivers` would follow without the kernel's side.
