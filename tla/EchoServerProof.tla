--------------------------- MODULE EchoServerProof ---------------------------
(***************************************************************************)
(* Proofs about EchoServer: its connections are those of Stream, what is   *)
(* echoed is in order, and no thread outlives the server.                  *)
(***************************************************************************)
EXTENDS EchoServer, StreamProof

Sending == {"welcoming", "helping", "echoing", "parting"}
Before == {"absent", "queued", "lost"}
Ended == {"parting", "leaving", "over"}

(***************************************************************************)
(* A handler is in the call that its place in the program says.            *)
(***************************************************************************)
CallAt(c) ==
  /\ call[Near[c]].op = "send" <=> pc[c] \in Sending
  /\ call[Near[c]].op = "receive" <=> pc[c] = "reading"
  /\ pc[c] = "reading" => call[Near[c]].left = BufferLen /\ ~call[Near[c]].peek

\* What is in the buffer fits it, and is there only until it has been acted on.
Buffered(c) ==
  IF pc[c] = "replying"
    THEN Len(got[Near[c]]) - handled[c] \in 1..BufferLen
    ELSE handled[c] = Len(got[Near[c]])

\* Bytes that a send() still has to hand over.
Pending(e) == IF call[e].op = "send" THEN call[e].left ELSE 0

SaidEnough(c) == sent[Near[c]] + Pending(Near[c]) <= Len(said[c])
TypedEnough(c) == sent[Far[c]] + Pending(Far[c]) <= Len(typed[c])

\* Echoes of the bytes 1 to h: each greater than all before it, with none left out.
Echoes(s, h) ==
  \A i \in 1..Len(s) : s[i] > 0 =>
    /\ s[i] <= h
    /\ \A j \in 1..(i - 1) : s[j] < s[i]
    /\ s[i] > 1 => \E j \in 1..(i - 1) : s[j] = s[i] - 1

Reaches(s, h) == h = 0 \/ \E j \in 1..Len(s) : s[j] = h

SaidEcho(c) ==
  /\ Echoes(said[c], handled[c])
  /\ pc[c] \notin Ended => Reaches(said[c], handled[c])

HandlerInv(c) == CallAt(c) /\ Buffered(c) /\ SaidEnough(c) /\ SaidEcho(c)

(***************************************************************************)
(* Every handler's thread is in the vector; those joined are over.         *)
(***************************************************************************)
ThreadsKept ==
  /\ \A i \in 1..(joining - 1) : pc[acceptedThreads[i]] = "over"
  /\ \A c \in Clients : pc[c] \notin Before =>
       \E i \in 1..Len(acceptedThreads) : acceptedThreads[i] = c
  /\ pc[Server] = "over" => joining > Len(acceptedThreads)

EchoInv ==
  /\ IInv /\ EchoTypeOK /\ ThreadsKept
  /\ \A c \in Clients : HandlerInv(c) /\ TypedEnough(c)
-----------------------------------------------------------------------------
\* What m echoes goes on from the bytes 1 to h, echoed by s, and stops at k.
GoesOn(s, m, h, k) ==
  \A i \in 1..Len(m) : m[i] > 0 =>
    /\ h < m[i] /\ m[i] <= k
    /\ \A j \in 1..(i - 1) : m[j] < m[i]
    /\ m[i] > 1 => \/ \E j \in 1..(i - 1) : m[j] = m[i] - 1
                   \/ \E j \in 1..Len(s) : s[j] = m[i] - 1

(***************************************************************************)
(* What is said after s keeps the echoes in order, if it goes on from them.*)
(***************************************************************************)
LEMMA ConcatEchoes ==
  ASSUME NEW s \in Seq(Int), NEW m \in Seq(Int), NEW h \in Nat, NEW k \in Nat, h <= k
  PROVE  Echoes(s, h) /\ GoesOn(s, m, h, k) => Echoes(s \o m, k)
<1> SUFFICES ASSUME Echoes(s, h), GoesOn(s, m, h, k) PROVE Echoes(s \o m, k)
  OBVIOUS
<1> DEFINE r == s \o m
<1>1. Len(s) \in Nat /\ Len(m) \in Nat
  BY LenProperties
<1>2. Len(r) = Len(s) + Len(m)
  BY ConcatProperties
<1>3. \A i \in 1..Len(s) : r[i] = s[i] /\ s[i] \in Int
  BY <1>1, ConcatProperties, LenProperties
<1>4. \A i \in 1..Len(m) : r[Len(s) + i] = m[i] /\ m[i] \in Int
  <2> TAKE i \in 1..Len(m)
  <2>1. Len(s) + i \in 1..(Len(s) + Len(m)) /\ ~(Len(s) + i <= Len(s)) /\ Len(s) + i - Len(s) = i
    BY <1>1
  <2>2. r[Len(s) + i] = m[Len(s) + i - Len(s)]
    BY <2>1, ConcatProperties
  <2> QED BY <2>1, <2>2, LenProperties
<1> HIDE DEF r
<1>5. ASSUME NEW i \in 1..Len(s), r[i] > 0
      PROVE  /\ r[i] <= k
             /\ \A j \in 1..(i - 1) : r[j] < r[i]
             /\ r[i] > 1 => \E j \in 1..(i - 1) : r[j] = r[i] - 1
  <2>1. \A j \in 1..(i - 1) : j \in 1..Len(s)
    BY <1>1
  <2>2. /\ s[i] <= h
        /\ \A j \in 1..(i - 1) : s[j] < s[i]
        /\ s[i] > 1 => \E j \in 1..(i - 1) : s[j] = s[i] - 1
    BY <1>3, <1>5 DEF Echoes
  <2> QED BY <1>3, <2>1, <2>2
<1>6. ASSUME NEW n \in 1..Len(m), r[Len(s) + n] > 0
      PROVE  /\ r[Len(s) + n] <= k
             /\ \A j \in 1..(Len(s) + n - 1) : r[j] < r[Len(s) + n]
             /\ r[Len(s) + n] > 1 => \E j \in 1..(Len(s) + n - 1) : r[j] = r[Len(s) + n] - 1
  <2>1. r[Len(s) + n] = m[n] /\ m[n] \in Int /\ m[n] > 0 /\ h < m[n] /\ m[n] <= k
    BY <1>4, <1>6 DEF GoesOn
  <2>4. \A j \in 1..(n - 1) : m[j] < m[n]
    BY <2>1 DEF GoesOn
  <2>2. ASSUME NEW j \in 1..(Len(s) + n - 1) PROVE r[j] < m[n]
    <3>1. CASE j \in 1..Len(s)
      <4>1. s[j] > 0 => s[j] <= h
        BY <3>1 DEF Echoes
      <4>2. r[j] = s[j] /\ s[j] \in Int
        BY <1>3, <3>1
      <4>3. \A x, y \in Int : (x > 0 => x <= h) /\ h < y /\ y > 0 => x < y
        OBVIOUS
      <4> QED BY <2>1, <4>1, <4>2, <4>3
    <3>2. CASE j \notin 1..Len(s)
      <4>1. j - Len(s) \in 1..(n - 1) /\ j - Len(s) \in 1..Len(m) /\ Len(s) + (j - Len(s)) = j
        BY <1>1, <3>2
      <4>2. r[j] = m[j - Len(s)]
        BY <1>4, <4>1
      <4>3. m[j - Len(s)] < m[n]
        BY <2>4, <4>1
      <4> QED BY <4>2, <4>3
    <3> QED BY <3>1, <3>2
  <2>3. ASSUME m[n] > 1 PROVE \E j \in 1..(Len(s) + n - 1) : r[j] = m[n] - 1
    <3>1. \/ \E j \in 1..(n - 1) : m[j] = m[n] - 1
          \/ \E j \in 1..Len(s) : s[j] = m[n] - 1
      BY <2>1, <2>3 DEF GoesOn
    <3>2. ASSUME NEW j \in 1..(n - 1), m[j] = m[n] - 1
          PROVE  \E l \in 1..(Len(s) + n - 1) : r[l] = m[n] - 1
      <4>1. j \in 1..Len(m) /\ Len(s) + j \in 1..(Len(s) + n - 1)
        BY <1>1
      <4>2. r[Len(s) + j] = m[n] - 1
        BY <1>4, <3>2, <4>1
      <4> QED BY <4>1, <4>2
    <3>3. ASSUME NEW j \in 1..Len(s), s[j] = m[n] - 1
          PROVE  \E l \in 1..(Len(s) + n - 1) : r[l] = m[n] - 1
      <4>1. j \in 1..(Len(s) + n - 1)
        BY <1>1
      <4> QED BY <1>3, <3>3, <4>1
    <3> QED BY <3>1, <3>2, <3>3
  <2> QED BY <2>1, <2>2, <2>3
<1>7. ASSUME NEW i \in 1..Len(r), r[i] > 0
      PROVE  /\ r[i] <= k
             /\ \A j \in 1..(i - 1) : r[j] < r[i]
             /\ r[i] > 1 => \E j \in 1..(i - 1) : r[j] = r[i] - 1
  <2>1. CASE i \in 1..Len(s)
    <3> HIDE DEF Echoes, GoesOn
    <3> QED BY <1>5, <1>7, <2>1
  <2>2. CASE i \notin 1..Len(s)
    <3>1. PICK n \in 1..Len(m) : i = Len(s) + n
      <4>1. i - Len(s) \in 1..Len(m) /\ i = Len(s) + (i - Len(s))
        BY <1>1, <1>2, <2>2
      <4> QED BY <4>1
    <3>2. r[Len(s) + n] > 0
      BY <1>7, <3>1
    <3>3. /\ r[Len(s) + n] <= k
          /\ \A j \in 1..(Len(s) + n - 1) : r[j] < r[Len(s) + n]
          /\ r[Len(s) + n] > 1 => \E j \in 1..(Len(s) + n - 1) : r[j] = r[Len(s) + n] - 1
      BY <1>6, <3>2, ZenonT(60)
    <3> QED BY <3>1, <3>3
  <2> QED BY <2>1, <2>2
<1> QED BY <1>7 DEF r, Echoes

\* What was reached stays so, and the last of what is said is reached.
LEMMA ConcatReaches ==
  ASSUME NEW s \in Seq(Int), NEW m \in Seq(Int), NEW h \in Nat
  PROVE  /\ Reaches(s, h) => Reaches(s \o m, h)
         /\ Len(m) > 0 /\ m[Len(m)] = h => Reaches(s \o m, h)
<1> DEFINE r == s \o m
<1>1. Len(s) \in Nat /\ Len(m) \in Nat /\ Len(r) = Len(s) + Len(m)
  BY LenProperties, ConcatProperties
<1>2. \A j \in 1..Len(s) : j \in 1..Len(r) /\ r[j] = s[j]
  BY <1>1, ConcatProperties
<1>3. Len(m) > 0 => Len(r) \in 1..Len(r) /\ r[Len(r)] = m[Len(m)]
  <2> SUFFICES ASSUME Len(m) > 0 PROVE Len(r) \in 1..Len(r) /\ r[Len(r)] = m[Len(m)]
    OBVIOUS
  <2>1. /\ Len(s) + Len(m) \in 1..(Len(s) + Len(m)) /\ ~(Len(s) + Len(m) <= Len(s))
        /\ Len(s) + Len(m) - Len(s) = Len(m)
    BY <1>1
  <2>2. r[Len(s) + Len(m)] = m[Len(s) + Len(m) - Len(s)]
    BY <2>1, ConcatProperties
  <2> QED BY <1>1, <2>1, <2>2
<1> HIDE DEF r
<1>4. Reaches(s, h) => Reaches(r, h)
  BY <1>2 DEF Reaches
<1>5. Len(m) > 0 /\ m[Len(m)] = h => Reaches(r, h)
  BY <1>3 DEF Reaches
<1> QED BY <1>4, <1>5 DEF r

\* A remark of the handler's own is no echo.
LEMMA RemarkKeeps ==
  ASSUME NEW s \in Seq(Int), NEW h \in Nat, NEW k \in Nat, h <= k, Echoes(s, h),
         NEW v \in {Welcome, Help, Goodbye}
  PROVE  /\ <<v>> \in Seq(Int) /\ Len(<<v>>) = 1
         /\ s \o <<v>> \in Seq(Int) /\ Len(s \o <<v>>) = Len(s) + 1
         /\ Echoes(s \o <<v>>, k)
         /\ Reaches(s, h) => Reaches(s \o <<v>>, h)
<1>1. v \in Int /\ ~(v > 0)
  BY DEF Welcome, Help, Goodbye
<1> DEFINE m == <<v>>
<1>2. m \in Seq(Int) /\ Len(m) = 1 /\ m[1] = v
  BY <1>1
<1> HIDE DEF m
<1>3. \A i \in 1..Len(m) : ~(m[i] > 0)
  BY <1>1, <1>2
<1>4. Echoes(s \o m, k)
  BY <1>2, <1>3, ConcatEchoes DEF GoesOn
<1>5. Reaches(s, h) => Reaches(s \o m, h)
  BY <1>2, ConcatReaches
<1>6. s \o m \in Seq(Int) /\ Len(s \o m) = Len(s) + Len(m)
  BY <1>2, ConcatProperties
<1> QED BY <1>2, <1>4, <1>5, <1>6 DEF m

\* The echo of what was read goes on from what was acted on.
LEMMA EchoKeeps ==
  ASSUME NEW s \in Seq(Int), NEW h \in Nat, NEW k \in Nat, h < k,
         Echoes(s, h), Reaches(s, h),
         NEW m, m = Numbered(h, k - h)
  PROVE  /\ m \in Seq(Int) /\ Len(m) = k - h
         /\ s \o m \in Seq(Int) /\ Len(s \o m) = Len(s) + (k - h)
         /\ Echoes(s \o m, k) /\ Reaches(s \o m, k)
<1>1. k - h \in Nat \ {0}
  OBVIOUS
<1>2. m \in Seq(Nat) /\ Len(m) = k - h /\ \A i \in 1..(k - h) : m[i] = h + i
  BY <1>1, NumberedProperties
<1>3. m \in Seq(Int)
  BY <1>2
<1>4. ASSUME NEW i \in 1..Len(m)
      PROVE  /\ h < m[i] /\ m[i] <= k
             /\ \A j \in 1..(i - 1) : m[j] < m[i]
             /\ m[i] > 1 => \/ \E j \in 1..(i - 1) : m[j] = m[i] - 1
                            \/ \E j \in 1..Len(s) : s[j] = m[i] - 1
  <2>1. m[i] = h + i /\ i \in 1..(k - h)
    BY <1>2
  <2>2. \A j \in 1..(i - 1) : m[j] < m[i]
    <3>1. ASSUME NEW j \in 1..(i - 1) PROVE m[j] < m[i]
      <4>1. j \in 1..(k - h)
        BY <1>1, <2>1
      <4>2. m[j] = h + j
        BY <1>2, <4>1
      <4> QED BY <2>1, <4>1, <4>2
    <3> QED BY <3>1
  <2>3. CASE i > 1
    <3>1. i - 1 \in 1..(i - 1) /\ i - 1 \in 1..(k - h)
      BY <1>1, <2>1, <2>3
    <3>2. m[i - 1] = h + (i - 1)
      BY <1>2, <3>1
    <3>3. m[i - 1] = m[i] - 1
      BY <2>1, <3>1, <3>2
    <3> QED BY <1>1, <2>1, <2>2, <3>1, <3>3
  <2>4. CASE i = 1
    <3>1. m[i] > 1 => \E j \in 1..Len(s) : s[j] = m[i] - 1
      BY <2>1, <2>4 DEF Reaches
    <3> QED BY <1>1, <2>1, <2>2, <3>1
  <2> QED BY <2>1, <2>3, <2>4
<1>5. Echoes(s \o m, k)
  <2>1. GoesOn(s, m, h, k)
    BY <1>4 DEF GoesOn
  <2> QED BY <1>3, <2>1, ConcatEchoes
<1>6. Len(m) > 0 /\ m[Len(m)] = k
  BY <1>1, <1>2
<1>7. Reaches(s \o m, k)
  BY <1>3, <1>6, ConcatReaches
<1>8. s \o m \in Seq(Int) /\ Len(s \o m) = Len(s) + Len(m)
  BY <1>3, ConcatProperties
<1> QED BY <1>2, <1>3, <1>5, <1>7, <1>8
-----------------------------------------------------------------------------
(***************************************************************************)
(* The ends of the connections are apart.                                  *)
(***************************************************************************)
LEMMA EndsApart ==
  ASSUME NEW c \in Clients
  PROVE  /\ Near[c] \in Ends /\ Far[c] \in Ends /\ Near[c] # Far[c]
         /\ Peer[Near[c]] = Far[c] /\ Peer[Far[c]] = Near[c]
         /\ \A d \in Clients : Near[c] # Far[d]
         /\ \A d \in Clients \ {c} : Near[c] # Near[d] /\ Far[c] # Far[d]
<1>1. /\ Near \in [Clients -> Ends] /\ Far \in [Clients -> Ends]
      /\ \A d \in Clients : Peer[Near[d]] = Far[d]
  BY EchoAssumption
<1>2. /\ Near[c] \in Ends /\ Far[c] \in Ends /\ Near[c] # Far[c] /\ Peer[Far[c]] = Near[c]
  BY <1>1, StreamAssumption
<1>3. \A d \in Clients \ {c} : Near[c] # Far[d] /\ Near[c] # Near[d]
  <2>1. \A d \in Clients : c # d => {Near[c], Far[c]} \cap {Near[d], Far[d]} = {}
    BY EchoAssumption
  <2> QED BY <2>1
<1>4. \A d \in Clients \ {c} : Far[c] # Far[d]
  <2>1. \A d \in Clients : c # d => {Near[c], Far[c]} \cap {Near[d], Far[d]} = {}
    BY EchoAssumption
  <2> QED BY <2>1
<1>5. \A d \in Clients : Near[c] # Far[d]
  BY <1>2, <1>3
<1> QED BY <1>1, <1>2, <1>3, <1>4, <1>5

\* A step of one end leaves alone what the others have called, sent and got.
LEMMA StepLocal ==
  ASSUME TypeOK, NEW e \in Ends, Step(e), NEW f \in Ends, f # e
  PROVE  call'[f] = call[f] /\ sent'[f] = sent[f] /\ got'[f] = got[f]
<1>1. CASE SendCopies(e)
  <2>1. PICK k \in 1..call[e].left :
          /\ sent' = [sent EXCEPT ![e] = @ + k]
          /\ call' = [call EXCEPT ![e].left = @ - k, ![e].done = @ + k]
    BY <1>1 DEF SendCopies
  <2> QED BY <1>1, <2>1 DEF SendCopies, callerVars, TypeOK
<1>2. CASE Receive(e)
  <2>1. got'[f] = got[f]
    BY <1>2 DEF Receive, TypeOK
  <2> QED BY <1>2, <2>1 DEF Receive, Returns, TypeOK
<1>3. CASE Close(e)
  BY <1>3 DEF Close, TypeOK
<1>4. ASSUME \/ \E t \in Times, want \in WantSets : StartSelect(e, t, want) \/ StartPoll(e, t, want)
             \/ \E n \in Lengths, dontwait \in BOOLEAN : StartSend(e, n, dontwait)
             \/ \E n \in Lengths, peek, dontwait \in BOOLEAN : StartReceive(e, n, peek, dontwait)
             \/ WaitEnds(e) \/ TimesOut(e) \/ WaitThrows(e) \/ \E t \in Times : SelectRefused(e, t)
             \/ SendReturns(e) \/ SendThrows(e) \/ ReceiveEnd(e) \/ ReceiveThrows(e)
      PROVE  call'[f] = call[f] /\ sent'[f] = sent[f] /\ got'[f] = got[f]
  <2>1. sent' = sent /\ got' = got /\ \E r : call' = [call EXCEPT ![e] = r]
    <3>1. CASE \E t \in Times, want \in WantSets : StartSelect(e, t, want) \/ StartPoll(e, t, want)
      BY <3>1 DEF StartSelect, StartPoll, Starts
    <3>2. CASE \E n \in Lengths, dontwait \in BOOLEAN : StartSend(e, n, dontwait)
      BY <3>2 DEF StartSend, Starts
    <3>3. CASE \E n \in Lengths, peek, dontwait \in BOOLEAN : StartReceive(e, n, peek, dontwait)
      BY <3>3 DEF StartReceive, Starts
    <3>4. CASE \/ WaitEnds(e) \/ TimesOut(e) \/ WaitThrows(e) \/ \E t \in Times : SelectRefused(e, t)
               \/ SendReturns(e) \/ SendThrows(e) \/ ReceiveEnd(e) \/ ReceiveThrows(e)
      BY <3>4 DEF WaitEnds, TimesOut, WaitThrows, SelectRefused, SendReturns, SendThrows, ReceiveEnd,
         ReceiveThrows, Throws, Returns, callerVars
    <3> QED BY <1>4, <3>1, <3>2, <3>3, <3>4
  <2> QED BY <2>1 DEF TypeOK
<1>5. Destroy(e) \/ BrokenPipe(e) => Close(e)
  BY DEF Destroy, BrokenPipe
<1> QED BY <1>1, <1>2, <1>3, <1>4, <1>5 DEF Step

\* What a handler's part of the invariant depends on.
LEMMA HandlerSame ==
  ASSUME NEW c \in Clients, HandlerInv(c),
         call'[Near[c]] = call[Near[c]], sent'[Near[c]] = sent[Near[c]],
         got'[Near[c]] = got[Near[c]],
         pc'[c] = pc[c], said'[c] = said[c], handled'[c] = handled[c]
  PROVE  HandlerInv(c)'
BY DEF HandlerInv, CallAt, Buffered, SaidEnough, Pending, SaidEcho

\* And a client's.
LEMMA ClientSame ==
  ASSUME NEW c \in Clients, TypedEnough(c),
         call'[Far[c]] = call[Far[c]], sent'[Far[c]] = sent[Far[c]],
         typed'[c] = typed[c]
  PROVE  TypedEnough(c)'
BY DEF TypedEnough, Pending

\* A handler whose call has ended, or that has not made one yet.
LEMMA NoCallKeeps ==
  ASSUME EchoInv, NEW c \in Clients, pc[c] # "replying",
         pc'[c] \notin Sending \cup {"reading", "replying"},
         pc[c] \in Ended => pc'[c] \in Ended,
         call'[Near[c]].op \notin {"send", "receive"},
         sent'[Near[c]] = sent[Near[c]], got'[Near[c]] = got[Near[c]],
         said'[c] = said[c], handled'[c] = handled[c]
  PROVE  HandlerInv(c)'
<1>1. HandlerInv(c)
  BY DEF EchoInv
<1>2. CallAt(c)' /\ Buffered(c)' /\ SaidEcho(c)'
  BY <1>1 DEF HandlerInv, CallAt, Buffered, SaidEcho
<1>3. SaidEnough(c)'
  <2>1. sent[Near[c]] \in Nat /\ Pending(Near[c]) \in Nat /\ Len(said[c]) \in Nat
    BY EndsApart, LenProperties DEF EchoInv, EchoTypeOK, TypeOK, CallRecord, Pending
  <2>2. \A a, b, l \in Nat : a + b <= l => a + 0 <= l
    OBVIOUS
  <2>3. sent[Near[c]] + 0 <= Len(said[c])
    BY <1>1, <2>1, <2>2 DEF HandlerInv, SaidEnough
  <2>4. Pending(Near[c])' = 0
    BY DEF Pending
  <2> QED BY <2>3, <2>4 DEF SaidEnough
<1> QED BY <1>2, <1>3 DEF HandlerInv

\* Types of what belongs to a client and its handler.
LEMMA HandlerTypes ==
  ASSUME EchoInv, NEW c \in Clients
  PROVE  /\ HandlerInv(c) /\ TypedEnough(c) /\ pc[c] \in HandlerPlaces
         /\ said[c] \in Seq(Int) /\ Len(said[c]) \in Nat /\ handled[c] \in Nat
         /\ typed[c] \in Seq(Inputs) /\ Len(typed[c]) \in Nat
         /\ \A e \in {Near[c], Far[c]} :
              /\ sent[e] \in Nat /\ Len(got[e]) \in Nat
              /\ call[e].left \in Nat /\ Pending(e) \in Nat
<1>1. \A e \in {Near[c], Far[c]} :
        sent[e] \in Nat /\ Len(got[e]) \in Nat /\ call[e].left \in Nat
  <2> TAKE e \in {Near[c], Far[c]}
  <2>1. e \in Ends
    BY EndsApart
  <2>2. sent[e] \in Nat /\ got[e] \in Seq(Nat) /\ call[e] \in CallRecord
    BY <2>1 DEF EchoInv, EchoTypeOK, TypeOK
  <2> QED BY <2>2, LenProperties DEF CallRecord
<1>2. \A e \in {Near[c], Far[c]} : Pending(e) \in Nat
  BY <1>1 DEF Pending
<1> QED BY <1>1, <1>2, LenProperties DEF EchoInv, EchoTypeOK

\* What the end of a call, and of the connection, leaves at that end.
LEMMA CallOver ==
  ASSUME TypeOK, NEW e \in Ends
  PROVE  /\ Close(e) => call'[e].op = "gone" /\ sent' = sent /\ got' = got
         /\ SendReturns(e) \/ SendThrows(e) \/ ReceiveEnd(e) \/ ReceiveThrows(e) =>
              call'[e].op = "idle" /\ sent' = sent /\ got' = got
         /\ Receive(e) => call'[e].op = "idle" /\ sent' = sent
<1>1. ASSUME Close(e) PROVE call'[e].op = "gone" /\ sent' = sent /\ got' = got
  <2>1. call' = [call EXCEPT ![e] = [Idle EXCEPT !.op = "gone"]] /\ sent' = sent /\ got' = got
    BY <1>1 DEF Close
  <2> QED BY <2>1 DEF TypeOK, Idle
<1>2. ASSUME Returns(e) PROVE call'[e].op = "idle"
  <2>1. call' = [call EXCEPT ![e] = Idle]
    BY <1>2 DEF Returns
  <2> QED BY <2>1 DEF TypeOK, Idle
<1>3. ASSUME SendReturns(e) \/ SendThrows(e) \/ ReceiveEnd(e) \/ ReceiveThrows(e)
      PROVE  Returns(e) /\ sent' = sent /\ got' = got
  BY <1>3 DEF SendReturns, SendThrows, ReceiveEnd, ReceiveThrows, Throws
<1>4. ASSUME Receive(e) PROVE Returns(e) /\ sent' = sent
  BY <1>4 DEF Receive
<1> QED BY <1>1, <1>2, <1>3, <1>4

\* What starting a send() or a receive() changes.
LEMMA CallStarted ==
  ASSUME TypeOK, NEW e \in Ends, NEW n \in Nat
  PROVE  /\ StartSend(e, n, FALSE) =>
              /\ call[e].op = "idle" /\ call'[e].op = "send" /\ call'[e].left = n
              /\ sent' = sent /\ got' = got
         /\ StartReceive(e, n, FALSE, FALSE) =>
              /\ call[e].op = "idle" /\ call'[e].op = "receive" /\ call'[e].left = n
              /\ ~call'[e].peek /\ sent' = sent /\ got' = got
<1>1. ASSUME StartSend(e, n, FALSE)
      PROVE  /\ call[e].op = "idle" /\ call'[e].op = "send" /\ call'[e].left = n
             /\ sent' = sent /\ got' = got
  <2>1. /\ call[e].op = "idle"
        /\ call' = [call EXCEPT ![e] = [Idle EXCEPT !.op = "send", !.left = n, !.dontwait = FALSE]]
        /\ sent' = sent /\ got' = got
    BY <1>1 DEF StartSend, Starts, InCall
  <2> QED BY <2>1 DEF TypeOK, Idle
<1>2. ASSUME StartReceive(e, n, FALSE, FALSE)
      PROVE  /\ call[e].op = "idle" /\ call'[e].op = "receive" /\ call'[e].left = n
             /\ ~call'[e].peek /\ sent' = sent /\ got' = got
  <2>1. /\ call[e].op = "idle"
        /\ call' = [call EXCEPT ![e] = [Idle EXCEPT !.op = "receive", !.left = n, !.peek = FALSE,
                                                   !.dontwait = FALSE]]
        /\ sent' = sent /\ got' = got
    BY <1>2 DEF StartReceive, Starts, InCall
  <2> QED BY <2>1 DEF TypeOK, Idle
<1> QED BY <1>1, <1>2

\* What a handler says is in the call, once it is said.
LEMMA SaysEnough ==
  ASSUME EchoInv, NEW c \in Clients, NEW m \in Seq(Int), Says(c, m)
  PROVE  /\ call'[Near[c]].op = "send" /\ said'[c] = said[c] \o m
         /\ sent' = sent /\ got' = got /\ SaidEnough(c)'
<1>1. Near[c] \in Ends /\ Len(m) \in Nat /\ TypeOK
  BY EndsApart, LenProperties DEF EchoInv, EchoTypeOK
<1>2. said'[c] = said[c] \o m /\ StartSend(Near[c], Len(m), FALSE)
  BY DEF Says, EchoInv, EchoTypeOK
<1>3. /\ call[Near[c]].op = "idle" /\ call'[Near[c]].op = "send"
      /\ call'[Near[c]].left = Len(m) /\ sent' = sent /\ got' = got
  BY <1>1, <1>2, CallStarted
<1>4. sent[Near[c]] <= Len(said[c])
  BY <1>3, HandlerTypes DEF HandlerInv, SaidEnough, Pending
<1>5. said[c] \in Seq(Int) /\ Len(said[c]) \in Nat /\ sent[Near[c]] \in Nat
  BY HandlerTypes
<1>6. Len(said[c] \o m) = Len(said[c]) + Len(m)
  BY <1>5, ConcatProperties
<1>7. sent[Near[c]] + Len(m) <= Len(said[c]) + Len(m)
  BY <1>1, <1>4, <1>5
<1>8. SaidEnough(c)'
  BY <1>2, <1>3, <1>6, <1>7 DEF SaidEnough, Pending
<1> QED BY <1>2, <1>3, <1>8

\* The greeting.
LEMMA GreetKeeps ==
  ASSUME EchoInv, NEW c \in Clients, Greet(c)
  PROVE  HandlerInv(c)' /\ Step(Near[c])
<1>1. Near[c] \in Ends /\ 1 \in Lengths /\ TypeOK
  BY EndsApart, EchoAssumption DEF EchoInv, EchoTypeOK
<1>2. PICK v \in {Welcome, Help} : Says(c, <<v>>)
  BY DEF Greet
<1>3. /\ pc[c] \in {"greeting", "greeted"} /\ pc'[c] \in {"welcoming", "helping"}
      /\ handled'[c] = handled[c]
  BY DEF Greet, Goto, EchoInv, EchoTypeOK
<1>4. v \in {Welcome, Help, Goodbye} /\ v \in Int
  BY DEF Welcome, Help, Goodbye
<1>5. said[c] \in Seq(Int) /\ handled[c] \in Nat /\ HandlerInv(c)
  BY HandlerTypes
<1>6. /\ <<v>> \in Seq(Int) /\ Len(<<v>>) = 1
      /\ Echoes(said[c] \o <<v>>, handled[c])
      /\ Reaches(said[c], handled[c]) => Reaches(said[c] \o <<v>>, handled[c])
  <2>1. Echoes(said[c], handled[c]) /\ handled[c] <= handled[c]
    BY <1>5 DEF HandlerInv, SaidEcho
  <2> QED BY <1>4, <1>5, <2>1, RemarkKeeps
<1>7. /\ call'[Near[c]].op = "send" /\ said'[c] = said[c] \o <<v>>
      /\ sent' = sent /\ got' = got /\ SaidEnough(c)'
  BY <1>2, <1>6, SaysEnough
<1>8. CallAt(c)'
  BY <1>3, <1>7 DEF CallAt, Sending
<1>9. Buffered(c)'
  BY <1>3, <1>5, <1>7 DEF HandlerInv, Buffered
<1>10. SaidEcho(c)'
  BY <1>3, <1>5, <1>6, <1>7 DEF HandlerInv, SaidEcho, Ended
<1>11. Step(Near[c])
  <2>1. StartSend(Near[c], 1, FALSE)
    BY <1>2, <1>6 DEF Says
  <2> QED BY <1>1, <2>1 DEF Step
<1> QED BY <1>7, <1>8, <1>9, <1>10, <1>11 DEF HandlerInv

\* The next read.
LEMMA ReadCurrentKeeps ==
  ASSUME EchoInv, NEW c \in Clients, ReadCurrent(c)
  PROVE  HandlerInv(c)' /\ Step(Near[c])
<1>1. Near[c] \in Ends /\ BufferLen \in Lengths /\ BufferLen \in Nat /\ TypeOK
  <2>1. BufferLen \in 1..BufferLen /\ 1..BufferLen \subseteq Lengths /\ BufferLen \in Nat
    BY EchoAssumption
  <2> QED BY <2>1, EndsApart DEF EchoInv, EchoTypeOK
<1>2. /\ pc[c] = "looping" /\ pc'[c] = "reading" /\ StartReceive(Near[c], BufferLen, FALSE, FALSE)
      /\ said'[c] = said[c] /\ handled'[c] = handled[c]
  BY DEF ReadCurrent, Goto, EchoInv, EchoTypeOK
<1>3. /\ call[Near[c]].op = "idle" /\ call'[Near[c]].op = "receive"
      /\ call'[Near[c]].left = BufferLen /\ ~call'[Near[c]].peek /\ sent' = sent /\ got' = got
  BY <1>1, <1>2, CallStarted
<1>4. HandlerInv(c)
  BY HandlerTypes
<1>5. CallAt(c)' /\ Buffered(c)' /\ SaidEnough(c)' /\ SaidEcho(c)'
  BY <1>2, <1>3, <1>4
     DEF HandlerInv, CallAt, Sending, Buffered, SaidEnough, Pending, SaidEcho, Ended
<1>6. Step(Near[c])
  BY <1>1, <1>2 DEF Step
<1> QED BY <1>5, <1>6 DEF HandlerInv

\* What was read is in the buffer, and fits.
LEMMA ReadReturnsKeeps ==
  ASSUME EchoInv, NEW c \in Clients, ReadReturns(c)
  PROVE  HandlerInv(c)' /\ Step(Near[c])
<1> DEFINE e == Near[c]
<1>1. e \in Ends /\ TypeOK
  BY EndsApart DEF EchoInv, EchoTypeOK
<1>2. /\ pc[c] = "reading" /\ said'[c] = said[c] /\ handled'[c] = handled[c]
      /\ pc \in [Clients \cup {Server} -> HandlerPlaces \cup ServerPlaces]
  BY DEF ReadReturns, EchoInv, EchoTypeOK
<1>3. HandlerInv(c) /\ handled[c] \in Nat /\ Len(got[e]) \in Nat
  BY HandlerTypes
<1>4. call[e].op = "receive" /\ call[e].left = BufferLen /\ ~call[e].peek
  BY <1>2, <1>3 DEF HandlerInv, CallAt
<1>5. CASE Receive(e) /\ Goto(c, "replying")
  <2>1. call'[e].op = "idle" /\ sent' = sent
    BY <1>1, <1>5 DEF Receive, Returns, TypeOK, Idle
  <2>2. PICK k \in 1..BufferLen : k <= Len(queue[e]) /\ got'[e] = got[e] \o SubSeq(queue[e], 1, k)
    BY <1>1, <1>4, <1>5 DEF Receive, TypeOK
  <2>3. Len(got'[e]) = Len(got[e]) + k /\ BufferLen \in Nat
    <3>1. queue[e] \in Seq(Nat) /\ got[e] \in Seq(Nat) /\ Len(queue[e]) \in Nat /\ BufferLen \in Nat
      BY <1>1, LenProperties, EchoAssumption DEF TypeOK
    <3>2. k \in 0..Len(queue[e])
      BY <2>2, <3>1
    <3>3. SubSeq(queue[e], 1, k) \in Seq(Nat) /\ Len(SubSeq(queue[e], 1, k)) = k
      BY <3>1, <3>2, SplitProperties
    <3> QED BY <2>2, <3>1, <3>3, ConcatProperties
  <2>4. pc'[c] = "replying"
    BY <1>2, <1>5 DEF Goto
  <2>5. handled[c] = Len(got[e])
    BY <1>2, <1>3 DEF HandlerInv, Buffered
  <2>6. Len(got'[e]) - handled[c] \in 1..BufferLen
    BY <1>3, <2>2, <2>3, <2>5
  <2>7. CallAt(c)' /\ Buffered(c)' /\ SaidEnough(c)' /\ SaidEcho(c)'
    BY <1>2, <1>3, <1>4, <2>1, <2>4, <2>6
       DEF HandlerInv, CallAt, Sending, Buffered, SaidEnough, Pending, SaidEcho, Ended
  <2>8. Step(e)
    BY <1>5 DEF Step
  <2> QED BY <2>7, <2>8 DEF HandlerInv
<1>6. CASE ReceiveEnd(e) /\ Goto(c, "looping")
  <2>1. call'[e].op = "idle" /\ sent' = sent /\ got' = got
    BY <1>1, <1>6 DEF ReceiveEnd, Returns, TypeOK, Idle
  <2>2. pc'[c] = "looping"
    BY <1>2, <1>6 DEF Goto
  <2>3. HandlerInv(c)'
    BY <1>2, <2>1, <2>2, NoCallKeeps DEF Sending, Ended
  <2>4. Step(e)
    BY <1>6 DEF Step
  <2> QED BY <2>3, <2>4
<1> QED BY <1>5, <1>6 DEF ReadReturns

\* What is in the buffer.
LEMMA BufferTyped ==
  ASSUME EchoInv, NEW c \in Clients, pc[c] = "replying"
  PROVE  Buffer(c) \in Seq(Int)
<1>1. /\ HandlerInv(c) /\ handled[c] \in Nat /\ Len(got[Near[c]]) \in Nat
      /\ BufferLen \in Nat
  BY HandlerTypes, EchoAssumption
<1>2. Len(got[Near[c]]) - handled[c] \in Nat
  BY <1>1 DEF HandlerInv, Buffered
<1>3. Buffer(c) \in Seq(Nat)
  BY <1>1, <1>2, NumberedProperties DEF Buffer
<1> QED BY <1>3

\* actOn() says the echo, or good-bye.
LEMMA ActOnKeeps ==
  ASSUME EchoInv, NEW c \in Clients, ActOn(c)
  PROVE  HandlerInv(c)' /\ Step(Near[c])
<1> DEFINE h == handled[c]
           k == Len(got[Near[c]])
<1>1. /\ Near[c] \in Ends /\ BufferLen \in Nat \ {0} /\ 1..BufferLen \subseteq Lengths /\ TypeOK
  BY EndsApart, EchoAssumption DEF EchoInv, EchoTypeOK
<1>2. /\ pc[c] = "replying" /\ handled'[c] = k
      /\ pc \in [Clients \cup {Server} -> HandlerPlaces \cup ServerPlaces]
  BY DEF ActOn, EchoInv, EchoTypeOK
<1>3. HandlerInv(c) /\ h \in Nat /\ k \in Nat /\ said[c] \in Seq(Int)
  BY HandlerTypes
<1>4. k - h \in 1..BufferLen /\ h < k
  <2>1. k - h \in 1..BufferLen
    BY <1>2, <1>3 DEF HandlerInv, Buffered
  <2> QED BY <1>1, <1>3, <2>1
<1>5. Echoes(said[c], h) /\ Reaches(said[c], h)
  BY <1>2, <1>3 DEF HandlerInv, SaidEcho, Ended
<1>6. CASE Says(c, <<Goodbye>>) /\ Goto(c, "parting")
  <2>1. pc'[c] = "parting"
    BY <1>2, <1>6 DEF Goto
  <2>2. /\ <<Goodbye>> \in Seq(Int) /\ Len(<<Goodbye>>) = 1
        /\ Echoes(said[c] \o <<Goodbye>>, k)
    <3>1. Goodbye \in {Welcome, Help, Goodbye} /\ h <= k
      BY <1>3, <1>4
    <3> QED BY <1>3, <1>5, <3>1, RemarkKeeps
  <2>3. /\ call'[Near[c]].op = "send" /\ said'[c] = said[c] \o <<Goodbye>>
        /\ got' = got /\ SaidEnough(c)'
    BY <1>6, <2>2, SaysEnough
  <2>4. CallAt(c)' /\ Buffered(c)' /\ SaidEcho(c)'
    BY <1>2, <2>1, <2>2, <2>3 DEF CallAt, Sending, Buffered, SaidEcho, Ended
  <2>5. Step(Near[c])
    <3>1. StartSend(Near[c], 1, FALSE)
      BY <1>6, <2>2 DEF Says
    <3>2. 1 \in Lengths
      BY <1>1
    <3> QED BY <3>1, <3>2 DEF Step
  <2> QED BY <2>3, <2>4, <2>5 DEF HandlerInv
<1>7. CASE Says(c, Buffer(c)) /\ Goto(c, "echoing")
  <2> DEFINE m == Buffer(c)
  <2>1. pc'[c] = "echoing"
    BY <1>2, <1>7 DEF Goto
  <2>2. m = Numbered(h, k - h)
    BY DEF Buffer
  <2> HIDE DEF m
  <2>3. /\ m \in Seq(Int) /\ Len(m) = k - h
        /\ Echoes(said[c] \o m, k) /\ Reaches(said[c] \o m, k)
    BY <1>3, <1>4, <1>5, <2>2, EchoKeeps
  <2>4. Says(c, m)
    BY <1>7 DEF m
  <2>5. /\ call'[Near[c]].op = "send" /\ said'[c] = said[c] \o m
        /\ got' = got /\ SaidEnough(c)'
    BY <2>3, <2>4, SaysEnough
  <2>6. CallAt(c)' /\ Buffered(c)' /\ SaidEcho(c)'
    BY <1>2, <2>1, <2>3, <2>5 DEF CallAt, Sending, Buffered, SaidEcho, Ended
  <2>7. Step(Near[c])
    <3>1. StartSend(Near[c], k - h, FALSE) /\ k - h \in Lengths
      BY <1>1, <1>4, <2>3, <2>4 DEF Says
    <3> QED BY <3>1 DEF Step
  <2> QED BY <2>5, <2>6, <2>7 DEF HandlerInv
<1> QED BY <1>6, <1>7 DEF ActOn

\* A send() or a read that ends, and the end of the thread.
LEMMA CallEndsKeeps ==
  ASSUME EchoInv, NEW c \in Clients, SendEnds(c) \/ HandlerThrows(c) \/ Leave(c)
  PROVE  /\ HandlerInv(c)' /\ Step(Near[c])
         /\ pc[c] \in Sending \cup {"reading", "leaving"}
         /\ \E p \in {"greeted", "looping", "leaving", "over"} : Goto(c, p)
<1> DEFINE e == Near[c]
<1>1. e \in Ends /\ TypeOK /\ HandlerInv(c)
  BY EndsApart, HandlerTypes DEF EchoInv, EchoTypeOK
<1>2. /\ said'[c] = said[c] /\ handled'[c] = handled[c]
      /\ pc \in [Clients \cup {Server} -> HandlerPlaces \cup ServerPlaces]
  BY DEF SendEnds, HandlerThrows, Leave, EchoInv, EchoTypeOK
<1>3. /\ pc[c] \in Sending \cup {"reading", "leaving"}
      /\ \E p \in {"greeted", "looping", "leaving", "over"} :
           Goto(c, p) /\ (pc[c] \in Ended => p \in Ended)
      /\ SendReturns(e) \/ SendThrows(e) \/ ReceiveThrows(e) \/ Destroy(e)
  <2>1. CASE SendEnds(c)
    <3>1. call[e].op = "send" /\ SendReturns(e) /\ Goto(c, AfterSend(pc[c]))
      BY <2>1 DEF SendEnds, SendReturns, InCall
    <3>2. pc[c] \in Sending
      BY <1>1, <3>1 DEF HandlerInv, CallAt
    <3>3. /\ AfterSend(pc[c]) \in {"greeted", "looping", "leaving", "over"}
          /\ pc[c] \in Ended => AfterSend(pc[c]) \in Ended
      BY <3>2 DEF Sending, Ended, AfterSend
    <3> QED BY <3>1, <3>2, <3>3
  <2>2. CASE HandlerThrows(c)
    <3>1. call[e].op \in {"send", "receive"}
      BY <2>2 DEF HandlerThrows, SendThrows, ReceiveThrows, InCall
    <3>2. pc[c] \in Sending \cup {"reading"}
      BY <1>1, <3>1 DEF HandlerInv, CallAt
    <3>3. /\ Goto(c, IF pc[c] \in {"welcoming", "helping"} THEN "looping" ELSE "leaving")
          /\ SendThrows(e) \/ ReceiveThrows(e)
      BY <2>2 DEF HandlerThrows
    <3>4. CASE pc[c] \in {"welcoming", "helping"}
      BY <3>2, <3>3, <3>4 DEF Ended
    <3>5. CASE pc[c] \notin {"welcoming", "helping"}
      BY <3>2, <3>3, <3>5 DEF Ended
    <3> QED BY <3>4, <3>5
  <2>3. CASE Leave(c)
    BY <2>3 DEF Leave, Ended
  <2> QED BY <2>1, <2>2, <2>3
<1>4. Step(e)
  BY <1>3 DEF Step
<1>5. call'[e].op \in {"idle", "gone"} /\ sent' = sent /\ got' = got
  <2>1. Destroy(e) => Close(e)
    BY DEF Destroy
  <2> QED BY <1>1, <1>3, <2>1, CallOver
<1>6. PICK p \in {"greeted", "looping", "leaving", "over"} :
        Goto(c, p) /\ (pc[c] \in Ended => p \in Ended)
  BY <1>3
<1>7. pc'[c] = p
  BY <1>2, <1>6 DEF Goto
<1>8. HandlerInv(c)'
  BY <1>2, <1>3, <1>5, <1>6, <1>7, NoCallKeeps DEF Sending, Ended
<1> QED BY <1>3, <1>4, <1>8

\* What the kernel takes of a message is still what was said.
LEMMA SendCopiesPending ==
  ASSUME TypeOK, NEW e \in Ends, SendCopies(e)
  PROVE  /\ call[e].op = "send" /\ call'[e].op = "send" /\ got' = got
         /\ sent'[e] + Pending(e)' = sent[e] + Pending(e)
<1>1. call[e].op = "send" /\ got' = got
  BY DEF SendCopies, InCall, callerVars
<1>2. PICK k \in 1..call[e].left :
        /\ sent' = [sent EXCEPT ![e] = @ + k]
        /\ call' = [call EXCEPT ![e].left = @ - k, ![e].done = @ + k]
  BY DEF SendCopies
<1>3. sent[e] \in Nat /\ call[e].left \in Nat /\ call[e] \in CallRecord
  BY DEF TypeOK, CallRecord
<1>4. sent'[e] = sent[e] + k
  BY <1>2 DEF TypeOK
<1>5. call'[e].op = "send" /\ call'[e].left = call[e].left - k
  BY <1>1, <1>2 DEF TypeOK, CallRecord
<1>6. (sent[e] + k) + (call[e].left - k) = sent[e] + call[e].left
  BY <1>3
<1> QED BY <1>1, <1>4, <1>5, <1>6 DEF Pending

\* A handler's send() that goes on.
LEMMA CopiesKeep ==
  ASSUME EchoInv, NEW c \in Clients, SendCopies(Near[c]), UNCHANGED echoVars
  PROVE  HandlerInv(c)' /\ Step(Near[c]) /\ pc[c] \in Sending
<1>1. Near[c] \in Ends /\ TypeOK /\ HandlerInv(c)
  BY EndsApart, HandlerTypes DEF EchoInv, EchoTypeOK
<1>2. /\ call[Near[c]].op = "send" /\ call'[Near[c]].op = "send" /\ got' = got
      /\ sent'[Near[c]] + Pending(Near[c])' = sent[Near[c]] + Pending(Near[c])
  BY <1>1, SendCopiesPending
<1>3. CallAt(c)' /\ pc[c] \in Sending
  BY <1>1, <1>2 DEF HandlerInv, CallAt, Sending, echoVars
<1>4. Buffered(c)' /\ SaidEnough(c)' /\ SaidEcho(c)'
  BY <1>1, <1>2 DEF HandlerInv, Buffered, SaidEnough, SaidEcho, echoVars
<1> QED BY <1>1, <1>3, <1>4 DEF Step, HandlerInv

(***************************************************************************)
(* Every step of a handler keeps the invariant, if it keeps its own part.  *)
(***************************************************************************)
LEMMA HandlerMoves ==
  ASSUME EchoInv, NEW c \in Clients, Step(Near[c]), HandlerInv(c)',
         pc[c] \notin Before \cup {"over"},
         NEW p \in HandlerPlaces \ Before, Goto(c, p),
         said' \in [Clients -> Seq(Int)], handled' \in [Clients -> Nat],
         \A d \in Clients \ {c} : said'[d] = said[d] /\ handled'[d] = handled[d],
         UNCHANGED <<acceptedThreads, joining, typed, killed>>
  PROVE  EchoInv'
<1>1. IInv /\ TypeOK /\ Near[c] \in Ends
  BY EndsApart DEF EchoInv, EchoTypeOK
<1>2. IInv'
  BY <1>1, StepHolds
<1>3. /\ pc' = [pc EXCEPT ![c] = p] /\ c # Server
      /\ pc \in [Clients \cup {Server} -> HandlerPlaces \cup ServerPlaces]
  BY EchoAssumption DEF Goto, EchoInv, EchoTypeOK
<1>4. pc'[c] = p /\ pc'[Server] = pc[Server] /\ \A d \in Clients \ {c} : pc'[d] = pc[d]
  BY <1>3
<1>5. EchoTypeOK'
  <2>1. pc' \in [Clients \cup {Server} -> HandlerPlaces \cup ServerPlaces]
    BY <1>3
  <2>2. pc'[Server] \in ServerPlaces /\ \A d \in Clients : pc'[d] \in HandlerPlaces
    BY <1>4 DEF EchoInv, EchoTypeOK
  <2> QED BY <1>2, <2>1, <2>2 DEF EchoInv, EchoTypeOK, IInv
<1>6. ThreadsKept'
  <2>1. \A i \in 1..(joining - 1) : pc'[acceptedThreads[i]] = "over"
    <3>1. ASSUME NEW i \in 1..(joining - 1) PROVE pc'[acceptedThreads[i]] = "over"
      <4>1. pc[acceptedThreads[i]] = "over" /\ acceptedThreads[i] \in Clients
        <5>1. i \in 1..Len(acceptedThreads)
          BY LenProperties DEF EchoInv, EchoTypeOK
        <5> QED BY <5>1, LenProperties DEF EchoInv, EchoTypeOK, ThreadsKept
      <4> QED BY <1>4, <4>1
    <3> QED BY <3>1
  <2>2. \A d \in Clients : pc'[d] \notin Before => pc[d] \notin Before
    BY <1>4
  <2> QED BY <1>4, <2>1, <2>2 DEF EchoInv, ThreadsKept
<1>7. ASSUME NEW d \in Clients PROVE HandlerInv(d)' /\ TypedEnough(d)'
  <2>1. Near[d] \in Ends /\ Far[d] \in Ends /\ Far[d] # Near[c] /\ (d # c => Near[d] # Near[c])
    BY EndsApart
  <2>2. TypedEnough(d)'
    <3>1. call'[Far[d]] = call[Far[d]] /\ sent'[Far[d]] = sent[Far[d]]
      BY <1>1, <2>1, StepLocal
    <3> QED BY <3>1, ClientSame DEF EchoInv
  <2>3. d # c => HandlerInv(d)'
    <3> SUFFICES ASSUME d # c PROVE HandlerInv(d)'
      OBVIOUS
    <3>1. /\ call'[Near[d]] = call[Near[d]] /\ sent'[Near[d]] = sent[Near[d]]
          /\ got'[Near[d]] = got[Near[d]]
      BY <1>1, <2>1, StepLocal
    <3> QED BY <1>4, <3>1, HandlerSame DEF EchoInv
  <2> QED BY <2>2, <2>3
<1> QED BY <1>2, <1>5, <1>6, <1>7 DEF EchoInv

\* Every step of a handler.
LEMMA HandlerHolds ==
  ASSUME EchoInv, NEW c \in Clients, HandlerStep(c)
  PROVE  EchoInv' /\ Step(Near[c])
<1>1. /\ said \in [Clients -> Seq(Int)] /\ handled \in [Clients -> Nat]
      /\ pc[c] \in HandlerPlaces
  BY DEF EchoInv, EchoTypeOK
<1>2. CASE Greet(c)
  <2>1. HandlerInv(c)' /\ Step(Near[c])
    BY <1>2, GreetKeeps
  <2>2. PICK v \in {Welcome, Help} : Says(c, <<v>>)
    BY <1>2 DEF Greet
  <2>3. <<v>> \in Seq(Int)
    BY DEF Welcome, Help
  <2>4. said' \in [Clients -> Seq(Int)] /\ \A d \in Clients \ {c} : said'[d] = said[d]
    <3>1. said[c] \o <<v>> \in Seq(Int)
      BY <1>1, <2>3, ConcatProperties
    <3> QED BY <1>1, <2>2, <3>1 DEF Says
  <2>5. \E p \in {"welcoming", "helping"} : Goto(c, p)
    BY <1>2 DEF Greet
  <2>6. /\ pc[c] \notin Before \cup {"over"}
        /\ UNCHANGED <<acceptedThreads, joining, typed, handled, killed>>
    BY <1>2 DEF Greet, Before
  <2> QED BY <1>1, <2>1, <2>4, <2>5, <2>6, HandlerMoves DEF HandlerPlaces, Before
<1>3. CASE ReadCurrent(c)
  <2>1. HandlerInv(c)' /\ Step(Near[c])
    BY <1>3, ReadCurrentKeeps
  <2>2. /\ pc[c] \notin Before \cup {"over"} /\ Goto(c, "reading")
        /\ UNCHANGED <<acceptedThreads, joining, typed, said, handled, killed>>
    BY <1>3 DEF ReadCurrent, Before
  <2> QED BY <1>1, <2>1, <2>2, HandlerMoves DEF HandlerPlaces, Before
<1>4. CASE ReadReturns(c)
  <2>1. HandlerInv(c)' /\ Step(Near[c])
    BY <1>4, ReadReturnsKeeps
  <2>2. /\ pc[c] \notin Before \cup {"over"} /\ \E p \in {"replying", "looping"} : Goto(c, p)
        /\ UNCHANGED <<acceptedThreads, joining, typed, said, handled, killed>>
    BY <1>4 DEF ReadReturns, Before
  <2> QED BY <1>1, <2>1, <2>2, HandlerMoves DEF HandlerPlaces, Before
<1>5. CASE ActOn(c)
  <2>1. HandlerInv(c)' /\ Step(Near[c])
    BY <1>5, ActOnKeeps
  <2>2. PICK m \in Seq(Int) : Says(c, m)
    <3>1. <<Goodbye>> \in Seq(Int)
      BY DEF Goodbye
    <3>2. Buffer(c) \in Seq(Int)
      BY <1>5, BufferTyped DEF ActOn
    <3> QED BY <1>5, <3>1, <3>2 DEF ActOn
  <2>3. said' \in [Clients -> Seq(Int)] /\ \A d \in Clients \ {c} : said'[d] = said[d]
    <3>1. said[c] \o m \in Seq(Int)
      BY <1>1, ConcatProperties
    <3> QED BY <1>1, <2>2, <3>1 DEF Says
  <2>4. handled' \in [Clients -> Nat] /\ \A d \in Clients \ {c} : handled'[d] = handled[d]
    BY <1>1, <1>5, HandlerTypes DEF ActOn
  <2>5. /\ pc[c] \notin Before \cup {"over"} /\ \E p \in {"parting", "echoing"} : Goto(c, p)
        /\ UNCHANGED <<acceptedThreads, joining, typed, killed>>
    BY <1>5 DEF ActOn, Before
  <2> QED BY <2>1, <2>3, <2>4, <2>5, HandlerMoves DEF HandlerPlaces, Before
<1>6. CASE SendEnds(c) \/ HandlerThrows(c) \/ Leave(c)
  <2>1. /\ HandlerInv(c)' /\ Step(Near[c])
        /\ pc[c] \in Sending \cup {"reading", "leaving"}
    BY <1>6, CallEndsKeeps
  <2>2. PICK p \in {"greeted", "looping", "leaving", "over"} : Goto(c, p)
    BY <1>6, CallEndsKeeps
  <2>3. UNCHANGED <<acceptedThreads, joining, typed, said, handled, killed>>
    BY <1>6 DEF SendEnds, HandlerThrows, Leave
  <2>4. pc[c] \notin Before \cup {"over"}
    BY <2>1 DEF Sending, Before
  <2> QED BY <1>1, <2>1, <2>2, <2>3, <2>4, HandlerMoves DEF HandlerPlaces, Before
<1>7. CASE SendCopies(Near[c]) /\ UNCHANGED echoVars
  <2>1. HandlerInv(c)' /\ Step(Near[c]) /\ pc[c] \in Sending
    BY <1>7, CopiesKeep
  <2>2. Goto(c, pc[c])
    BY <1>7 DEF Goto, echoVars, EchoInv, EchoTypeOK
  <2>3. UNCHANGED <<acceptedThreads, joining, typed, said, handled, killed>>
    BY <1>7 DEF echoVars
  <2>4. pc[c] \notin Before \cup {"over"}
    BY <2>1 DEF Sending, Before
  <2> QED BY <1>1, <2>1, <2>2, <2>3, <2>4, HandlerMoves
<1> QED BY <1>2, <1>3, <1>4, <1>5, <1>6, <1>7 DEF HandlerStep
-----------------------------------------------------------------------------
\* The end of the process changes nothing else.
LEMMA NothingMoves ==
  ASSUME EchoInv, UNCHANGED <<vars, acceptedThreads, joining, pc, typed, said, handled>>,
         killed' \in BOOLEAN
  PROVE  EchoInv'
<1>1. IInv'
  BY StutterHolds DEF EchoInv
<1>2. EchoTypeOK' /\ ThreadsKept'
  BY <1>1 DEF EchoInv, EchoTypeOK, ThreadsKept, IInv
<1>3. ASSUME NEW c \in Clients PROVE HandlerInv(c)' /\ TypedEnough(c)'
  BY HandlerSame, ClientSame DEF EchoInv, vars
<1> QED BY <1>1, <1>2, <1>3 DEF EchoInv

(***************************************************************************)
(* Every step of a client keeps the invariant, if it keeps its own part.   *)
(***************************************************************************)
LEMMA ClientMoves ==
  ASSUME EchoInv, NEW c \in Clients, Step(Far[c]), TypedEnough(c)',
         typed' \in [Clients -> Seq(Inputs)], \A d \in Clients \ {c} : typed'[d] = typed[d],
         UNCHANGED <<pc, programVars>>
  PROVE  EchoInv'
<1>1. IInv /\ TypeOK /\ Far[c] \in Ends
  BY EndsApart DEF EchoInv, EchoTypeOK
<1>2. IInv'
  BY <1>1, StepHolds
<1>3. EchoTypeOK' /\ ThreadsKept'
  BY <1>2 DEF EchoInv, EchoTypeOK, ThreadsKept, IInv, programVars
<1>4. ASSUME NEW d \in Clients PROVE HandlerInv(d)' /\ TypedEnough(d)'
  <2>1. Near[d] \in Ends /\ Far[d] \in Ends /\ Near[d] # Far[c] /\ (d # c => Far[d] # Far[c])
    BY EndsApart
  <2>2. HandlerInv(d)'
    <3>1. /\ call'[Near[d]] = call[Near[d]] /\ sent'[Near[d]] = sent[Near[d]]
          /\ got'[Near[d]] = got[Near[d]]
      BY <1>1, <2>1, StepLocal
    <3> QED BY <3>1, HandlerSame DEF EchoInv, programVars
  <2>3. d # c => TypedEnough(d)'
    <3> SUFFICES ASSUME d # c PROVE TypedEnough(d)'
      OBVIOUS
    <3>1. call'[Far[d]] = call[Far[d]] /\ sent'[Far[d]] = sent[Far[d]]
      BY <1>1, <2>1, StepLocal
    <3> QED BY <3>1, ClientSame DEF EchoInv
  <2> QED BY <2>2, <2>3
<1> QED BY <1>2, <1>3, <1>4 DEF EchoInv

\* What is still to be sent was typed, if no more is to be sent than before.
LEMMA NotMoreToSend ==
  ASSUME EchoInv, NEW c \in Clients, typed' = typed,
         sent'[Far[c]] + Pending(Far[c])' = sent[Far[c]] + Pending(Far[c])
           \/ (sent'[Far[c]] = sent[Far[c]] /\ Pending(Far[c])' = 0)
  PROVE  TypedEnough(c)'
<1>1. /\ TypedEnough(c) /\ sent[Far[c]] \in Nat /\ Pending(Far[c]) \in Nat
      /\ Len(typed[c]) \in Nat
  BY HandlerTypes
<1>2. \A a, b, l \in Nat : a + b <= l => a + 0 <= l
  OBVIOUS
<1>3. sent[Far[c]] + 0 <= Len(typed[c])
  BY <1>1, <1>2 DEF TypedEnough
<1> QED BY <1>1, <1>3 DEF TypedEnough

\* Every step of a client, on its connection.
LEMMA ClientHolds ==
  ASSUME EchoInv, NEW c \in Clients,
         \/ Listen(c) \/ ClientGoesOn(c) \/ HangUp(c)
         \/ \E input \in Inputs : Type(c, input)
  PROVE  EchoInv' /\ Step(Far[c])
<1> DEFINE e == Far[c]
<1>1. e \in Ends /\ TypeOK /\ typed \in [Clients -> Seq(Inputs)]
  BY EndsApart DEF EchoInv, EchoTypeOK
<1>2. CASE Listen(c)
  <2>1. StartReceive(e, Room, FALSE, FALSE) /\ Room \in Lengths /\ Room \in Nat
    BY <1>2, EchoAssumption, StreamAssumption DEF Listen
  <2>2. Step(e)
    BY <2>1 DEF Step
  <2>3. call'[e].op = "receive" /\ sent' = sent
    BY <1>1, <2>1, CallStarted
  <2>4. typed' = typed /\ UNCHANGED <<pc, programVars>>
    BY <1>2 DEF Listen, echoVars, programVars
  <2>5. TypedEnough(c)'
    BY <2>3, <2>4, NotMoreToSend DEF Pending
  <2> QED BY <1>1, <2>2, <2>4, <2>5, ClientMoves
<1>3. CASE ClientGoesOn(c)
  <2>1. Step(e)
    BY <1>3 DEF ClientGoesOn, Step
  <2>2. typed' = typed /\ UNCHANGED <<pc, programVars>>
    BY <1>3 DEF ClientGoesOn, echoVars, programVars
  <2>3. CASE SendCopies(e)
    <3>1. TypedEnough(c)'
      BY <1>1, <2>2, <2>3, SendCopiesPending, NotMoreToSend
    <3> QED BY <1>1, <2>1, <2>2, <3>1, ClientMoves
  <2>4. CASE \/ SendReturns(e) \/ SendThrows(e)
             \/ Receive(e) \/ ReceiveEnd(e) \/ ReceiveThrows(e)
    <3>1. call'[e].op = "idle" /\ sent' = sent
      BY <1>1, <2>4, CallOver
    <3>2. TypedEnough(c)'
      BY <2>2, <3>1, NotMoreToSend DEF Pending
    <3> QED BY <1>1, <2>1, <2>2, <3>2, ClientMoves
  <2> QED BY <1>3, <2>3, <2>4 DEF ClientGoesOn
<1>4. CASE HangUp(c)
  <2>1. Step(e)
    BY <1>4 DEF HangUp, Step
  <2>2. typed' = typed /\ UNCHANGED <<pc, programVars>>
    BY <1>4 DEF HangUp, echoVars, programVars
  <2>3. call'[e].op = "gone" /\ sent' = sent
    <3>1. Close(e) /\ sent' = sent
      BY <1>4 DEF HangUp, Destroy, BrokenPipe, Close
    <3> QED BY <1>1, <3>1, CallOver
  <2>4. TypedEnough(c)'
    BY <2>2, <2>3, NotMoreToSend DEF Pending
  <2> QED BY <1>1, <2>1, <2>2, <2>4, ClientMoves
<1>5. ASSUME NEW input \in Inputs, Type(c, input)
      PROVE  EchoInv' /\ Step(e)
  <2>1. /\ StartSend(e, 1, FALSE) /\ Len(typed[c]) = sent[e]
        /\ typed' = [typed EXCEPT ![c] = Append(@, input)] /\ UNCHANGED <<pc, programVars>>
    BY <1>5 DEF Type
  <2>2. Step(e)
    <3>1. 1 \in Lengths
      BY EchoAssumption
    <3> QED BY <2>1, <3>1 DEF Step
  <2>3. call'[e].op = "send" /\ call'[e].left = 1 /\ sent' = sent
    BY <1>1, <2>1, CallStarted
  <2>4. /\ typed[c] \in Seq(Inputs) /\ Append(typed[c], input) \in Seq(Inputs)
        /\ Len(Append(typed[c], input)) = Len(typed[c]) + 1
    BY <1>1, AppendProperties
  <2>5. typed' \in [Clients -> Seq(Inputs)] /\ \A d \in Clients \ {c} : typed'[d] = typed[d]
    BY <1>1, <2>1, <2>4
  <2>6. Len(typed'[c]) = sent'[e] + 1
    BY <1>1, <2>1, <2>3, <2>4
  <2>7. TypedEnough(c)'
    <3>1. Pending(e)' = 1
      BY <2>3 DEF Pending
    <3>2. sent'[e] + 1 <= sent'[e] + 1
      BY <1>1, <2>3 DEF TypeOK
    <3> QED BY <2>6, <3>1, <3>2 DEF TypedEnough
  <2> QED BY <2>2, <2>1, <2>5, <2>7, ClientMoves
<1> QED BY <1>2, <1>3, <1>4, <1>5
-----------------------------------------------------------------------------
\* A connection that has no handler yet comes, is accepted, or is lost.
LEMMA NoHandlerYet ==
  ASSUME EchoInv, NEW c \in Clients, pc[c] \in {"absent", "queued"},
         pc'[c] \in {"queued", "lost", "greeting"},
         UNCHANGED vars \/ Destroy(Near[c]), UNCHANGED <<said, handled>>
  PROVE  HandlerInv(c)'
<1>1. Near[c] \in Ends /\ TypeOK /\ HandlerInv(c)
  BY EndsApart, HandlerTypes DEF EchoInv, EchoTypeOK
<1>2. call[Near[c]].op \notin {"send", "receive"}
  BY <1>1 DEF HandlerInv, CallAt, Sending
<1>3. call'[Near[c]].op \notin {"send", "receive"} /\ sent' = sent /\ got' = got
  <2>1. CASE UNCHANGED vars
    BY <1>2, <2>1 DEF vars
  <2>2. CASE Destroy(Near[c])
    <3>1. Close(Near[c])
      BY <2>2 DEF Destroy
    <3> QED BY <1>1, <3>1, CallOver
  <2> QED BY <2>1, <2>2
<1> QED BY <1>3, NoCallKeeps DEF Sending, Ended

\* What the clients and the other handlers keep when a connection changes hands.
LEMMA OthersStay ==
  ASSUME EchoInv, UNCHANGED <<typed, said, handled>>, NEW c \in Clients,
         UNCHANGED vars \/ Destroy(Near[c])
  PROVE  /\ IInv'
         /\ \A d \in Clients : TypedEnough(d)'
         /\ \A d \in Clients \ {c} : pc'[d] = pc[d] => HandlerInv(d)'
<1>1. CASE UNCHANGED vars
  BY <1>1, StutterHolds, HandlerSame, ClientSame DEF EchoInv, vars
<1>2. CASE Destroy(Near[c])
  <2>1. Step(Near[c]) /\ Near[c] \in Ends /\ TypeOK /\ IInv
    BY <1>2, EndsApart DEF Step, EchoInv, EchoTypeOK
  <2>2. IInv'
    BY <2>1, StepHolds
  <2>3. ASSUME NEW d \in Clients PROVE TypedEnough(d)'
    <3>1. Far[d] \in Ends /\ Far[d] # Near[c]
      BY EndsApart
    <3>2. call'[Far[d]] = call[Far[d]] /\ sent'[Far[d]] = sent[Far[d]]
      BY <2>1, <3>1, StepLocal
    <3> QED BY <3>2, ClientSame DEF EchoInv
  <2>4. ASSUME NEW d \in Clients \ {c}, pc'[d] = pc[d] PROVE HandlerInv(d)'
    <3>1. Near[d] \in Ends /\ Near[d] # Near[c]
      BY EndsApart
    <3>2. /\ call'[Near[d]] = call[Near[d]] /\ sent'[Near[d]] = sent[Near[d]]
          /\ got'[Near[d]] = got[Near[d]]
      BY <2>1, <3>1, StepLocal
    <3> QED BY <2>4, <3>2, HandlerSame DEF EchoInv
  <2> QED BY <2>2, <2>3, <2>4
<1> QED BY <1>1, <1>2

\* acceptInNewThread() and push_back().
LEMMA AcceptHolds ==
  ASSUME EchoInv, AcceptCurrent
  PROVE  EchoInv'
<1>1. PICK c \in Clients :
        /\ pc[c] = "queued" /\ acceptedThreads' = Append(acceptedThreads, c)
        /\ Goto(c, "greeting")
  BY DEF AcceptCurrent
<1>2. pc[Server] = "accepting" /\ UNCHANGED <<vars, joining, typed, said, handled, killed>>
  BY DEF AcceptCurrent
<1>3. /\ pc \in [Clients \cup {Server} -> HandlerPlaces \cup ServerPlaces] /\ c # Server
      /\ acceptedThreads \in Seq(Clients) /\ Len(acceptedThreads) \in Nat
      /\ joining \in 1..(Len(acceptedThreads) + 1)
  BY EchoAssumption, LenProperties DEF EchoInv, EchoTypeOK
<1>4. pc'[c] = "greeting" /\ \A t \in (Clients \cup {Server}) \ {c} : pc'[t] = pc[t]
  BY <1>1, <1>3 DEF Goto
<1>5. /\ acceptedThreads' \in Seq(Clients) /\ Len(acceptedThreads') = Len(acceptedThreads) + 1
      /\ acceptedThreads'[Len(acceptedThreads) + 1] = c
      /\ \A i \in 1..Len(acceptedThreads) : acceptedThreads'[i] = acceptedThreads[i]
  BY <1>1, <1>3, AppendProperties
<1>6. /\ IInv' /\ \A d \in Clients : TypedEnough(d)'
      /\ \A d \in Clients \ {c} : HandlerInv(d)'
  BY <1>2, <1>4, OthersStay
<1>7. HandlerInv(c)'
  BY <1>1, <1>2, <1>4, NoHandlerYet
<1>8. EchoTypeOK'
  <2>1. joining' \in 1..(Len(acceptedThreads') + 1)
    BY <1>2, <1>3, <1>5
  <2>2. "greeting" \in HandlerPlaces
    BY DEF HandlerPlaces
  <2>3. pc' \in [Clients \cup {Server} -> HandlerPlaces \cup ServerPlaces]
    BY <1>1, <1>3, <2>2 DEF Goto
  <2>4. pc'[Server] \in ServerPlaces /\ \A d \in Clients : pc'[d] \in HandlerPlaces
    BY <1>3, <1>4, <2>2 DEF EchoInv, EchoTypeOK
  <2> QED BY <1>2, <1>5, <1>6, <2>1, <2>3, <2>4 DEF EchoInv, EchoTypeOK, IInv
<1>9. ThreadsKept'
  <2>1. ASSUME NEW i \in 1..(joining - 1) PROVE pc'[acceptedThreads'[i]] = "over"
    <3>1. i \in 1..Len(acceptedThreads)
      BY <1>3
    <3>2. pc[acceptedThreads[i]] = "over" /\ acceptedThreads[i] \in Clients
      BY <1>3, <3>1, LenProperties DEF EchoInv, ThreadsKept
    <3> QED BY <1>1, <1>4, <1>5, <3>1, <3>2
  <2>2. ASSUME NEW d \in Clients, pc'[d] \notin Before
        PROVE  \E i \in 1..Len(acceptedThreads') : acceptedThreads'[i] = d
    <3>1. CASE d = c
      <4>1. Len(acceptedThreads) + 1 \in 1..Len(acceptedThreads')
        BY <1>3, <1>5
      <4> QED BY <1>5, <3>1, <4>1
    <3>2. CASE d # c
      <4>1. PICK i \in 1..Len(acceptedThreads) : acceptedThreads[i] = d
        BY <1>4, <2>2, <3>2 DEF EchoInv, ThreadsKept
      <4>2. i \in 1..Len(acceptedThreads')
        BY <1>3, <1>5
      <4> QED BY <1>5, <4>1, <4>2
    <3> QED BY <3>1, <3>2
  <2>3. pc'[Server] # "over"
    BY <1>2, <1>3, <1>4
  <2> QED BY <1>2, <2>1, <2>2, <2>3 DEF ThreadsKept
<1> QED BY <1>6, <1>7, <1>8, <1>9 DEF EchoInv

(***************************************************************************)
(* A thread of no handler moves on: the server, a client that connects, or *)
(* both the server and a connection that is lost.                          *)
(***************************************************************************)
LEMMA PlacesMove ==
  ASSUME EchoInv, IInv', UNCHANGED <<acceptedThreads, joining, typed, said, handled, killed>>,
         pc' \in [Clients \cup {Server} -> HandlerPlaces \cup ServerPlaces],
         pc'[Server] \in ServerPlaces,
         \A d \in Clients :
           /\ HandlerInv(d)' /\ TypedEnough(d)' /\ pc'[d] \in HandlerPlaces
           /\ pc'[d] = pc[d] \/ (pc[d] \in Before /\ pc'[d] \in Before),
         pc'[Server] = "over" => joining > Len(acceptedThreads)
  PROVE  EchoInv'
<1>1. EchoTypeOK'
  BY DEF EchoInv, EchoTypeOK, IInv
<1>2. ThreadsKept'
  <2>1. ASSUME NEW i \in 1..(joining - 1) PROVE pc'[acceptedThreads[i]] = "over"
    <3>1. i \in 1..Len(acceptedThreads) /\ acceptedThreads \in Seq(Clients)
      BY LenProperties DEF EchoInv, EchoTypeOK
    <3>2. pc[acceptedThreads[i]] = "over" /\ acceptedThreads[i] \in Clients
      BY <3>1, LenProperties DEF EchoInv, ThreadsKept
    <3> QED BY <3>2 DEF Before
  <2>2. \A d \in Clients : pc'[d] \notin Before => pc[d] \notin Before
    OBVIOUS
  <2> QED BY <2>1, <2>2 DEF EchoInv, ThreadsKept
<1> QED BY <1>1, <1>2 DEF EchoInv

\* accept() throws.
LEMMA AcceptThrowsHolds ==
  ASSUME EchoInv, AcceptThrows
  PROVE  EchoInv' /\ (UNCHANGED vars \/ \E c \in Clients : Step(Near[c]))
<1>1. UNCHANGED <<acceptedThreads, joining, typed, said, handled, killed>>
  BY DEF AcceptThrows
<1>2. /\ pc \in [Clients \cup {Server} -> HandlerPlaces \cup ServerPlaces] /\ Server \notin Clients
      /\ "joining" \in ServerPlaces /\ "lost" \in HandlerPlaces
      /\ \A d \in Clients : pc[d] \in HandlerPlaces
  BY EchoAssumption DEF EchoInv, EchoTypeOK, ServerPlaces, HandlerPlaces
<1>3. CASE Goto(Server, "joining") /\ UNCHANGED vars
  <2>1. pc' = [pc EXCEPT ![Server] = "joining"]
    BY <1>3 DEF Goto
  <2>2. \A d \in Clients : pc'[d] = pc[d]
    BY <1>2, <2>1
  <2>3. IInv' /\ \A d \in Clients : HandlerInv(d)' /\ TypedEnough(d)'
    BY <1>1, <1>3, <2>2, StutterHolds, HandlerSame, ClientSame DEF EchoInv, vars
  <2>4. /\ pc' \in [Clients \cup {Server} -> HandlerPlaces \cup ServerPlaces]
        /\ pc'[Server] = "joining"
    BY <1>2, <2>1
  <2>5. EchoInv'
    BY <1>1, <1>2, <2>2, <2>3, <2>4, PlacesMove
  <2> QED BY <1>3, <2>5
<1>4. ASSUME NEW c \in Clients, pc[c] = "queued", Destroy(Near[c]) \/ UNCHANGED vars,
             pc' = [pc EXCEPT ![Server] = "joining", ![c] = "lost"]
      PROVE  EchoInv' /\ (UNCHANGED vars \/ \E d \in Clients : Step(Near[d]))
  <2>1. /\ pc' \in [Clients \cup {Server} -> HandlerPlaces \cup ServerPlaces]
        /\ pc'[Server] = "joining" /\ pc'[c] = "lost"
        /\ \A d \in Clients \ {c} : pc'[d] = pc[d]
    BY <1>2, <1>4
  <2>2. /\ IInv' /\ \A d \in Clients : TypedEnough(d)'
        /\ \A d \in Clients \ {c} : HandlerInv(d)'
    BY <1>1, <1>4, <2>1, OthersStay
  <2>3. HandlerInv(c)'
    BY <1>1, <1>4, <2>1, NoHandlerYet
  <2>4. EchoInv'
    BY <1>1, <1>2, <1>4, <2>1, <2>2, <2>3, PlacesMove DEF Before
  <2>5. Destroy(Near[c]) => Step(Near[c])
    BY DEF Step
  <2> QED BY <1>4, <2>4, <2>5
<1> QED BY <1>3, <1>4 DEF AcceptThrows

\* A client connects.
LEMMA ConnectHolds ==
  ASSUME EchoInv, NEW c \in Clients, Connect(c)
  PROVE  EchoInv' /\ UNCHANGED vars
<1>1. /\ pc[c] = "absent" /\ pc[Server] # "over" /\ pc' = [pc EXCEPT ![c] = "queued"]
      /\ UNCHANGED <<vars, typed, acceptedThreads, joining, said, handled, killed>>
  BY DEF Connect, Goto, programVars
<1>2. /\ pc \in [Clients \cup {Server} -> HandlerPlaces \cup ServerPlaces] /\ Server \notin Clients
      /\ "queued" \in HandlerPlaces /\ \A d \in Clients : pc[d] \in HandlerPlaces
      /\ pc[Server] \in ServerPlaces
  BY EchoAssumption DEF EchoInv, EchoTypeOK, HandlerPlaces
<1>3. /\ pc' \in [Clients \cup {Server} -> HandlerPlaces \cup ServerPlaces]
      /\ pc'[Server] = pc[Server] /\ pc'[c] = "queued"
      /\ \A d \in Clients \ {c} : pc'[d] = pc[d]
  BY <1>1, <1>2
<1>4. /\ IInv' /\ \A d \in Clients : TypedEnough(d)'
      /\ \A d \in Clients \ {c} : HandlerInv(d)'
  BY <1>1, <1>3, OthersStay
<1>5. HandlerInv(c)'
  BY <1>1, <1>3, NoHandlerYet
<1>6. EchoInv'
  BY <1>1, <1>2, <1>3, <1>4, <1>5, PlacesMove DEF Before
<1> QED BY <1>1, <1>6

\* The destructor joins a thread, or has joined all.
LEMMA JoinHolds ==
  ASSUME EchoInv, JoinNext \/ ServerEnds
  PROVE  EchoInv' /\ UNCHANGED vars
<1>1. UNCHANGED <<vars, acceptedThreads, typed, said, handled, killed>>
  BY DEF JoinNext, ServerEnds
<1>2. /\ pc \in [Clients \cup {Server} -> HandlerPlaces \cup ServerPlaces] /\ Server \notin Clients
      /\ joining \in 1..(Len(acceptedThreads) + 1) /\ Len(acceptedThreads) \in Nat
      /\ \A d \in Clients : pc[d] \in HandlerPlaces
  BY EchoAssumption, LenProperties DEF EchoInv, EchoTypeOK
<1>3. CASE JoinNext
  <2>1. /\ pc[Server] = "joining" /\ joining <= Len(acceptedThreads)
        /\ pc[acceptedThreads[joining]] = "over" /\ joining' = joining + 1 /\ pc' = pc
    BY <1>3 DEF JoinNext
  <2>2. IInv' /\ \A d \in Clients : HandlerInv(d)' /\ TypedEnough(d)'
    BY <1>1, <2>1, StutterHolds, HandlerSame, ClientSame DEF EchoInv, vars
  <2>3. joining' \in 1..(Len(acceptedThreads) + 1)
    BY <1>2, <2>1
  <2>4. EchoTypeOK'
    BY <1>1, <2>1, <2>2, <2>3 DEF EchoInv, EchoTypeOK, IInv
  <2>5. ThreadsKept'
    <3>1. \A i \in 1..(joining' - 1) : i \in 1..(joining - 1) \/ i = joining
      BY <1>2, <2>1
    <3> QED BY <1>1, <2>1, <3>1 DEF EchoInv, ThreadsKept
  <2> QED BY <1>1, <2>2, <2>4, <2>5 DEF EchoInv
<1>4. CASE ServerEnds
  <2>1. /\ joining > Len(acceptedThreads) /\ pc' = [pc EXCEPT ![Server] = "over"]
        /\ joining' = joining
    BY <1>4 DEF ServerEnds, Goto
  <2>2. "over" \in ServerPlaces
    BY DEF ServerPlaces
  <2>3. /\ pc' \in [Clients \cup {Server} -> HandlerPlaces \cup ServerPlaces]
        /\ pc'[Server] = "over" /\ \A d \in Clients : pc'[d] = pc[d]
    BY <1>2, <2>1, <2>2
  <2>4. IInv' /\ \A d \in Clients : HandlerInv(d)' /\ TypedEnough(d)'
    BY <1>1, <2>3, StutterHolds, HandlerSame, ClientSame DEF EchoInv, vars
  <2> QED BY <1>1, <1>2, <2>1, <2>2, <2>3, <2>4, PlacesMove
<1> QED BY <1>3, <1>4
-----------------------------------------------------------------------------
(***************************************************************************)
(* The invariant, and the Stream behind it.                                *)
(***************************************************************************)
LEMMA EchoInitHolds == EchoInit => EchoInv
<1> SUFFICES ASSUME EchoInit PROVE EchoInv
  OBVIOUS
<1>1. IInv
  BY InitHolds DEF EchoInit
<1>2. Len(<<>>) = 0 /\ Server \notin Clients
  BY EmptySeq, EchoAssumption
<1>3. \A c \in Clients : pc[c] = "absent"
  BY <1>2 DEF EchoInit
<1>4. EchoTypeOK
  <2>1. pc[Server] = "accepting"
    BY DEF EchoInit
  <2>2. pc \in [Clients \cup {Server} -> HandlerPlaces \cup ServerPlaces]
    BY DEF EchoInit, HandlerPlaces, ServerPlaces
  <2>3. joining \in 1..(Len(acceptedThreads) + 1) /\ acceptedThreads \in Seq(Clients)
    BY <1>2 DEF EchoInit
  <2>4. typed \in [Clients -> Seq(Inputs)] /\ said \in [Clients -> Seq(Int)]
    BY DEF EchoInit
  <2>5. handled \in [Clients -> Nat] /\ killed \in BOOLEAN
    BY DEF EchoInit
  <2> QED BY <1>1, <1>3, <2>1, <2>2, <2>3, <2>4, <2>5
          DEF EchoTypeOK, IInv, HandlerPlaces, ServerPlaces
<1>5. ThreadsKept
  BY <1>2, <1>3 DEF EchoInit, ThreadsKept, Before
<1>6. ASSUME NEW c \in Clients PROVE HandlerInv(c) /\ TypedEnough(c)
  <2>1. Near[c] \in Ends /\ Far[c] \in Ends
    BY EndsApart
  <2>2. /\ \A e \in Ends : call[e].op = "idle" /\ sent[e] = 0 /\ got[e] = <<>>
        /\ said[c] = <<>> /\ typed[c] = <<>> /\ handled[c] = 0
    BY DEF EchoInit, Init, Idle
  <2>3. CallAt(c) /\ Buffered(c)
    BY <1>2, <1>3, <2>1, <2>2 DEF CallAt, Sending, Buffered
  <2>4. SaidEnough(c) /\ TypedEnough(c)
    BY <1>2, <2>1, <2>2 DEF SaidEnough, TypedEnough, Pending
  <2>5. SaidEcho(c)
    BY <1>2, <2>2 DEF SaidEcho, Echoes, Reaches
  <2> QED BY <2>3, <2>4, <2>5 DEF HandlerInv
<1> QED BY <1>1, <1>4, <1>5, <1>6 DEF EchoInv

\* Every step keeps the invariant, and is one of Stream's or none.
LEMMA EchoStepHolds ==
  ASSUME EchoInv, [EchoNext]_allVars
  PROVE  EchoInv' /\ [Next]_vars
<1>1. \A c \in Clients : Near[c] \in Ends /\ Far[c] \in Ends
  BY EndsApart
<1>2. CASE ServerStep
  <2>1. CASE AcceptCurrent
    BY <2>1, AcceptHolds DEF AcceptCurrent
  <2>2. CASE JoinNext \/ ServerEnds
    BY <2>2, JoinHolds
  <2>3. CASE AcceptThrows
    BY <1>1, <2>3, AcceptThrowsHolds DEF Next
  <2> QED BY <1>2, <2>1, <2>2, <2>3 DEF ServerStep, ServerGoesOn
<1>3. ASSUME NEW c \in Clients, HandlerStep(c) PROVE EchoInv' /\ [Next]_vars
  BY <1>1, <1>3, HandlerHolds DEF Next
<1>4. ASSUME NEW c \in Clients, HandlerKilled(c) PROVE EchoInv' /\ [Next]_vars
  BY <1>4, NothingMoves DEF HandlerKilled
<1>5. ASSUME NEW c \in Clients, ClientStep(c) PROVE EchoInv' /\ [Next]_vars
  <2>1. CASE Connect(c)
    BY <2>1, ConnectHolds
  <2>2. CASE \/ Listen(c) \/ ClientGoesOn(c) \/ HangUp(c)
             \/ \E input \in Inputs : Type(c, input)
    BY <1>1, <2>2, ClientHolds DEF Next
  <2> QED BY <1>5, <2>1, <2>2 DEF ClientStep
<1>6. CASE UNCHANGED allVars
  <2>1. /\ UNCHANGED <<vars, acceptedThreads, joining, pc, typed, said, handled>>
        /\ killed' = killed /\ killed \in BOOLEAN
    BY <1>6 DEF allVars, echoVars, EchoInv, EchoTypeOK
  <2> QED BY <2>1, NothingMoves
<1> QED BY <1>2, <1>3, <1>4, <1>5, <1>6 DEF EchoNext

\* The invariant of the server, its handlers and their connections.
THEOREM EchoInvariance == EchoSpec => []EchoInv
<1> QED BY EchoInitHolds, EchoStepHolds, PTL DEF EchoSpec
-----------------------------------------------------------------------------
(***************************************************************************)
(* The handlers and their clients use their connections as Stream has it:  *)
(* whatever Stream promises of its calls, they have.                       *)
(***************************************************************************)
THEOREM Streams == EchoSpec => Spec
<1>1. EchoInit => Init
  BY DEF EchoInit
<1>2. EchoInv /\ [EchoNext]_allVars => [Next]_vars
  BY EchoStepHolds
<1> QED BY <1>1, <1>2, EchoInvariance, PTL DEF EchoSpec, Spec

(***************************************************************************)
(* Types.                                                                  *)
(***************************************************************************)
THEOREM EchoTypes == EchoSpec => []EchoTypeOK
<1>1. EchoInv => EchoTypeOK
  BY DEF EchoInv
<1> QED BY <1>1, EchoInvariance, PTL

(***************************************************************************)
(* main() does not return, and destroy the vector of threads, before every *)
(* handler's thread has ended.                                             *)
(***************************************************************************)
THEOREM NoThread == EchoSpec => []NoThreadLeft
<1>1. EchoInv => NoThreadLeft
  <2> SUFFICES ASSUME EchoInv, pc[Server] = "over", NEW c \in Clients,
                      pc[c] \notin {"absent", "queued", "lost", "over"}
               PROVE  FALSE
    BY DEF NoThreadLeft, Working
  <2>1. PICK i \in 1..Len(acceptedThreads) : acceptedThreads[i] = c
    BY DEF EchoInv, ThreadsKept, Before
  <2>2. joining > Len(acceptedThreads)
    BY DEF EchoInv, ThreadsKept
  <2>3. i \in 1..(joining - 1)
    BY <2>1, <2>2, LenProperties DEF EchoInv, EchoTypeOK
  <2> QED BY <2>1, <2>3 DEF EchoInv, ThreadsKept
<1> QED BY <1>1, EchoInvariance, PTL

(***************************************************************************)
(* What a client reads of its own is what it typed, in order and complete  *)
(* up to where it has read.                                                *)
(***************************************************************************)
THEOREM EchoOrder == EchoSpec => []EchoedInOrder
<1>1. EchoInv => EchoedInOrder
  <2> SUFFICES ASSUME EchoInv, NEW c \in Clients
               PROVE  LET h == Heard(c) IN
                        \A i \in DOMAIN h : h[i] > 0 =>
                          /\ h[i] <= Len(typed[c])
                          /\ \A j \in 1..(i - 1) : h[j] < h[i]
                          /\ h[i] > 1 => \E j \in 1..(i - 1) : h[j] = h[i] - 1
    BY DEF EchoedInOrder
  <2> DEFINE n == Len(got[Far[c]])
             s == said[c]
  <2>1. /\ Near[c] \in Ends /\ Far[c] \in Ends
        /\ Peer[Near[c]] = Far[c] /\ Peer[Far[c]] = Near[c]
    BY EndsApart
  <2>2. /\ HandlerInv(c) /\ TypedEnough(c)
        /\ s \in Seq(Int) /\ Len(s) \in Nat /\ handled[c] \in Nat /\ Len(typed[c]) \in Nat
        /\ \A e \in {Near[c], Far[c]} :
             sent[e] \in Nat /\ Len(got[e]) \in Nat /\ Pending(e) \in Nat
    BY HandlerTypes
  <2>3. /\ \A i \in 1..n : got[Far[c]][i] = i
        /\ Len(got[Far[c]]) + Len(queue[Far[c]]) <= sent[Near[c]]
        /\ Len(got[Near[c]]) + Len(queue[Near[c]]) <= sent[Far[c]]
    BY <2>1 DEF EchoInv, IInv, EndInv, BytesFollow, NothingLost
  <2>4. Len(queue[Far[c]]) \in Nat /\ Len(queue[Near[c]]) \in Nat
    BY <2>1, LenProperties DEF EchoInv, EchoTypeOK, TypeOK
  <2>5. \A a, b, d, e, l \in Nat : a + b <= d /\ d + e <= l => a <= l
    OBVIOUS
  <2>6. n <= Len(s) /\ Len(got[Near[c]]) <= Len(typed[c])
    BY <2>2, <2>3, <2>4, <2>5 DEF HandlerInv, SaidEnough, TypedEnough
  <2>7. handled[c] <= Len(typed[c])
    <3>1. handled[c] <= Len(got[Near[c]])
      BY <2>2, EchoAssumption DEF HandlerInv, Buffered
    <3> QED BY <2>2, <2>6, <3>1
  <2>8. Echoes(s, handled[c]) /\ n \in Nat
    BY <2>2 DEF HandlerInv, SaidEcho
  <2>9. Heard(c) = [i \in 1..n |-> s[i]]
    BY <2>3 DEF Heard
  <2> HIDE DEF n, s
  <2>10. \A i \in 1..n : i \in 1..Len(s) /\ \A j \in 1..(i - 1) : j \in 1..n
    BY <2>2, <2>6, <2>8
  <2>11. ASSUME NEW i \in 1..n, s[i] > 0
         PROVE  /\ s[i] <= Len(typed[c])
                /\ \A j \in 1..(i - 1) : s[j] < s[i]
                /\ s[i] > 1 => \E j \in 1..(i - 1) : s[j] = s[i] - 1
    <3>1. /\ s[i] <= handled[c]
          /\ \A j \in 1..(i - 1) : s[j] < s[i]
          /\ s[i] > 1 => \E j \in 1..(i - 1) : s[j] = s[i] - 1
      BY <2>8, <2>10, <2>11 DEF Echoes
    <3>2. s[i] \in Int
      BY <2>2, <2>10, LenProperties
    <3> QED BY <2>2, <2>7, <3>1, <3>2
  <2> QED BY <2>9, <2>10, <2>11
<1> QED BY <1>1, EchoInvariance, PTL
=============================================================================
