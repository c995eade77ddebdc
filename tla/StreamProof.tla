----------------------------- MODULE StreamProof -----------------------------
(***************************************************************************)
(* Proofs about Stream: types, the order of the bytes, the counts, and     *)
(* what select() and poll() say.                                           *)
(***************************************************************************)
EXTENDS Stream, SequenceTheorems, TLAPS

\* The bytes that a step of send() appends.
LEMMA NumberedProperties ==
  ASSUME NEW a \in Nat, NEW n \in Nat
  PROVE  /\ Numbered(a, n) \in Seq(Nat)
         /\ Len(Numbered(a, n)) = n
         /\ \A i \in 1..n : Numbered(a, n)[i] = a + i
<1>1. Numbered(a, n) \in [1..n -> Nat]
  BY DEF Numbered
<1>2. Numbered(a, n) \in Seq(Nat)
  BY <1>1
<1>3. DOMAIN Numbered(a, n) = 1..n
  BY DEF Numbered
<1>4. Len(Numbered(a, n)) = n
  BY <1>2, <1>3, LenProperties
<1> QED BY <1>2, <1>4 DEF Numbered

\* What a receive() of k bytes takes, and leaves.
LEMMA SplitProperties ==
  ASSUME NEW s \in Seq(Nat), NEW k \in 0..Len(s)
  PROVE  /\ SubSeq(s, 1, k) \in Seq(Nat) /\ Len(SubSeq(s, 1, k)) = k
         /\ \A i \in 1..k : SubSeq(s, 1, k)[i] = s[i]
         /\ SubSeq(s, k + 1, Len(s)) \in Seq(Nat)
         /\ Len(SubSeq(s, k + 1, Len(s))) = Len(s) - k
         /\ \A i \in 1..(Len(s) - k) : SubSeq(s, k + 1, Len(s))[i] = s[k + i]
<1>1. Len(s) \in Nat /\ \A i \in 1..Len(s) : s[i] \in Nat
  BY LenProperties
<1>2. \A i \in 1..k : s[i] \in Nat
  BY <1>1
<1>3. \A i \in (k + 1)..Len(s) : s[i] \in Nat
  BY <1>1
<1>4. /\ SubSeq(s, 1, k) \in Seq(Nat)
      /\ Len(SubSeq(s, 1, k)) = IF 1 <= k THEN k - 1 + 1 ELSE 0
      /\ \A i \in 1..(k - 1 + 1) : SubSeq(s, 1, k)[i] = s[1 + i - 1]
  BY <1>1, <1>2, SubSeqProperties
<1>5. /\ SubSeq(s, k + 1, Len(s)) \in Seq(Nat)
      /\ Len(SubSeq(s, k + 1, Len(s))) =
           IF k + 1 <= Len(s) THEN Len(s) - (k + 1) + 1 ELSE 0
      /\ \A i \in 1..(Len(s) - (k + 1) + 1) :
           SubSeq(s, k + 1, Len(s))[i] = s[k + 1 + i - 1]
  BY <1>1, <1>3, SubSeqProperties
<1>6. \A i \in 1..k : i \in 1..(k - 1 + 1) /\ 1 + i - 1 = i
  OBVIOUS
<1>7. \A i \in 1..(Len(s) - k) : i \in 1..(Len(s) - (k + 1) + 1) /\ k + 1 + i - 1 = k + i
  BY <1>1
<1>8. Len(SubSeq(s, 1, k)) = k /\ Len(SubSeq(s, k + 1, Len(s))) = Len(s) - k
  BY <1>1, <1>4, <1>5
<1>9. \A i \in 1..k : SubSeq(s, 1, k)[i] = s[i]
  BY <1>4, <1>6
<1>10. \A i \in 1..(Len(s) - k) : SubSeq(s, k + 1, Len(s))[i] = s[k + i]
  BY <1>5, <1>7
<1> QED BY <1>4, <1>5, <1>8, <1>9, <1>10

(***************************************************************************)
(* A time is turned into a limit that stands for the same time.            *)
(***************************************************************************)
LEMMA LimitAsAsked ==
  ASSUME NEW t \in Int, SelectLimit(t) # Refused
  PROVE  /\ SelectLimit(t) \in Int
         /\ IF t = 0 THEN SelectLimit(t) = Forever ELSE SelectLimit(t) = t
<1>1. CASE t = 0
  BY <1>1 DEF SelectLimit, Forever
<1>2. CASE t > 0
  <2>1. /\ CQuot(t) = t \div 1000 /\ CRem(t) = t - 1000 * (t \div 1000)
        /\ CQuot(t) \in Nat
    BY <1>2 DEF CQuot, CRem
  <2>2. CRem(t) \in 0..999
    BY <1>2, <2>1
  <2>3. (1000 * CRem(t)) \div 1000 = CRem(t)
    BY <2>2
  <2>4. KernelLimit(Timeval(t)) = 1000 * CQuot(t) + CRem(t)
    BY <2>1, <2>2, <2>3 DEF KernelLimit, Timeval
  <2> QED BY <1>2, <2>1, <2>4 DEF SelectLimit
<1>3. CASE t < 0
  <2>1. CQuot(t) = -((-t) \div 1000) /\ CRem(t) = t - 1000 * CQuot(t)
    BY <1>3 DEF CQuot, CRem
  <2>2. (-t) \div 1000 \in Nat
    BY <1>3
  <2>3. CASE (-t) \div 1000 > 0
    BY <1>3, <2>1, <2>2, <2>3 DEF SelectLimit, KernelLimit, Timeval
  <2>4. CASE (-t) \div 1000 = 0
    <3>1. CQuot(t) = 0 /\ CRem(t) = t
      BY <1>3, <2>1, <2>4
    <3> QED BY <1>3, <3>1 DEF SelectLimit, KernelLimit, Timeval
  <2> QED BY <2>2, <2>3, <2>4
<1> QED BY <1>1, <1>2, <1>3

(***************************************************************************)
(* Types.                                                                  *)
(***************************************************************************)
LEMMA IdleTyped == Idle \in CallRecord
  BY DEF Idle, CallRecord, Ops

\* Initially there is nothing but idle threads.
LEMMA InitTyped == Init => TypeOK
<1>1. Idle \in CallRecord
  BY IdleTyped
<1>2. <<>> \in Seq(Nat) /\ Len(<<>>) = 0
  BY EmptySeq
<1> QED BY <1>1, <1>2, StreamAssumption DEF Init, TypeOK, LinkStates

\* The calls that touch no byte: only the caller's side and the call change.
LEMMA QuietTyped ==
  ASSUME TypeOK, NEW e \in Ends,
         call' \in [Ends -> CallRecord],
         UNCHANGED <<queue, sent, closed, got>>,
         link' = link \/ Reported(e),
         told' = told \/ \E want \in SUBSET Events : told' = [told EXCEPT ![e] = want],
         acked' = acked \/ \E n \in Nat : acked' = [acked EXCEPT ![e] = n],
         eof' = eof \/ eof' = [eof EXCEPT ![e] = TRUE],
         threw' = threw \/ threw' = [threw EXCEPT ![e] = TRUE]
  PROVE  TypeOK'
<1>1. link' \in [Ends -> LinkStates]
  BY DEF TypeOK, Reported, LinkStates
<1>2. told' \in [Ends -> SUBSET Events]
  <2>1. told \in [Ends -> SUBSET Events]
    BY DEF TypeOK
  <2>2. ASSUME NEW want \in SUBSET Events
        PROVE  [told EXCEPT ![e] = want] \in [Ends -> SUBSET Events]
    BY <2>1
  <2> QED BY <2>1, <2>2
<1>3. acked' \in [Ends -> Nat]
  <2>1. acked \in [Ends -> Nat]
    BY DEF TypeOK
  <2>2. ASSUME NEW n \in Nat PROVE [acked EXCEPT ![e] = n] \in [Ends -> Nat]
    BY <2>1
  <2> QED BY <2>1, <2>2
<1>4. eof' \in [Ends -> BOOLEAN] /\ threw' \in [Ends -> BOOLEAN]
  BY DEF TypeOK
<1> QED BY <1>1, <1>2, <1>3, <1>4 DEF TypeOK

\* A thread's call is a record of the right type when it starts and ends.
LEMMA CallTyped ==
  ASSUME TypeOK, NEW e \in Ends
  PROVE  /\ \A c \in CallRecord : Starts(e, c) => call' \in [Ends -> CallRecord]
         /\ Returns(e) => call' \in [Ends -> CallRecord]
  BY IdleTyped DEF TypeOK, Starts, Returns

\* Every step that touches no byte keeps the types.
LEMMA QuietStepTyped ==
  ASSUME TypeOK, NEW e \in Ends,
         \/ \E t \in Times, want \in WantSets : StartSelect(e, t, want) \/ StartPoll(e, t, want)
         \/ \E n \in Lengths, dontwait \in BOOLEAN : StartSend(e, n, dontwait)
         \/ \E n \in Lengths, peek, dontwait \in BOOLEAN : StartReceive(e, n, peek, dontwait)
         \/ WaitEnds(e) \/ TimesOut(e) \/ WaitThrows(e) \/ \E t \in Times : SelectRefused(e, t)
         \/ SendReturns(e) \/ SendThrows(e) \/ ReceiveEnd(e) \/ ReceiveThrows(e)
  PROVE  TypeOK'
<1>1. told[e] \in SUBSET Events /\ acked[e] \in Nat /\ call[e].done \in Nat
  BY DEF TypeOK, CallRecord
<1>2. ASSUME NEW t \in Times, NEW want \in WantSets, StartSelect(e, t, want) PROVE TypeOK'
  <2>1. SelectLimit(t) \in Int
    BY <1>2, StreamAssumption, LimitAsAsked DEF StartSelect
  <2>2. [Idle EXCEPT !.op = "select", !.want = want, !.time = t, !.limit = SelectLimit(t)]
          \in CallRecord
    BY <2>1, IdleTyped, StreamAssumption DEF CallRecord, Ops, Waits
  <2> QED BY <1>2, <2>2, CallTyped, QuietTyped DEF StartSelect
<1>3. ASSUME NEW t \in Times, NEW want \in WantSets, StartPoll(e, t, want) PROVE TypeOK'
  <2>1. PollLimit(t) \in Int
    BY StreamAssumption DEF PollLimit, Forever
  <2>2. [Idle EXCEPT !.op = "poll", !.want = want, !.time = t, !.limit = PollLimit(t)]
          \in CallRecord
    BY <2>1, IdleTyped, StreamAssumption DEF CallRecord, Ops, Waits
  <2> QED BY <1>3, <2>2, CallTyped, QuietTyped DEF StartPoll
<1>4. ASSUME NEW n \in Lengths, NEW dontwait \in BOOLEAN, StartSend(e, n, dontwait)
      PROVE  TypeOK'
  <2>1. n \in Nat
    BY StreamAssumption
  <2>2. [Idle EXCEPT !.op = "send", !.left = n, !.dontwait = dontwait] \in CallRecord
    BY <2>1, IdleTyped DEF CallRecord, Ops, Waits
  <2> QED BY <1>1, <1>4, <2>2, CallTyped, QuietTyped DEF StartSend
<1>5. ASSUME NEW n \in Lengths, NEW peek \in BOOLEAN, NEW dontwait \in BOOLEAN,
             StartReceive(e, n, peek, dontwait)
      PROVE  TypeOK'
  <2>1. n \in Nat
    BY StreamAssumption
  <2>2. [Idle EXCEPT !.op = "receive", !.left = n, !.peek = peek, !.dontwait = dontwait]
          \in CallRecord
    BY <2>1, IdleTyped DEF CallRecord, Ops, Waits
  <2> QED BY <1>1, <1>5, <2>2, CallTyped, QuietTyped DEF StartReceive
<1>6. ASSUME WaitEnds(e) PROVE TypeOK'
  <2>1. Found(e) \subseteq Events /\ SelectResult(Found(e)) \subseteq Events
    BY DEF Found, Ready, SelectResult, Events
  <2> QED BY <1>6, <2>1, CallTyped, QuietTyped DEF WaitEnds
<1>7. ASSUME TimesOut(e) \/ WaitThrows(e) \/ SendThrows(e) \/ ReceiveThrows(e) PROVE TypeOK'
  BY <1>7, CallTyped, QuietTyped
     DEF TimesOut, WaitThrows, SendThrows, ReceiveThrows, Throws, callerVars
<1>8. ASSUME SendReturns(e) PROVE TypeOK'
  <2>1. acked[e] + call[e].done \in Nat
    BY <1>1
  <2> QED BY <1>8, <2>1, CallTyped, QuietTyped DEF SendReturns
<1>9. ASSUME ReceiveEnd(e) PROVE TypeOK'
  BY <1>9, CallTyped, QuietTyped DEF ReceiveEnd
<1>10. ASSUME NEW t \in Times, SelectRefused(e, t) PROVE TypeOK'
  BY <1>10, CallTyped, QuietTyped DEF SelectRefused, Throws
<1> QED BY <1>2, <1>3, <1>4, <1>5, <1>6, <1>7, <1>8, <1>9, <1>10

\* The kernel takes bytes of a send().
LEMMA SendCopiesTyped ==
  ASSUME TypeOK, NEW e \in Ends, SendCopies(e)
  PROVE  TypeOK'
<1>1. Peer[e] \in Ends
  BY StreamAssumption
<1>2. PICK k \in 1..call[e].left :
        /\ \/ /\ Len(queue[Peer[e]]) + k <= Room
              /\ queue' = [queue EXCEPT ![Peer[e]] = @ \o Numbered(sent[e], k)]
              /\ UNCHANGED link
           \/ /\ \E st \in {"whole", "reset"} : link' = [link EXCEPT ![e] = st]
              /\ UNCHANGED queue
        /\ sent' = [sent EXCEPT ![e] = @ + k]
        /\ call' = [call EXCEPT ![e].left = @ - k, ![e].done = @ + k]
  BY DEF SendCopies
<1>3. /\ call[e] \in CallRecord /\ call[e].left \in Nat /\ call[e].done \in Nat
      /\ sent[e] \in Nat /\ queue[Peer[e]] \in Seq(Nat)
  BY <1>1 DEF TypeOK, CallRecord
<1>4. /\ k \in Nat /\ call[e].left - k \in Nat /\ call[e].done + k \in Nat
      /\ sent[e] + k \in Nat
  <2>1. \A n \in Nat : \A i \in 1..n : i \in Nat /\ n - i \in Nat
    OBVIOUS
  <2>2. k \in Nat /\ call[e].left - k \in Nat
    BY <1>3, <2>1
  <2> QED BY <1>3, <2>2
<1>5. [call[e] EXCEPT !.left = @ - k, !.done = @ + k] \in CallRecord
  <2>1. \A m, n \in Nat : [call[e] EXCEPT !.left = m, !.done = n] \in CallRecord
    BY <1>3 DEF CallRecord
  <2> QED BY <1>4, <2>1
<1>6. call' \in [Ends -> CallRecord]
  BY <1>2, <1>5 DEF TypeOK
<1>7. sent' \in [Ends -> Nat] /\ link' \in [Ends -> LinkStates]
  <2>1. sent' \in [Ends -> Nat]
    BY <1>2, <1>4 DEF TypeOK
  <2>2. link' \in [Ends -> LinkStates]
    BY <1>2 DEF TypeOK, LinkStates
  <2> QED BY <2>1, <2>2
<1>8. queue' \in [Ends -> Seq(Nat)] /\ \A f \in Ends : Len(queue'[f]) <= Room
  <2>1. CASE queue' = queue
    BY <2>1 DEF TypeOK
  <2>2. CASE /\ Len(queue[Peer[e]]) + k <= Room
             /\ queue' = [queue EXCEPT ![Peer[e]] = @ \o Numbered(sent[e], k)]
    <3> DEFINE q == queue[Peer[e]]
               n == Numbered(sent[e], k)
    <3>1. n \in Seq(Nat) /\ Len(n) = k /\ q \in Seq(Nat) /\ Len(q) + k <= Room
      BY <1>3, <1>4, <2>2, NumberedProperties
    <3>2. queue' = [queue EXCEPT ![Peer[e]] = q \o n]
      BY <2>2
    <3>3. \A f \in Ends : queue[f] \in Seq(Nat) /\ Len(queue[f]) <= Room
      BY DEF TypeOK
    <3> HIDE DEF q, n
    <3>4. q \o n \in Seq(Nat) /\ Len(q \o n) = Len(q) + Len(n)
      BY <3>1, ConcatProperties
    <3>5. Len(q \o n) <= Room
      BY <3>1, <3>4
    <3> QED BY <1>1, <3>2, <3>3, <3>4, <3>5 DEF TypeOK
  <2> QED BY <1>2, <2>1, <2>2
<1> QED BY <1>6, <1>7, <1>8 DEF TypeOK, SendCopies, callerVars

\* A receive() takes bytes, or peeks.
LEMMA ReceiveTyped ==
  ASSUME TypeOK, NEW e \in Ends, Receive(e)
  PROVE  TypeOK'
<1>1. PICK k \in 1..call[e].left :
        /\ k <= Len(queue[e])
        /\ \/ UNCHANGED <<queue, got>>
           \/ /\ queue' = [queue EXCEPT ![e] = SubSeq(@, k + 1, Len(@))]
              /\ got' = [got EXCEPT ![e] = @ \o SubSeq(queue[e], 1, k)]
  BY DEF Receive
<1>2. call' \in [Ends -> CallRecord]
  BY CallTyped DEF Receive
<1>3. /\ queue[e] \in Seq(Nat) /\ got[e] \in Seq(Nat) /\ Len(queue[e]) \in Nat
      /\ call[e].left \in Nat
  BY LenProperties DEF TypeOK, CallRecord
<1>4. k \in 0..Len(queue[e])
  BY <1>1, <1>3
<1>5. /\ SubSeq(queue[e], 1, k) \in Seq(Nat)
      /\ SubSeq(queue[e], k + 1, Len(queue[e])) \in Seq(Nat)
      /\ Len(SubSeq(queue[e], k + 1, Len(queue[e]))) = Len(queue[e]) - k
  BY <1>3, <1>4, SplitProperties
<1>6. got[e] \o SubSeq(queue[e], 1, k) \in Seq(Nat)
  BY <1>3, <1>5, ConcatProperties
<1>7. /\ queue' \in [Ends -> Seq(Nat)] /\ got' \in [Ends -> Seq(Nat)]
      /\ \A f \in Ends : Len(queue'[f]) <= Room
  <2>1. CASE UNCHANGED <<queue, got>>
    BY <2>1 DEF TypeOK
  <2>2. CASE /\ queue' = [queue EXCEPT ![e] = SubSeq(@, k + 1, Len(@))]
             /\ got' = [got EXCEPT ![e] = @ \o SubSeq(queue[e], 1, k)]
    <3>1. /\ queue'[e] = SubSeq(queue[e], k + 1, Len(queue[e]))
          /\ \A f \in Ends \ {e} : queue'[f] = queue[f]
      BY <2>2 DEF TypeOK
    <3>2. Len(queue'[e]) <= Room
      BY <1>3, <1>4, <1>5, <3>1, StreamAssumption DEF TypeOK
    <3> QED BY <1>5, <1>6, <2>2, <3>1, <3>2 DEF TypeOK
  <2> QED BY <1>1, <2>1, <2>2
<1> QED BY <1>2, <1>7 DEF TypeOK, Receive

(***************************************************************************)
(* What close() does to the two queues, in both of its cases.              *)
(***************************************************************************)
LEMMA CloseEffect ==
  ASSUME TypeOK, NEW e \in Ends, Close(e)
  PROVE  /\ queue' \in [Ends -> Seq(Nat)]
         /\ queue'[e] = <<>>
         /\ \E k \in 0..Len(queue[Peer[e]]) :
              /\ queue'[Peer[e]] = SubSeq(queue[Peer[e]], 1, k)
              /\ queue'[Peer[e]] # queue[Peer[e]] => link'[Peer[e]] # "whole"
         /\ \A f \in Ends \ {e, Peer[e]} : queue'[f] = queue[f]
         /\ link' \in [Ends -> LinkStates]
         /\ \A f \in Ends \ {Peer[e]} : link'[f] = link[f]
         /\ link'[Peer[e]] # link[Peer[e]] => link[Peer[e]] = "whole" /\ link'[Peer[e]] = "reset"
<1>1. Peer[e] \in Ends /\ Peer[e] # e
  BY StreamAssumption
<1>2. /\ queue[Peer[e]] \in Seq(Nat) /\ Len(queue[Peer[e]]) \in Nat
      /\ <<>> \in Seq(Nat)
  BY <1>1, LenProperties, EmptySeq DEF TypeOK
<1>3. CASE queue' = [queue EXCEPT ![e] = <<>>] /\ UNCHANGED link
  <2>1. queue'[Peer[e]] = queue[Peer[e]]
    BY <1>1, <1>3 DEF TypeOK
  <2>2. SubSeq(queue[Peer[e]], 1, Len(queue[Peer[e]])) = queue[Peer[e]]
    <3>1. /\ SubSeq(queue[Peer[e]], 1, Len(queue[Peer[e]])) \in Seq(Nat)
          /\ Len(SubSeq(queue[Peer[e]], 1, Len(queue[Peer[e]]))) = Len(queue[Peer[e]])
          /\ \A i \in 1..Len(queue[Peer[e]]) :
               SubSeq(queue[Peer[e]], 1, Len(queue[Peer[e]]))[i] = queue[Peer[e]][i]
      BY <1>2, SplitProperties
    <3> QED BY <1>2, <3>1, SeqEqual
  <2>3. Len(queue[Peer[e]]) \in 0..Len(queue[Peer[e]])
    BY <1>2
  <2> QED BY <1>1, <1>2, <1>3, <2>1, <2>2, <2>3 DEF TypeOK
<1>4. ASSUME NEW k \in 0..Len(queue[Peer[e]]),
             queue' = [queue EXCEPT ![e] = <<>>, ![Peer[e]] = SubSeq(@, 1, k)],
             link' = [link EXCEPT ![Peer[e]] = IF @ = "whole" THEN "reset" ELSE @]
      PROVE  /\ queue' \in [Ends -> Seq(Nat)]
             /\ queue'[e] = <<>>
             /\ queue'[Peer[e]] = SubSeq(queue[Peer[e]], 1, k)
             /\ link'[Peer[e]] # "whole"
             /\ \A f \in Ends \ {e, Peer[e]} : queue'[f] = queue[f]
             /\ link' \in [Ends -> LinkStates]
             /\ \A f \in Ends \ {Peer[e]} : link'[f] = link[f]
             /\ link'[Peer[e]] # link[Peer[e]] => link[Peer[e]] = "whole" /\ link'[Peer[e]] = "reset"
  <2>1. SubSeq(queue[Peer[e]], 1, k) \in Seq(Nat)
    BY <1>2, SplitProperties
  <2>2. /\ queue' \in [Ends -> Seq(Nat)]
        /\ queue'[e] = <<>>
        /\ queue'[Peer[e]] = SubSeq(queue[Peer[e]], 1, k)
        /\ \A f \in Ends \ {e, Peer[e]} : queue'[f] = queue[f]
    BY <1>1, <1>2, <1>4, <2>1 DEF TypeOK
  <2>3. /\ link' \in [Ends -> LinkStates] /\ link'[Peer[e]] # "whole"
        /\ \A f \in Ends \ {Peer[e]} : link'[f] = link[f]
        /\ link'[Peer[e]] # link[Peer[e]] => link[Peer[e]] = "whole" /\ link'[Peer[e]] = "reset"
    BY <1>1, <1>4 DEF TypeOK, LinkStates
  <2> QED BY <2>2, <2>3
<1> QED BY <1>3, <1>4 DEF Close

\* close() keeps the types.
LEMMA CloseTyped ==
  ASSUME TypeOK, NEW e \in Ends, Close(e)
  PROVE  TypeOK'
<1>1. Peer[e] \in Ends /\ Peer[e] # e /\ Room \in Nat
  BY StreamAssumption
<1>2. PICK k \in 0..Len(queue[Peer[e]]) : queue'[Peer[e]] = SubSeq(queue[Peer[e]], 1, k)
  BY CloseEffect
<1>3. queue[Peer[e]] \in Seq(Nat) /\ Len(queue[Peer[e]]) \in Nat
  BY <1>1, LenProperties DEF TypeOK
<1>4. Len(queue'[Peer[e]]) = k
  BY <1>2, <1>3, SplitProperties
<1>5. Len(queue'[Peer[e]]) <= Room
  BY <1>1, <1>3, <1>4 DEF TypeOK
<1>6. \A f \in Ends : Len(queue'[f]) <= Room
  <2>1. Len(queue'[e]) = 0
    BY CloseEffect, EmptySeq
  <2>2. \A f \in Ends \ {e, Peer[e]} : Len(queue'[f]) <= Room
    BY CloseEffect DEF TypeOK
  <2> QED BY <1>1, <1>5, <2>1, <2>2
<1>7. [Idle EXCEPT !.op = "gone"] \in CallRecord
  BY IdleTyped DEF CallRecord, Ops
<1>8. call' \in [Ends -> CallRecord] /\ told' \in [Ends -> SUBSET Events]
  BY <1>7 DEF Close, TypeOK
<1> QED BY <1>6, <1>8, CloseEffect DEF Close, TypeOK
-----------------------------------------------------------------------------
(***************************************************************************)
(* The inductive invariant, of one end.                                    *)
(***************************************************************************)
GoneIsClosed(e) == e \in closed <=> call[e].op = "gone"

CountsAdd(e) ==
  /\ call[e].op # "send" => call[e].done = 0
  /\ e \notin closed => acked[e] + call[e].done = sent[e]

\* The bytes in the queue go on where those received stop.
BytesFollow(e) ==
  /\ \A i \in 1..Len(got[e]) : got[e][i] = i
  /\ \A i \in 1..Len(queue[e]) : queue[e][i] = Len(got[e]) + i

\* Only its other end's close() breaks a connection, and only so is anything lost.
NothingLost(e) ==
  /\ link[e] # "whole" => Peer[e] \in closed
  /\ Len(got[e]) + Len(queue[e]) <= sent[Peer[e]]
  /\ e \notin closed /\ link[e] = "whole" => sent[Peer[e]] = Len(got[e]) + Len(queue[e])

AllRead(e) ==
  /\ link[e] = "dead" => threw[e]
  /\ eof[e] /\ ~threw[e] =>
       Peer[e] \in closed /\ queue[e] = <<>> /\ Len(got[e]) = sent[Peer[e]]

StaysReady(e) ==
  /\ told[e] \ {"error"} \subseteq Ready(e)
  /\ call[e].op = "receive" => "read" \notin told[e]
  /\ call[e].op = "send" => "write" \notin told[e]

AsAsked(e) ==
  /\ call[e].op = "select" =>
       IF call[e].time = 0 THEN call[e].limit = Forever ELSE call[e].limit = call[e].time
  /\ call[e].op = "poll" =>
       IF call[e].time < 0 THEN call[e].limit = Forever ELSE call[e].limit = call[e].time

EndInv(e) ==
  /\ GoneIsClosed(e) /\ CountsAdd(e) /\ BytesFollow(e) /\ NothingLost(e)
  /\ AllRead(e) /\ StaysReady(e) /\ AsAsked(e)

IInv == TypeOK /\ \A e \in Ends : EndInv(e)

\* Initially.
LEMMA InitHolds == Init => IInv
<1> SUFFICES ASSUME Init PROVE IInv
  OBVIOUS
<1>1. TypeOK
  BY InitTyped
<1>2. Len(<<>>) = 0
  BY EmptySeq
<1>3. ASSUME NEW e \in Ends PROVE EndInv(e)
  <2>1. Peer[e] \in Ends
    BY StreamAssumption
  <2>2. /\ queue[e] = <<>> /\ got[e] = <<>> /\ sent[e] = 0 /\ sent[Peer[e]] = 0
        /\ link[e] = "whole" /\ e \notin closed /\ acked[e] = 0 /\ ~eof[e]
        /\ told[e] = {}
    BY <2>1 DEF Init
  <2>3. call[e].op = "idle" /\ call[e].done = 0
    BY DEF Init, Idle
  <2> QED BY <1>2, <2>2, <2>3
          DEF EndInv, GoneIsClosed, CountsAdd, BytesFollow, NothingLost, AllRead, StaysReady, AsAsked
<1> QED BY <1>1, <1>3 DEF IInv

(***************************************************************************)
(* A step that touches no byte.                                            *)
(***************************************************************************)
LEMMA QuietKeeps ==
  ASSUME IInv, NEW e \in Ends, call[e].op # "gone",
         UNCHANGED <<queue, sent, closed, got>>,
         call'[e].op # "gone", call'[e].done = 0,
         \A f \in Ends \ {e} : /\ call'[f] = call[f] /\ told'[f] = told[f]
                               /\ acked'[f] = acked[f] /\ eof'[f] = eof[f]
                               /\ threw'[f] = threw[f] /\ link'[f] = link[f],
         acked'[e] = acked[e] + call[e].done,
         link'[e] # link[e] => link[e] = "reset" /\ link'[e] = "dead" /\ threw'[e],
         threw[e] => threw'[e],
         eof'[e] /\ ~threw'[e] =>
           \/ eof[e]
           \/ Peer[e] \in closed /\ queue[e] = <<>> /\ Len(got[e]) = sent[Peer[e]],
         told'[e] \ {"error"} \subseteq Ready(e),
         call'[e].op = "receive" => "read" \notin told'[e],
         call'[e].op = "send" => "write" \notin told'[e],
         AsAsked(e)'
  PROVE  \A f \in Ends : EndInv(f)'
<1> USE DEF IInv
<1>1. Peer[e] \in Ends
  BY StreamAssumption
<1>2. EndInv(e) /\ e \notin closed
  BY DEF EndInv, GoneIsClosed
<1>3. GoneIsClosed(e)' /\ CountsAdd(e)'
  <2>1. acked[e] \in Nat /\ call[e].done \in Nat
    BY DEF TypeOK, CallRecord
  <2> QED BY <1>2, <2>1 DEF EndInv, GoneIsClosed, CountsAdd
<1>4. BytesFollow(e)'
  BY <1>2 DEF EndInv, BytesFollow
<1>5. NothingLost(e)'
  BY <1>2 DEF EndInv, NothingLost
<1>6. AllRead(e)'
  BY <1>2 DEF EndInv, AllRead
<1>7. Ready(e)' = Ready(e)
  BY <1>1, <1>2 DEF Ready, Readable, Writable, HasRoom, EndInv, NothingLost
<1>8. StaysReady(e)'
  BY <1>7 DEF StaysReady
<1>9. EndInv(e)'
  BY <1>3, <1>4, <1>5, <1>6, <1>8 DEF EndInv
<1>10. ASSUME NEW f \in Ends \ {e} PROVE EndInv(f)'
  <2>1. EndInv(f)
    OBVIOUS
  <2>2. Ready(f)' = Ready(f)
    BY <1>10 DEF Ready, Readable, Writable, HasRoom
  <2>3. StaysReady(f)' /\ AsAsked(f)'
    BY <1>10, <2>1, <2>2 DEF EndInv, StaysReady, AsAsked
  <2>4. GoneIsClosed(f)' /\ CountsAdd(f)' /\ BytesFollow(f)'
    BY <1>10, <2>1 DEF EndInv, GoneIsClosed, CountsAdd, BytesFollow
  <2>5. NothingLost(f)' /\ AllRead(f)'
    BY <1>10, <2>1 DEF EndInv, NothingLost, AllRead
  <2> QED BY <2>3, <2>4, <2>5 DEF EndInv
<1> QED BY <1>9, <1>10

\* The step is one of those.
LEMMA QuietStepKeeps ==
  ASSUME IInv, NEW e \in Ends,
         \/ \E t \in Times, want \in WantSets : StartSelect(e, t, want) \/ StartPoll(e, t, want)
         \/ \E n \in Lengths, dontwait \in BOOLEAN : StartSend(e, n, dontwait)
         \/ \E n \in Lengths, peek, dontwait \in BOOLEAN : StartReceive(e, n, peek, dontwait)
         \/ WaitEnds(e) \/ TimesOut(e) \/ WaitThrows(e) \/ \E t \in Times : SelectRefused(e, t)
         \/ SendReturns(e) \/ SendThrows(e) \/ ReceiveEnd(e) \/ ReceiveThrows(e)
  PROVE  \A f \in Ends : EndInv(f)'
<1> USE DEF IInv
<1> HIDE DEF EndInv
<1>1. /\ EndInv(e) /\ call[e] \in CallRecord /\ acked[e] \in Nat
      /\ told[e] \subseteq Events /\ told[e] \ {"error"} \subseteq Ready(e)
  BY DEF TypeOK, EndInv, StaysReady
<1>2. /\ Idle.op = "idle" /\ Idle.done = 0
  BY DEF Idle
<1>3. ASSUME NEW c, Starts(e, c), c.op \in {"select", "poll", "send", "receive"}, c.done = 0,
             NEW away, told' = [told EXCEPT ![e] = away], away \subseteq told[e],
             c.op = "receive" => "read" \notin away, c.op = "send" => "write" \notin away,
             c.op = "select" =>
               IF c.time = 0 THEN c.limit = Forever ELSE c.limit = c.time,
             c.op = "poll" =>
               IF c.time < 0 THEN c.limit = Forever ELSE c.limit = c.time,
             UNCHANGED <<queue, sent, link, closed, acked, got, eof, threw>>
      PROVE  \A f \in Ends : EndInv(f)'
  <2>1. /\ call[e].op = "idle" /\ call'[e] = c /\ told'[e] = away
        /\ \A f \in Ends \ {e} : call'[f] = call[f] /\ told'[f] = told[f]
    BY <1>3 DEF Starts, InCall, TypeOK
  <2>2. call[e].done = 0 /\ acked[e] + call[e].done = acked[e]
    BY <1>1, <2>1 DEF EndInv, CountsAdd
  <2>3. AsAsked(e)'
    BY <1>3, <2>1 DEF AsAsked
  <2>4. told'[e] \ {"error"} \subseteq Ready(e)
    BY <1>1, <1>3, <2>1
  <2> QED BY <1>1, <1>3, <2>1, <2>2, <2>3, <2>4, QuietKeeps DEF EndInv, AllRead
<1>4. ASSUME Returns(e), call[e].op # "gone", UNCHANGED <<queue, sent, closed, got>>,
             \A f \in Ends \ {e} : /\ told'[f] = told[f] /\ acked'[f] = acked[f]
                                   /\ eof'[f] = eof[f] /\ threw'[f] = threw[f]
                                   /\ link'[f] = link[f],
             acked'[e] = acked[e] + call[e].done,
             link'[e] # link[e] => link[e] = "reset" /\ link'[e] = "dead" /\ threw'[e],
             threw[e] => threw'[e],
             eof'[e] /\ ~threw'[e] =>
               \/ eof[e]
               \/ Peer[e] \in closed /\ queue[e] = <<>> /\ Len(got[e]) = sent[Peer[e]],
             told'[e] \ {"error"} \subseteq Ready(e)
      PROVE  \A f \in Ends : EndInv(f)'
  <2>1. call'[e] = Idle /\ \A f \in Ends \ {e} : call'[f] = call[f]
    BY <1>4 DEF Returns, TypeOK
  <2>2. AsAsked(e)'
    BY <1>2, <2>1 DEF AsAsked
  <2> QED BY <1>2, <1>4, <2>1, <2>2, QuietKeeps
<1>5. ASSUME NEW t \in Times, NEW want \in WantSets, StartSelect(e, t, want)
      PROVE  \A f \in Ends : EndInv(f)'
  <2>1. t \in Int /\ SelectLimit(t) # Refused
    BY <1>5, StreamAssumption DEF StartSelect
  <2> DEFINE c == [Idle EXCEPT !.op = "select", !.want = want, !.time = t,
                               !.limit = SelectLimit(t)]
  <2>2. c.op = "select" /\ c.done = 0 /\ c.time = t /\ c.limit = SelectLimit(t)
    BY DEF Idle
  <2>3. IF c.time = 0 THEN c.limit = Forever ELSE c.limit = c.time
    BY <2>1, <2>2, LimitAsAsked
  <2>4. Starts(e, c)
    BY <1>5 DEF StartSelect
  <2>5. told' = [told EXCEPT ![e] = {}]
    BY <1>5 DEF StartSelect
  <2> HIDE DEF c
  <2> QED BY <1>3, <1>5, <2>2, <2>3, <2>4, <2>5 DEF StartSelect
<1>6. ASSUME NEW t \in Times, NEW want \in WantSets, StartPoll(e, t, want)
      PROVE  \A f \in Ends : EndInv(f)'
  <2> DEFINE c == [Idle EXCEPT !.op = "poll", !.want = want, !.time = t,
                               !.limit = PollLimit(t)]
  <2>1. c.op = "poll" /\ c.done = 0 /\ c.time = t /\ c.limit = PollLimit(t)
    BY DEF Idle
  <2>2. IF c.time < 0 THEN c.limit = Forever ELSE c.limit = c.time
    BY <2>1 DEF PollLimit
  <2>3. Starts(e, c)
    BY <1>6 DEF StartPoll
  <2>4. told' = [told EXCEPT ![e] = {}]
    BY <1>6 DEF StartPoll
  <2> HIDE DEF c
  <2> QED BY <1>3, <1>6, <2>1, <2>2, <2>3, <2>4 DEF StartPoll
<1>7. ASSUME NEW n \in Lengths, NEW dontwait \in BOOLEAN, StartSend(e, n, dontwait)
      PROVE  \A f \in Ends : EndInv(f)'
  <2> DEFINE c == [Idle EXCEPT !.op = "send", !.left = n, !.dontwait = dontwait]
  <2>1. c.op = "send" /\ c.done = 0
    BY DEF Idle
  <2>2. Starts(e, c)
    BY <1>7 DEF StartSend
  <2> DEFINE away == told[e] \ {"write"}
  <2>3. told' = [told EXCEPT ![e] = away]
    BY <1>7 DEF StartSend
  <2>4. away \subseteq told[e] /\ "write" \notin away
    OBVIOUS
  <2>5. UNCHANGED <<queue, sent, link, closed, acked, got, eof, threw>>
    BY <1>7 DEF StartSend
  <2>6. /\ c.op \in {"select", "poll", "send", "receive"}
        /\ c.op # "select" /\ c.op # "poll" /\ c.op # "receive"
    BY <2>1
  <2> HIDE DEF c, away
  <2> QED BY <1>3, <2>1, <2>2, <2>3, <2>4, <2>5, <2>6
<1>8. ASSUME NEW n \in Lengths, NEW peek \in BOOLEAN, NEW dontwait \in BOOLEAN,
             StartReceive(e, n, peek, dontwait)
      PROVE  \A f \in Ends : EndInv(f)'
  <2> DEFINE c == [Idle EXCEPT !.op = "receive", !.left = n, !.peek = peek,
                               !.dontwait = dontwait]
  <2>1. c.op = "receive" /\ c.done = 0
    BY DEF Idle
  <2>2. Starts(e, c)
    BY <1>8 DEF StartReceive
  <2> DEFINE away == told[e] \ {"read"}
  <2>3. told' = [told EXCEPT ![e] = away]
    BY <1>8 DEF StartReceive
  <2>4. away \subseteq told[e] /\ "read" \notin away
    OBVIOUS
  <2>5. UNCHANGED <<queue, sent, link, closed, acked, got, eof, threw>>
    BY <1>8 DEF StartReceive
  <2>6. /\ c.op \in {"select", "poll", "send", "receive"}
        /\ c.op # "select" /\ c.op # "poll" /\ c.op # "send"
    BY <2>1
  <2> HIDE DEF c, away
  <2> QED BY <1>3, <2>1, <2>2, <2>3, <2>4, <2>5, <2>6
<1>9. call[e].op \in Waits \cup {"receive"} => call[e].done = 0 /\ acked[e] + call[e].done = acked[e]
  BY <1>1 DEF EndInv, CountsAdd, Waits
<1>10. ASSUME WaitEnds(e) PROVE \A f \in Ends : EndInv(f)'
  <2>1. /\ told'[e] = IF InCall(e, {"select"}) THEN SelectResult(Found(e)) ELSE Found(e)
        /\ \A f \in Ends \ {e} : told'[f] = told[f]
    BY <1>10 DEF WaitEnds, TypeOK
  <2>2. told'[e] \ {"error"} \subseteq Ready(e)
    BY <2>1 DEF Found, SelectResult
  <2>3. /\ call[e].op \in Waits /\ Returns(e)
        /\ UNCHANGED <<queue, sent, link, closed, acked, got, eof, threw>>
    BY <1>10 DEF WaitEnds, InCall
  <2> QED BY <1>4, <1>9, <2>1, <2>2, <2>3 DEF Waits
<1>11. ASSUME TimesOut(e) PROVE \A f \in Ends : EndInv(f)'
  <2>1. /\ call[e].op \in Waits /\ Returns(e)
        /\ UNCHANGED <<queue, sent, link, closed, told, acked, got, eof, threw>>
    BY <1>11 DEF TimesOut, InCall, callerVars
  <2> QED BY <1>1, <1>4, <1>9, <2>1 DEF Waits
<1>12. ASSUME WaitThrows(e) PROVE \A f \in Ends : EndInv(f)'
  <2>1. /\ call[e].op \in Waits /\ Returns(e)
        /\ threw' = [threw EXCEPT ![e] = TRUE]
        /\ UNCHANGED <<queue, sent, link, closed, told, acked, got, eof>>
    BY <1>12 DEF WaitThrows, InCall, Throws
  <2>2. threw'[e] /\ \A f \in Ends \ {e} : threw'[f] = threw[f]
    BY <2>1 DEF TypeOK
  <2> QED BY <1>1, <1>4, <1>9, <2>1, <2>2 DEF Waits
<1>13. ASSUME SendReturns(e) PROVE \A f \in Ends : EndInv(f)'
  <2>1. /\ call[e].op = "send" /\ Returns(e)
        /\ acked' = [acked EXCEPT ![e] = acked[e] + call[e].done]
        /\ UNCHANGED <<queue, sent, link, closed, told, got, eof, threw>>
    BY <1>13 DEF SendReturns, InCall
  <2>2. /\ acked'[e] = acked[e] + call[e].done
        /\ \A f \in Ends \ {e} : acked'[f] = acked[f]
    BY <2>1 DEF TypeOK
  <2> QED BY <1>1, <1>4, <2>1, <2>2
<1>14. ASSUME Reported(e), Throws(e), call[e].op # "gone",
              acked[e] + call[e].done = acked[e],
              UNCHANGED <<queue, sent, closed, told, acked, got, eof>>
       PROVE  \A f \in Ends : EndInv(f)'
  <2>1. /\ link'[e] = IF link[e] = "reset" THEN "dead" ELSE link[e]
        /\ \A f \in Ends \ {e} : link'[f] = link[f]
    BY <1>14 DEF Reported, TypeOK
  <2>2. threw'[e] /\ \A f \in Ends \ {e} : threw'[f] = threw[f]
    BY <1>14 DEF Throws, TypeOK
  <2> QED BY <1>1, <1>4, <1>14, <2>1, <2>2 DEF Throws
<1>15. ASSUME SendThrows(e) PROVE \A f \in Ends : EndInv(f)'
  <2>1. acked[e] + call[e].done = acked[e]
    BY <1>1, <1>15 DEF SendThrows
  <2> QED BY <1>14, <1>15, <2>1 DEF SendThrows, InCall
<1>16. ASSUME ReceiveThrows(e) PROVE \A f \in Ends : EndInv(f)'
  BY <1>9, <1>14, <1>16 DEF ReceiveThrows, InCall
<1>17. ASSUME ReceiveEnd(e) PROVE \A f \in Ends : EndInv(f)'
  <2>1. /\ call[e].op = "receive" /\ Returns(e) /\ queue[e] = <<>>
        /\ link[e] = "dead" \/ (link[e] = "whole" /\ Peer[e] \in closed)
        /\ eof' = [eof EXCEPT ![e] = TRUE]
        /\ UNCHANGED <<queue, sent, link, closed, told, acked, got, threw>>
    BY <1>17 DEF ReceiveEnd, InCall
  <2>2. \A f \in Ends \ {e} : eof'[f] = eof[f]
    BY <2>1 DEF TypeOK
  <2>3. e \notin closed
    BY <1>1, <2>1 DEF EndInv, GoneIsClosed
  <2>4. link[e] = "dead" => threw[e]
    BY <1>1 DEF EndInv, AllRead
  <2>5. link[e] = "whole" => Len(got[e]) = sent[Peer[e]]
    <3>1. Len(queue[e]) = 0
      BY <2>1, EmptySeq
    <3>2. Len(got[e]) \in Nat
      BY LenProperties DEF TypeOK
    <3> QED BY <1>1, <2>3, <3>1, <3>2 DEF EndInv, NothingLost
  <2>6. /\ threw'[e] = threw[e]
        /\ ~threw'[e] => Peer[e] \in closed /\ queue[e] = <<>> /\ Len(got[e]) = sent[Peer[e]]
    BY <2>1, <2>4, <2>5
  <2> QED BY <1>1, <1>4, <1>9, <2>1, <2>2, <2>6
<1>18. ASSUME NEW t \in Times, SelectRefused(e, t) PROVE \A f \in Ends : EndInv(f)'
  <2>1. /\ call[e].op = "idle" /\ Returns(e)
        /\ told' = [told EXCEPT ![e] = {}]
        /\ threw' = [threw EXCEPT ![e] = TRUE]
        /\ UNCHANGED <<queue, sent, link, closed, acked, got, eof>>
    BY <1>18 DEF SelectRefused, InCall, Throws
  <2>2. /\ threw'[e] /\ \A f \in Ends \ {e} : threw'[f] = threw[f]
        /\ told'[e] = {} /\ \A f \in Ends \ {e} : told'[f] = told[f]
    BY <2>1 DEF TypeOK
  <2>3. acked[e] + call[e].done = acked[e]
    BY <1>1, <2>1 DEF EndInv, CountsAdd
  <2> QED BY <1>1, <1>4, <2>1, <2>2, <2>3
<1> QED BY <1>5, <1>6, <1>7, <1>8, <1>10, <1>11, <1>12, <1>13, <1>15, <1>16, <1>17, <1>18

(***************************************************************************)
(* The ends of another connection, at a step of e.                         *)
(***************************************************************************)
LEMMA OthersKeep ==
  ASSUME IInv, NEW e \in Ends,
         \A g \in Ends \ {e, Peer[e]} :
           /\ queue'[g] = queue[g] /\ sent'[g] = sent[g] /\ link'[g] = link[g]
           /\ call'[g] = call[g] /\ told'[g] = told[g] /\ acked'[g] = acked[g]
           /\ got'[g] = got[g] /\ eof'[g] = eof[g] /\ threw'[g] = threw[g]
           /\ g \in closed' <=> g \in closed,
         NEW f \in Ends \ {e, Peer[e]}
  PROVE  EndInv(f)'
<1>1. Peer[f] \in Ends \ {e, Peer[e]}
  BY StreamAssumption
<1>2. EndInv(f)
  BY DEF IInv
<1>3. Ready(f)' = Ready(f)
  BY <1>1 DEF Ready, Readable, Writable, HasRoom
<1>4. StaysReady(f)' /\ AsAsked(f)'
  BY <1>2, <1>3 DEF EndInv, StaysReady, AsAsked
<1>5. GoneIsClosed(f)' /\ CountsAdd(f)' /\ BytesFollow(f)'
  BY <1>2 DEF EndInv, GoneIsClosed, CountsAdd, BytesFollow
<1>6. NothingLost(f)' /\ AllRead(f)'
  BY <1>1, <1>2 DEF EndInv, NothingLost, AllRead
<1> QED BY <1>4, <1>5, <1>6 DEF EndInv

\* The bytes that the kernel takes go on where those before them stop.
LEMMA AppendFollows ==
  ASSUME NEW q \in Seq(Nat), NEW m \in Nat, NEW k \in Nat
  PROVE  (\A i \in 1..Len(q) : q[i] = m + i) =>
           /\ Len(q \o Numbered(m + Len(q), k)) = Len(q) + k
           /\ \A i \in 1..(Len(q) + k) : (q \o Numbered(m + Len(q), k))[i] = m + i
<1> DEFINE n == Numbered(m + Len(q), k)
<1>1. Len(q) \in Nat /\ m + Len(q) \in Nat
  BY LenProperties
<1>2. n \in Seq(Nat) /\ Len(n) = k /\ \A i \in 1..k : n[i] = m + Len(q) + i
  BY <1>1, NumberedProperties
<1> HIDE DEF n
<1>3. /\ Len(q \o n) = Len(q) + k
      /\ \A i \in 1..(Len(q) + k) : (q \o n)[i] = IF i <= Len(q) THEN q[i] ELSE n[i - Len(q)]
  BY <1>2, ConcatProperties
<1>4. ASSUME \A i \in 1..Len(q) : q[i] = m + i, NEW i \in 1..(Len(q) + k)
      PROVE  (q \o n)[i] = m + i
  <2>1. CASE i <= Len(q)
    <3>1. i \in 1..Len(q)
      BY <1>1, <2>1
    <3>2. (q \o n)[i] = q[i]
      BY <1>3, <2>1
    <3> QED BY <1>4, <3>1, <3>2
  <2>2. CASE ~(i <= Len(q))
    <3>1. i - Len(q) \in 1..k
      BY <1>1, <2>2
    <3>2. (q \o n)[i] = n[i - Len(q)]
      BY <1>3, <2>2
    <3>3. (q \o n)[i] = m + Len(q) + (i - Len(q))
      BY <1>2, <3>1, <3>2
    <3>4. m + Len(q) + (i - Len(q)) = m + i
      BY <1>1
    <3> QED BY <3>3, <3>4
  <2> QED BY <2>1, <2>2
<1> QED BY <1>3, <1>4 DEF n

(***************************************************************************)
(* The kernel takes bytes of a send().                                     *)
(***************************************************************************)
LEMMA SendCopiesKeeps ==
  ASSUME IInv, NEW e \in Ends, SendCopies(e)
  PROVE  \A f \in Ends : EndInv(f)'
<1> USE DEF IInv
<1> DEFINE P == Peer[e]
<1>1. P \in Ends /\ P # e /\ Peer[P] = e
  BY StreamAssumption
<1>2. /\ call[e].op = "send" /\ link[e] = "whole"
      /\ UNCHANGED <<closed, told, acked, got, eof, threw>>
  BY DEF SendCopies, InCall, callerVars
<1>3. PICK k \in 1..call[e].left :
        /\ \/ /\ P \notin closed
              /\ queue' = [queue EXCEPT ![P] = queue[P] \o Numbered(sent[e], k)]
              /\ UNCHANGED link
           \/ /\ P \in closed
              /\ \E st \in {"whole", "reset"} : link' = [link EXCEPT ![e] = st]
              /\ UNCHANGED queue
        /\ sent' = [sent EXCEPT ![e] = sent[e] + k]
        /\ call' = [call EXCEPT ![e].left = @ - k, ![e].done = @ + k]
  BY DEF SendCopies
<1>4. /\ call[e] \in CallRecord /\ call[e].left \in Nat /\ call[e].done \in Nat
      /\ sent[e] \in Nat /\ acked[e] \in Nat /\ queue[P] \in Seq(Nat) /\ got[P] \in Seq(Nat)
      /\ Len(queue[P]) \in Nat /\ Len(got[P]) \in Nat
  BY <1>1, LenProperties DEF TypeOK, CallRecord
<1>5. k \in Nat \ {0}
  BY <1>4
<1>6. EndInv(e) /\ EndInv(P) /\ e \notin closed
  BY <1>1, <1>2 DEF EndInv, GoneIsClosed
<1>7. /\ call'[e].op = call[e].op /\ call'[e].done = call[e].done + k
      /\ \A f \in Ends \ {e} : call'[f] = call[f] /\ sent'[f] = sent[f]
      /\ sent'[e] = sent[e] + k
  BY <1>3 DEF TypeOK, CallRecord
<1>8. \A f \in Ends \ {P} : queue'[f] = queue[f]
  BY <1>3 DEF TypeOK
<1>9. /\ \A f \in Ends \ {e} : link'[f] = link[f]
      /\ link'[e] \in {"whole", "reset"}
      /\ link'[e] # "whole" => P \in closed
  BY <1>2, <1>3 DEF TypeOK
<1>10. EndInv(e)'
  <2>1. GoneIsClosed(e)' /\ AsAsked(e)'
    BY <1>2, <1>6, <1>7 DEF EndInv, GoneIsClosed, AsAsked
  <2>2. CountsAdd(e)'
    BY <1>2, <1>4, <1>5, <1>6, <1>7 DEF EndInv, CountsAdd
  <2>3. BytesFollow(e)'
    BY <1>1, <1>2, <1>6, <1>8 DEF EndInv, BytesFollow
  <2>4. NothingLost(e)'
    BY <1>1, <1>2, <1>6, <1>7, <1>8, <1>9 DEF EndInv, NothingLost
  <2>5. AllRead(e)'
    BY <1>1, <1>2, <1>6, <1>7, <1>8, <1>9 DEF EndInv, AllRead
  <2>6. StaysReady(e)'
    <3>1. told[e] \ {"error"} \subseteq {"read"} /\ "write" \notin told[e]
      BY <1>2, <1>6 DEF EndInv, StaysReady, Ready
    <3>2. "read" \in Ready(e) => "read" \in Ready(e)'
      BY <1>1, <1>2, <1>8 DEF Ready, Readable
    <3> QED BY <1>2, <1>6, <1>7, <3>1, <3>2 DEF EndInv, StaysReady
  <2> QED BY <2>1, <2>2, <2>3, <2>4, <2>5, <2>6 DEF EndInv
<1>11. EndInv(P)'
  <2>1. GoneIsClosed(P)' /\ AsAsked(P)' /\ CountsAdd(P)'
    BY <1>1, <1>2, <1>6, <1>7 DEF EndInv, GoneIsClosed, AsAsked, CountsAdd
  <2>2. AllRead(P)'
    BY <1>1, <1>2, <1>6, <1>9 DEF EndInv, AllRead
  <2>3. CASE P \in closed
    <3>1. queue' = queue
      BY <1>3, <2>3
    <3>2. BytesFollow(P)' /\ NothingLost(P)'
      <4>1. Len(got[P]) + Len(queue[P]) <= sent[e] + k
        <5>1. \A m, n, l \in Nat : m + n <= l => m + n <= l + k
          BY <1>5
        <5> QED BY <1>1, <1>4, <1>6, <5>1 DEF EndInv, NothingLost
      <4> QED BY <1>1, <1>2, <1>6, <1>7, <1>9, <2>3, <3>1, <4>1 DEF EndInv, BytesFollow, NothingLost
    <3>3. Ready(P)' = Ready(P)
      BY <1>1, <1>2, <1>9, <3>1 DEF Ready, Readable, Writable, HasRoom
    <3>4. StaysReady(P)'
      BY <1>1, <1>2, <1>6, <1>7, <3>3 DEF EndInv, StaysReady
    <3> QED BY <2>1, <2>2, <3>2, <3>4 DEF EndInv
  <2>4. CASE P \notin closed
    <3>1. queue'[P] = queue[P] \o Numbered(sent[e], k)
      BY <1>1, <1>3, <2>4 DEF TypeOK
    <3>2. sent[e] = Len(got[P]) + Len(queue[P])
      BY <1>1, <1>6, <2>4 DEF EndInv, NothingLost
    <3>3. \A i \in 1..Len(queue[P]) : queue[P][i] = Len(got[P]) + i
      BY <1>6 DEF EndInv, BytesFollow
    <3>4. /\ Len(queue'[P]) = Len(queue[P]) + k
          /\ \A i \in 1..Len(queue'[P]) : queue'[P][i] = Len(got[P]) + i
      <4>1. queue'[P] = queue[P] \o Numbered(Len(got[P]) + Len(queue[P]), k) /\ k \in Nat
        BY <1>5, <3>1, <3>2
      <4> DEFINE q == queue[P]
                 m == Len(got[P])
      <4>2. q \in Seq(Nat) /\ m \in Nat /\ \A i \in 1..Len(q) : q[i] = m + i
        BY <1>4, <3>3
      <4>3. queue'[P] = q \o Numbered(m + Len(q), k)
        BY <4>1
      <4> HIDE DEF q, m
      <4>4. /\ Len(q \o Numbered(m + Len(q), k)) = Len(q) + k
            /\ \A i \in 1..(Len(q) + k) : (q \o Numbered(m + Len(q), k))[i] = m + i
        BY <4>1, <4>2, AppendFollows
      <4>5. Len(queue'[P]) = Len(q) + k /\ \A i \in 1..Len(queue'[P]) : queue'[P][i] = m + i
        BY <4>3, <4>4
      <4> QED BY <4>5 DEF q, m
    <3>5. BytesFollow(P)'
      BY <1>2, <1>6, <3>4 DEF EndInv, BytesFollow
    <3>6. NothingLost(P)'
      <4>1. sent'[e] = Len(got'[P]) + Len(queue'[P])
        <5>1. sent[e] + k = Len(got[P]) + (Len(queue[P]) + k)
          <6>1. \A g, q, n \in Nat : (g + q) + n = g + (q + n)
            OBVIOUS
          <6>2. Len(got[P]) \in Nat /\ Len(queue[P]) \in Nat /\ k \in Nat
            BY <1>4, <1>5
          <6>3. sent[e] + k = (Len(got[P]) + Len(queue[P])) + k
            BY <3>2
          <6> QED BY <6>1, <6>2, <6>3
        <5>2. got'[P] = got[P] /\ sent'[e] = sent[e] + k /\ Len(queue'[P]) = Len(queue[P]) + k
          BY <1>2, <1>7, <3>4
        <5> QED BY <5>1, <5>2
      <4>2. Len(got'[P]) + Len(queue'[P]) <= sent'[e]
        <5>1. sent'[e] \in Nat
          BY <1>4, <1>5, <1>7
        <5> QED BY <4>1, <5>1
      <4> QED BY <1>1, <1>2, <1>6, <1>9, <4>1, <4>2 DEF EndInv, NothingLost
    <3>7. queue'[P] # <<>>
      BY <1>4, <1>5, <3>4, EmptySeq
    <3>8. Ready(P) \subseteq Ready(P)'
      BY <1>1, <1>2, <1>8, <1>9, <3>7 DEF Ready, Readable, Writable, HasRoom
    <3>9. StaysReady(P)'
      BY <1>1, <1>2, <1>6, <1>7, <3>8 DEF EndInv, StaysReady
    <3> QED BY <2>1, <2>2, <3>5, <3>6, <3>9 DEF EndInv
  <2> QED BY <2>3, <2>4
<1>12. \A f \in Ends \ {e, P} : EndInv(f)'
  BY <1>1, <1>2, <1>7, <1>8, <1>9, OthersKeep
<1> QED BY <1>10, <1>11, <1>12

\* The bytes that receive() takes are the next ones, and those left follow them.
LEMMA MoveFollows ==
  ASSUME NEW g \in Seq(Nat), NEW q \in Seq(Nat), NEW k \in 0..Len(q)
  PROVE  /\ Len(g \o SubSeq(q, 1, k)) = Len(g) + k
         /\ Len(SubSeq(q, k + 1, Len(q))) = Len(q) - k
         /\ (\A i \in 1..Len(g) : g[i] = i) /\ (\A i \in 1..Len(q) : q[i] = Len(g) + i)
            => /\ \A i \in 1..(Len(g) + k) : (g \o SubSeq(q, 1, k))[i] = i
               /\ \A i \in 1..(Len(q) - k) : SubSeq(q, k + 1, Len(q))[i] = Len(g) + k + i
<1> DEFINE p == SubSeq(q, 1, k)
           r == SubSeq(q, k + 1, Len(q))
<1>1. Len(g) \in Nat /\ Len(q) \in Nat
  BY LenProperties
<1>2. /\ p \in Seq(Nat) /\ Len(p) = k /\ \A i \in 1..k : p[i] = q[i]
      /\ Len(r) = Len(q) - k /\ \A i \in 1..(Len(q) - k) : r[i] = q[k + i]
  BY SplitProperties
<1> HIDE DEF p, r
<1>3. /\ Len(g \o p) = Len(g) + k
      /\ \A i \in 1..(Len(g) + k) : (g \o p)[i] = IF i <= Len(g) THEN g[i] ELSE p[i - Len(g)]
  <2>1. p \in Seq(Nat) /\ Len(p) = k
    BY <1>2
  <2>2. /\ Len(g \o p) = Len(g) + Len(p)
        /\ \A i \in 1..(Len(g) + Len(p)) :
             (g \o p)[i] = IF i <= Len(g) THEN g[i] ELSE p[i - Len(g)]
    BY <2>1, ConcatProperties
  <2> QED BY <2>1, <2>2
<1>4. ASSUME \A i \in 1..Len(g) : g[i] = i, \A i \in 1..Len(q) : q[i] = Len(g) + i
      PROVE  /\ \A i \in 1..(Len(g) + k) : (g \o p)[i] = i
             /\ \A i \in 1..(Len(q) - k) : r[i] = Len(g) + k + i
  <2>1. ASSUME NEW i \in 1..(Len(g) + k), i <= Len(g) PROVE (g \o p)[i] = i
    <3>1. i \in 1..Len(g)
      BY <1>1, <2>1
    <3>2. (g \o p)[i] = g[i]
      BY <1>3, <2>1
    <3> QED BY <1>4, <3>1, <3>2
  <2>2. ASSUME NEW i \in 1..(Len(g) + k), ~(i <= Len(g)) PROVE (g \o p)[i] = i
    <3>1. i - Len(g) \in 1..k /\ i - Len(g) \in 1..Len(q) /\ Len(g) + (i - Len(g)) = i
      BY <1>1, <2>2
    <3>2. (g \o p)[i] = p[i - Len(g)]
      BY <1>3, <2>2
    <3>3. p[i - Len(g)] = q[i - Len(g)]
      BY <1>2, <3>1
    <3>4. q[i - Len(g)] = Len(g) + (i - Len(g))
      BY <1>4, <3>1
    <3> QED BY <3>1, <3>2, <3>3, <3>4
  <2>3. ASSUME NEW i \in 1..(Len(q) - k) PROVE r[i] = Len(g) + k + i
    <3>1. k + i \in 1..Len(q) /\ Len(g) + (k + i) = Len(g) + k + i
      BY <1>1
    <3>2. r[i] = q[k + i]
      BY <1>2
    <3>3. q[k + i] = Len(g) + (k + i)
      BY <1>4, <3>1
    <3> QED BY <3>1, <3>2, <3>3
  <2> QED BY <2>1, <2>2, <2>3
<1> QED BY <1>2, <1>3, <1>4 DEF p, r

(***************************************************************************)
(* A receive() of bytes.                                                   *)
(***************************************************************************)
LEMMA ReceiveKeeps ==
  ASSUME IInv, NEW e \in Ends, Receive(e)
  PROVE  \A f \in Ends : EndInv(f)'
<1> USE DEF IInv
<1> DEFINE P == Peer[e]
<1>1. P \in Ends /\ P # e /\ Peer[P] = e
  BY StreamAssumption
<1>2. /\ call[e].op = "receive" /\ Returns(e)
      /\ UNCHANGED <<sent, link, closed, told, acked, eof, threw>>
  BY DEF Receive, InCall
<1>3. PICK k \in 1..call[e].left :
        /\ k <= Len(queue[e])
        /\ \/ UNCHANGED <<queue, got>>
           \/ /\ queue' = [queue EXCEPT ![e] = SubSeq(queue[e], k + 1, Len(queue[e]))]
              /\ got' = [got EXCEPT ![e] = got[e] \o SubSeq(queue[e], 1, k)]
  BY DEF Receive
<1>4. /\ call[e].left \in Nat /\ queue[e] \in Seq(Nat) /\ got[e] \in Seq(Nat)
      /\ Len(queue[e]) \in Nat /\ Len(got[e]) \in Nat
  BY LenProperties DEF TypeOK, CallRecord
<1>5. k \in 0..Len(queue[e]) /\ k >= 1
  BY <1>3, <1>4
<1>6. EndInv(e) /\ EndInv(P) /\ e \notin closed
  BY <1>1, <1>2 DEF EndInv, GoneIsClosed
<1>7. /\ call'[e].op = "idle" /\ call'[e].done = 0
      /\ \A f \in Ends \ {e} : call'[f] = call[f]
  BY <1>2 DEF Returns, TypeOK, Idle
<1>8. \A f \in Ends \ {e} : queue'[f] = queue[f] /\ got'[f] = got[f]
  BY <1>3 DEF TypeOK
<1>9. /\ Len(got'[e]) + Len(queue'[e]) = Len(got[e]) + Len(queue[e])
      /\ Len(queue'[e]) <= Len(queue[e])
      /\ BytesFollow(e)'
  <2>1. CASE UNCHANGED <<queue, got>>
    BY <1>4, <1>6, <2>1 DEF EndInv, BytesFollow
  <2>2. CASE /\ queue' = [queue EXCEPT ![e] = SubSeq(queue[e], k + 1, Len(queue[e]))]
             /\ got' = [got EXCEPT ![e] = got[e] \o SubSeq(queue[e], 1, k)]
    <3>1. /\ queue'[e] = SubSeq(queue[e], k + 1, Len(queue[e]))
          /\ got'[e] = got[e] \o SubSeq(queue[e], 1, k)
      BY <2>2 DEF TypeOK
    <3> DEFINE g == got[e]
               q == queue[e]
    <3>2. g \in Seq(Nat) /\ q \in Seq(Nat) /\ k \in 0..Len(q)
      BY <1>4, <1>5
    <3>9. (\A i \in 1..Len(g) : g[i] = i) /\ (\A i \in 1..Len(q) : q[i] = Len(g) + i)
      BY <1>6 DEF EndInv, BytesFollow
    <3>3. queue'[e] = SubSeq(q, k + 1, Len(q)) /\ got'[e] = g \o SubSeq(q, 1, k)
      BY <3>1
    <3> HIDE DEF g, q
    <3>4. /\ Len(g \o SubSeq(q, 1, k)) = Len(g) + k
          /\ Len(SubSeq(q, k + 1, Len(q))) = Len(q) - k
          /\ \A i \in 1..(Len(g) + k) : (g \o SubSeq(q, 1, k))[i] = i
          /\ \A i \in 1..(Len(q) - k) : SubSeq(q, k + 1, Len(q))[i] = Len(g) + k + i
      <4>1. /\ Len(g \o SubSeq(q, 1, k)) = Len(g) + k
            /\ Len(SubSeq(q, k + 1, Len(q))) = Len(q) - k
            /\ (\A i \in 1..Len(g) : g[i] = i) /\ (\A i \in 1..Len(q) : q[i] = Len(g) + i)
               => /\ \A i \in 1..(Len(g) + k) : (g \o SubSeq(q, 1, k))[i] = i
                  /\ \A i \in 1..(Len(q) - k) : SubSeq(q, k + 1, Len(q))[i] = Len(g) + k + i
        BY <3>2, MoveFollows, ZenonT(60)
      <4> QED BY <3>9, <4>1
    <3>5. Len(got'[e]) = Len(g) + k /\ Len(queue'[e]) = Len(q) - k
      BY <3>3, <3>4
    <3>6. Len(g) \in Nat /\ Len(q) \in Nat
      BY <3>2, LenProperties
    <3>7. /\ (Len(g) + k) + (Len(q) - k) = Len(g) + Len(q)
          /\ Len(q) - k <= Len(q)
      BY <3>2, <3>6
    <3>8. BytesFollow(e)'
      <4>1. \A i \in 1..Len(got'[e]) : got'[e][i] = i
        BY <3>3, <3>4, <3>5
      <4>2. \A i \in 1..Len(queue'[e]) : queue'[e][i] = Len(got'[e]) + i
        BY <3>3, <3>4, <3>5
      <4> QED BY <4>1, <4>2 DEF BytesFollow
    <3> QED BY <3>5, <3>7, <3>8 DEF g, q
  <2> QED BY <1>3, <2>1, <2>2
<1>10. EndInv(e)'
  <2>1. GoneIsClosed(e)' /\ AsAsked(e)'
    BY <1>2, <1>6, <1>7 DEF GoneIsClosed, AsAsked
  <2>2. CountsAdd(e)'
    BY <1>2, <1>6, <1>7 DEF EndInv, CountsAdd
  <2>3. NothingLost(e)'
    BY <1>1, <1>2, <1>6, <1>9 DEF EndInv, NothingLost
  <2>4. AllRead(e)'
    <3>1. queue[e] # <<>>
      BY <1>4, <1>5, EmptySeq
    <3> QED BY <1>2, <1>6, <3>1 DEF EndInv, AllRead
  <2>5. StaysReady(e)'
    <3>1. told[e] \ {"error"} \subseteq {"write"}
      BY <1>2, <1>6 DEF EndInv, StaysReady, Ready
    <3>2. "write" \in Ready(e) => "write" \in Ready(e)'
      BY <1>1, <1>2, <1>8 DEF Ready, Writable, HasRoom
    <3> QED BY <1>2, <1>6, <1>7, <3>1, <3>2 DEF EndInv, StaysReady
  <2> QED BY <1>9, <2>1, <2>2, <2>3, <2>4, <2>5 DEF EndInv
<1>11. EndInv(P)'
  <2>1. GoneIsClosed(P)' /\ AsAsked(P)' /\ CountsAdd(P)'
    BY <1>1, <1>2, <1>6, <1>7 DEF EndInv, GoneIsClosed, AsAsked, CountsAdd
  <2>2. BytesFollow(P)' /\ NothingLost(P)' /\ AllRead(P)'
    <3>1. BytesFollow(P)'
      BY <1>1, <1>2, <1>6, <1>8 DEF EndInv, BytesFollow
    <3>2. NothingLost(P)'
      BY <1>1, <1>2, <1>6, <1>8 DEF EndInv, NothingLost
    <3>3. AllRead(P)'
      BY <1>1, <1>2, <1>6, <1>8 DEF EndInv, AllRead
    <3> QED BY <3>1, <3>2, <3>3
  <2>3. Ready(P) \subseteq Ready(P)'
    <3>1. HasRoom(P) => HasRoom(P)'
      <4>1. queue' \in [Ends -> Seq(Nat)]
        BY ReceiveTyped DEF TypeOK
      <4>2. Len(queue'[e]) \in Nat
        BY <4>1, LenProperties
      <4> QED BY <1>1, <1>4, <1>9, <4>2, StreamAssumption DEF HasRoom
    <3> QED BY <1>1, <1>2, <1>8, <3>1 DEF Ready, Readable, Writable
  <2>4. StaysReady(P)'
    BY <1>1, <1>2, <1>6, <1>7, <2>3 DEF EndInv, StaysReady
  <2> QED BY <2>1, <2>2, <2>4 DEF EndInv
<1>12. \A f \in Ends \ {e, P} : EndInv(f)'
  BY <1>1, <1>2, <1>7, <1>8, OthersKeep
<1> QED BY <1>10, <1>11, <1>12

(***************************************************************************)
(* close(), by the destructor or by the end of the process.                *)
(***************************************************************************)
LEMMA CloseKeeps ==
  ASSUME IInv, NEW e \in Ends, call[e].op # "gone", call[e].op # "send" => call[e].done = 0,
         Close(e)
  PROVE  \A f \in Ends : EndInv(f)'
<1> USE DEF IInv
<1> DEFINE P == Peer[e]
<1>1. P \in Ends /\ P # e /\ Peer[P] = e
  BY StreamAssumption
<1>2. /\ closed' = closed \cup {e}
      /\ call' = [call EXCEPT ![e] = [Idle EXCEPT !.op = "gone"]]
      /\ told' = [told EXCEPT ![e] = {}]
      /\ UNCHANGED <<sent, acked, got, eof, threw>>
  BY DEF Close
<1>3. PICK k \in 0..Len(queue[P]) :
        /\ queue'[P] = SubSeq(queue[P], 1, k)
        /\ queue'[P] # queue[P] => link'[P] # "whole"
  BY CloseEffect
<1>4. /\ queue'[e] = <<>>
      /\ \A f \in Ends \ {e, P} : queue'[f] = queue[f]
      /\ \A f \in Ends \ {P} : link'[f] = link[f]
      /\ link'[P] # link[P] => link[P] = "whole" /\ link'[P] = "reset"
  BY CloseEffect
<1>5. /\ call'[e].op = "gone" /\ call'[e].done = 0 /\ told'[e] = {}
      /\ \A f \in Ends \ {e} : call'[f] = call[f] /\ told'[f] = told[f]
  BY <1>2 DEF Idle, TypeOK
<1>6. EndInv(e) /\ EndInv(P) /\ e \notin closed
  BY <1>1 DEF EndInv, GoneIsClosed
<1>7. EndInv(e)'
  <2>1. GoneIsClosed(e)' /\ AsAsked(e)' /\ CountsAdd(e)' /\ StaysReady(e)'
    BY <1>2, <1>5 DEF GoneIsClosed, AsAsked, CountsAdd, StaysReady
  <2>2. BytesFollow(e)'
    <3>1. \A i \in 1..Len(queue'[e]) : FALSE
      BY <1>4, EmptySeq
    <3> QED BY <1>2, <1>6, <3>1 DEF EndInv, BytesFollow
  <2>3. NothingLost(e)' /\ AllRead(e)'
    <3>1. Len(got[e]) \in Nat /\ Len(queue[e]) \in Nat /\ sent[P] \in Nat
      BY <1>1, LenProperties DEF TypeOK
    <3>2. Len(got[e]) + Len(queue[e]) <= sent[P]
      BY <1>6 DEF EndInv, NothingLost
    <3>3. Len(queue'[e]) = 0
      BY <1>4, EmptySeq
    <3>4. Len(got'[e]) + Len(queue'[e]) <= sent'[P]
      <4>1. \A a, b, c \in Nat : a + b <= c => a + 0 <= c
        OBVIOUS
      <4>2. Len(got[e]) + 0 <= sent[P]
        BY <3>1, <3>2, <4>1
      <4> QED BY <1>2, <3>3, <4>2
    <3> QED BY <1>1, <1>2, <1>4, <1>6, <3>4 DEF EndInv, NothingLost, AllRead
  <2> QED BY <2>1, <2>2, <2>3 DEF EndInv
<1>8. EndInv(P)'
  <2>1. GoneIsClosed(P)' /\ AsAsked(P)' /\ CountsAdd(P)'
    BY <1>1, <1>2, <1>5, <1>6 DEF EndInv, GoneIsClosed, AsAsked, CountsAdd
  <2>2. queue[P] \in Seq(Nat) /\ Len(queue[P]) \in Nat
    BY <1>1, LenProperties DEF TypeOK
  <2>3. Len(queue'[P]) = k /\ \A i \in 1..k : i \in 1..Len(queue[P]) /\ queue'[P][i] = queue[P][i]
    <3>1. \A i \in 1..k : i \in 1..Len(queue[P])
      BY <2>2
    <3> QED BY <1>3, <2>2, <3>1, SplitProperties
  <2>4. BytesFollow(P)'
    BY <1>2, <1>6, <2>3 DEF EndInv, BytesFollow
  <2>5. NothingLost(P)'
    <3>1. Len(got[P]) + k <= sent[e]
      <4>1. Len(got[P]) \in Nat /\ sent[e] \in Nat
        BY <1>1, LenProperties DEF TypeOK
      <4>2. Len(got[P]) + Len(queue[P]) <= sent[e]
        BY <1>1, <1>6 DEF EndInv, NothingLost
      <4>3. \A a, b, c, l \in Nat : a + b <= c /\ l <= b => a + l <= c
        OBVIOUS
      <4>4. k \in Nat /\ k <= Len(queue[P])
        BY <2>2
      <4> QED BY <2>2, <4>1, <4>2, <4>3, <4>4
    <3> QED BY <1>1, <1>2, <1>3, <1>4, <1>6, <2>3, <3>1 DEF EndInv, NothingLost
  <2>6. AllRead(P)'
    <3>1. queue[P] = <<>> => queue'[P] = <<>>
      <4>1. queue[P] = <<>> => k = 0
        BY <2>2, EmptySeq
      <4>2. queue'[P] \in Seq(Nat)
        BY <1>1, CloseEffect
      <4> QED BY <2>3, <4>1, <4>2, EmptySeq
    <3>2. link'[P] = "dead" => link[P] = "dead"
      BY <1>4
    <3> QED BY <1>1, <1>2, <1>6, <3>1, <3>2 DEF EndInv, AllRead
  <2>7. StaysReady(P)'
    <3>1. "read" \in Ready(P)' /\ "write" \in Ready(P)'
      BY <1>1, <1>2 DEF Ready, Readable, Writable
    <3> QED BY <1>1, <1>5, <1>6, <3>1 DEF EndInv, StaysReady, Ready
  <2> QED BY <2>1, <2>4, <2>5, <2>6, <2>7 DEF EndInv
<1>9. \A f \in Ends \ {e, P} : EndInv(f)'
  BY <1>1, <1>2, <1>4, <1>5, OthersKeep
<1> QED BY <1>7, <1>8, <1>9
-----------------------------------------------------------------------------
(***************************************************************************)
(* The invariant is kept by every step.                                    *)
(***************************************************************************)
LEMMA StepHolds ==
  ASSUME IInv, NEW e \in Ends, Step(e)
  PROVE  IInv'
<1>1. TypeOK
  BY DEF IInv
<1>2. CASE \/ \E t \in Times, want \in WantSets : StartSelect(e, t, want) \/ StartPoll(e, t, want)
           \/ \E n \in Lengths, dontwait \in BOOLEAN : StartSend(e, n, dontwait)
           \/ \E n \in Lengths, peek, dontwait \in BOOLEAN : StartReceive(e, n, peek, dontwait)
           \/ WaitEnds(e) \/ TimesOut(e) \/ WaitThrows(e) \/ \E t \in Times : SelectRefused(e, t)
           \/ SendReturns(e) \/ SendThrows(e) \/ ReceiveEnd(e) \/ ReceiveThrows(e)
  <2>1. TypeOK'
    BY <1>1, <1>2, QuietStepTyped
  <2>2. \A f \in Ends : EndInv(f)'
    BY <1>2, QuietStepKeeps
  <2> QED BY <2>1, <2>2 DEF IInv
<1>3. CASE SendCopies(e)
  <2>1. TypeOK'
    BY <1>1, <1>3, SendCopiesTyped
  <2>2. \A f \in Ends : EndInv(f)'
    BY <1>3, SendCopiesKeeps
  <2> QED BY <2>1, <2>2 DEF IInv
<1>4. CASE Receive(e)
  <2>1. TypeOK'
    BY <1>1, <1>4, ReceiveTyped
  <2>2. \A f \in Ends : EndInv(f)'
    BY <1>4, ReceiveKeeps
  <2> QED BY <2>1, <2>2 DEF IInv
<1>5. CASE Destroy(e) \/ BrokenPipe(e)
  <2>1. call[e].op # "gone" /\ Close(e)
    BY <1>5 DEF Destroy, BrokenPipe, InCall
  <2>2. call[e].op # "send" => call[e].done = 0
    BY DEF IInv, EndInv, CountsAdd
  <2>3. TypeOK'
    BY <1>1, <2>1, CloseTyped
  <2>4. \A f \in Ends : EndInv(f)'
    BY <2>1, <2>2, CloseKeeps
  <2> QED BY <2>3, <2>4 DEF IInv
<1>6. \/ \E t \in Times, want \in WantSets : StartSelect(e, t, want) \/ StartPoll(e, t, want)
      \/ \E n \in Lengths, dontwait \in BOOLEAN : StartSend(e, n, dontwait)
      \/ \E n \in Lengths, peek, dontwait \in BOOLEAN : StartReceive(e, n, peek, dontwait)
      \/ WaitEnds(e) \/ TimesOut(e) \/ WaitThrows(e) \/ \E t \in Times : SelectRefused(e, t)
      \/ SendReturns(e) \/ SendThrows(e) \/ ReceiveEnd(e) \/ ReceiveThrows(e)
      \/ SendCopies(e) \/ Receive(e) \/ Destroy(e) \/ BrokenPipe(e)
  BY DEF Step
<1> QED BY <1>2, <1>3, <1>4, <1>5, <1>6

\* Or by none.
LEMMA StutterHolds ==
  ASSUME IInv, UNCHANGED vars
  PROVE  IInv'
<1>1. TypeOK'
  BY DEF IInv, TypeOK, vars
<1>2. ASSUME NEW e \in Ends PROVE EndInv(e)'
  <2>1. EndInv(e)
    BY DEF IInv
  <2>2. Ready(e)' = Ready(e)
    BY DEF vars, Ready, Readable, Writable, HasRoom
  <2>3. GoneIsClosed(e)' /\ CountsAdd(e)' /\ BytesFollow(e)' /\ NothingLost(e)' /\ AllRead(e)'
    BY <2>1 DEF vars, EndInv, GoneIsClosed, CountsAdd, BytesFollow, NothingLost, AllRead
  <2>4. StaysReady(e)' /\ AsAsked(e)'
    BY <2>1, <2>2 DEF vars, EndInv, StaysReady, AsAsked
  <2> QED BY <2>3, <2>4 DEF EndInv
<1> QED BY <1>1, <1>2 DEF IInv

(***************************************************************************)
(* The invariant of both ends of every connection.                         *)
(***************************************************************************)
THEOREM Invariance == Spec => []IInv
<1>1. IInv /\ [Next]_vars => IInv'
  BY StepHolds, StutterHolds DEF Next
<1> QED BY <1>1, InitHolds, PTL DEF Spec
-----------------------------------------------------------------------------
(***************************************************************************)
(* Types: at no time does the kernel hold more for an end than it has room.*)
(***************************************************************************)
THEOREM TypeCorrect == Spec => []TypeOK
<1>1. IInv => TypeOK
  BY DEF IInv
<1> QED BY <1>1, Invariance, PTL

(***************************************************************************)
(* What receive() has returned is what the other end sent, from the first  *)
(* byte on, each byte once.                                                *)
(***************************************************************************)
THEOREM Order == Spec => []InOrder
<1>1. IInv => InOrder
  <2> SUFFICES ASSUME IInv, NEW e \in Ends PROVE got[e] = Numbered(0, Len(got[e]))
    BY DEF InOrder
  <2> DEFINE g == got[e]
  <2>1. g \in Seq(Nat) /\ Len(g) \in Nat
    BY LenProperties DEF IInv, TypeOK
  <2>2. \A i \in 1..Len(g) : g[i] = i
    BY DEF IInv, EndInv, BytesFollow
  <2> HIDE DEF g
  <2>3. /\ Numbered(0, Len(g)) \in Seq(Nat) /\ Len(Numbered(0, Len(g))) = Len(g)
        /\ \A i \in 1..Len(g) : Numbered(0, Len(g))[i] = 0 + i
    BY <2>1, NumberedProperties
  <2>4. \A i \in 1..Len(g) : g[i] = Numbered(0, Len(g))[i]
    BY <2>1, <2>2, <2>3
  <2>5. g = Numbered(0, Len(g))
    BY <2>1, <2>3, <2>4, SeqEqual
  <2> QED BY <2>5 DEF g
<1> QED BY <1>1, Invariance, PTL

(***************************************************************************)
(* send()'s results add up to what has been received or is under way.      *)
(***************************************************************************)
THEOREM Counts == Spec => []SendsAddUp
<1>1. IInv => SendsAddUp
  <2> SUFFICES ASSUME IInv, NEW e \in Ends, call[e].op = "idle",
                      Peer[e] \notin closed, link[Peer[e]] = "whole"
               PROVE  acked[e] = Len(got[Peer[e]]) + Len(queue[Peer[e]])
    BY DEF SendsAddUp, InCall
  <2>1. Peer[e] \in Ends /\ Peer[Peer[e]] = e
    BY StreamAssumption
  <2>2. sent[e] = Len(got[Peer[e]]) + Len(queue[Peer[e]])
    BY <2>1 DEF IInv, EndInv, NothingLost
  <2>3. e \notin closed /\ call[e].done = 0 /\ acked[e] \in Nat
    BY DEF IInv, TypeOK, EndInv, GoneIsClosed, CountsAdd
  <2>4. acked[e] + call[e].done = sent[e]
    BY <2>3 DEF IInv, EndInv, CountsAdd
  <2>5. acked[e] = sent[e]
    BY <2>3, <2>4
  <2> QED BY <2>2, <2>5
<1> QED BY <1>1, Invariance, PTL

(***************************************************************************)
(* 0 is a remote closed socket, and all that it sent has been received, if *)
(* no exception has said otherwise.                                        *)
(***************************************************************************)
THEOREM End == Spec => []ZeroIsTheEnd
<1>1. IInv => ZeroIsTheEnd
  BY DEF IInv, EndInv, AllRead, ZeroIsTheEnd
<1> QED BY <1>1, Invariance, PTL

(***************************************************************************)
(* What select() or poll() found ready stays so until it is used.          *)
(***************************************************************************)
THEOREM ReadyUntilUsed == Spec => []ReadyStays
<1>1. IInv => ReadyStays
  BY DEF IInv, EndInv, StaysReady, ReadyStays
<1> QED BY <1>1, Invariance, PTL

(***************************************************************************)
(* For every time that a caller may pass, select() and poll() wait as long *)
(* as they are asked to.                                                   *)
(***************************************************************************)
THEOREM Limits == Spec => []WaitsAsAsked
<1>1. IInv => WaitsAsAsked
  BY DEF IInv, EndInv, AsAsked, WaitsAsAsked, InCall
<1> QED BY <1>1, Invariance, PTL
=============================================================================
