--------------------------- MODULE InetResolveProof ---------------------------
(***************************************************************************)
(* Proofs about InetResolve, for every set of result lists, every max and  *)
(* every length of vector.                                                 *)
(***************************************************************************)
EXTENDS InetResolve, SequenceTheorems, TLAPS

(***************************************************************************)
(* What is taken is an internet family, and its domain follows.            *)
(***************************************************************************)
LEMMA TakenFamilies ==
  ASSUME NEW f, Taken(f)
  PROVE  \/ f = "PF_INET" /\ lowLevelToSocketDomain[f] = "INET4"
         \/ f = "PF_INET6" /\ lowLevelToSocketDomain[f] = "INET6"
BY DEF Taken, lowLevelToSocketDomain

(***************************************************************************)
(* A result as long as its family says, as getaddrinfo() makes them.       *)
(***************************************************************************)
WellFormed(r) ==
  /\ r \in Result
  /\ r.family = "PF_INET" => Len(r.words) = 3
  /\ r.family = "PF_INET6" => Len(r.words) = 6

\* The text of an address that is INET4 is made from its first word.
Inet4Shape(a) ==
  a.domain = "INET4" => Len(a.stored) = 3 /\ a.actual = <<a.stored[1]>>

(***************************************************************************)
(* A taken result makes an InetAddress, whose text, when it is an IPv4     *)
(* address, is made from the word that is the address.                     *)
(***************************************************************************)
LEMMA FromResultType ==
  ASSUME NEW r, WellFormed(r), Taken(r.family)
  PROVE  /\ FromResult(r) \in InetAddress
         /\ Inet4Shape(FromResult(r))
         /\ r.family = "PF_INET" => FromResult(r).actual = <<r.words[1]>>
<1> DEFINE d == lowLevelToSocketDomain[r.family]
           w == r.words
<1>1. w \in Seq(Words)
  BY DEF WellFormed, Result
<1>2. FromResult(r) = [domain |-> d, stored |-> SubSeq(w, 1, 3),
                       actual |-> SubSeq(w, 1, IF d = "INET4" THEN 1 ELSE 4)]
  BY DEF FromResult, MakeAddress, InetAddressPimpl, parseAddress
<1>3. CASE r.family = "PF_INET" /\ d = "INET4"
  <2>1. Len(w) = 3
    BY <1>3 DEF WellFormed
  <2>2. /\ SubSeq(w, 1, 3) \in Seq(Words) /\ Len(SubSeq(w, 1, 3)) = 3
        /\ SubSeq(w, 1, 3)[1] = w[1]
    BY <1>1, <2>1
  <2>3. SubSeq(w, 1, 1) \in Seq(Words) /\ SubSeq(w, 1, 1) = <<w[1]>>
    <3>1. /\ SubSeq(w, 1, 1) \in Seq(Words) /\ Len(SubSeq(w, 1, 1)) = 1
          /\ SubSeq(w, 1, 1)[1] = w[1]
      BY <1>1, <2>1
    <3>2. <<w[1]>> \in Seq(Words) /\ Len(<<w[1]>>) = 1 /\ <<w[1]>>[1] = w[1]
      BY <1>1, <2>1
    <3>3. \A i \in 1..1 : SubSeq(w, 1, 1)[i] = <<w[1]>>[i]
      BY <3>1, <3>2
    <3> HIDE DEF w
    <3>4. SubSeq(w, 1, 1) = <<w[1]>>
      BY <3>1, <3>2, <3>3, SeqEqual
    <3> QED
      BY <3>1, <3>4
  <2> QED
    BY <1>2, <1>3, <2>2, <2>3 DEF InetAddress, Inet4Shape
<1>4. CASE r.family = "PF_INET6" /\ d = "INET6"
  <2>1. Len(w) = 6
    BY <1>4 DEF WellFormed
  <2>2. SubSeq(w, 1, 3) \in Seq(Words) /\ SubSeq(w, 1, 4) \in Seq(Words)
    BY <1>1, <2>1
  <2> QED
    BY <1>2, <1>4, <2>2 DEF InetAddress, Inet4Shape
<1> QED
  BY <1>3, <1>4, TakenFamilies
-----------------------------------------------------------------------------
(***************************************************************************)
(* The inductive invariant.  What was added is the results up to count;    *)
(* each of those is well formed and taken; whatever the vector holds       *)
(* besides came from an earlier call, so every INET4 address in it has the *)
(* shape that the round trip needs.                                        *)
(***************************************************************************)
Added == [i \in 1..count |-> FromResult(results[i])]

Inv ==
  /\ TypeOK
  /\ \A i \in 1..Len(results) : WellFormed(results[i])
  /\ \A i \in 1..count : Taken(results[i].family)
  /\ AddedInOrder
  /\ AllUpToMax
  /\ pc = "resolving" => count = 0
  /\ pc = "loop" => results # <<>>
  /\ overload = "one" => max = 1 /\ before = <<>>
  /\ FirstMatchGiven
  /\ \A i \in 1..Len(created) : Inet4Shape(created[i])

(***************************************************************************)
(* The invariant holds before the first call.                              *)
(***************************************************************************)
LEMMA InitInv == Init => Inv
<1> SUFFICES ASSUME Init PROVE Inv
  OBVIOUS
<1> USE DEF Init
<1>1. TypeOK
  BY DEF TypeOK, Overloads, Places
<1>2. AddedInOrder
  <2>1. [i \in 1..count |-> FromResult(results[i])] = <<>>
    BY DEF Init
  <2> QED
    BY <2>1 DEF AddedInOrder
<1> QED
  BY <1>1, <1>2 DEF Inv, AllUpToMax, FirstMatchGiven

(***************************************************************************)
(* A call that begins: nothing is added yet.                               *)
(***************************************************************************)
LEMMA CallInv ==
  ASSUME NEW o \in Overloads, NEW m \in Nat, NEW vector \in Seq(InetAddress),
         Call(o, m, vector),
         o = "one" => m = 1 /\ vector = <<>>,
         \A i \in 1..Len(vector) : Inet4Shape(vector[i])
  PROVE  Inv'
<1> USE DEF Call
<1>1. TypeOK'
  BY DEF TypeOK, Places
<1>2. AddedInOrder'
  <2>1. [i \in 1..0 |-> FromResult(results'[i])] = <<>>
    OBVIOUS
  <2>2. vector \o <<>> = vector
    OBVIOUS
  <2> QED
    BY <2>1, <2>2 DEF AddedInOrder
<1> QED
  BY <1>1, <1>2 DEF Inv, AllUpToMax, FirstMatchGiven

(***************************************************************************)
(* A call with the vector of the last one keeps the shape of what is in    *)
(* it.                                                                     *)
(***************************************************************************)
LEMMA CreateAllInv ==
  ASSUME Inv, NEW m \in Maxes, CreateAll(m)
  PROVE  Inv'
<1>1. m \in Nat /\ "vector" \in Overloads /\ "vector" # "one"
  BY InputsAssumption DEF Overloads
<1>2. CASE Call("vector", m, <<>>)
  <2>1. <<>> \in Seq(InetAddress) /\ \A i \in 1..Len(<<>>) : Inet4Shape(<<>>[i])
    OBVIOUS
  <2> QED
    BY <1>1, <1>2, <2>1, CallInv
<1>3. CASE Call("vector", m, created)
  <2>1. created \in Seq(InetAddress) /\ \A i \in 1..Len(created) : Inet4Shape(created[i])
    BY DEF Inv, TypeOK
  <2> QED
    BY <1>1, <1>3, <2>1, CallInv
<1> QED
  BY <1>2, <1>3 DEF CreateAll

(***************************************************************************)
(* The one-address call begins with an empty vector of its own.            *)
(***************************************************************************)
LEMMA CreateOneInv == Inv /\ CreateOne => Inv'
<1>1. <<>> \in Seq(InetAddress) /\ \A i \in 1..Len(<<>>) : Inet4Shape(<<>>[i])
  OBVIOUS
<1> QED
  BY <1>1, CallInv DEF CreateOne, Overloads

(***************************************************************************)
(* A failed resolution adds nothing.                                       *)
(***************************************************************************)
LEMMA ResolveFailsInv == Inv /\ ResolveFails => Inv'
BY DEF Inv, TypeOK, Places, ResolveFails, AddedInOrder, AllUpToMax, FirstMatchGiven

(***************************************************************************)
(* A list of results arrives, every one as long as its family says.        *)
(***************************************************************************)
LEMMA ResolveInv == Inv /\ Resolve => Inv'
<1> SUFFICES ASSUME Inv, Resolve PROVE Inv'
  OBVIOUS
<1> USE DEF Resolve
<1>1. results' \in Seq(Result) /\ \A i \in 1..Len(results') : WellFormed(results'[i])
  <2>1. results' \in Lists /\ results' \in Seq(Result)
    BY InputsAssumption
  <2>2. ASSUME NEW i \in 1..Len(results') PROVE results'[i] \in Result
    BY <2>1
  <2> QED
    BY <2>1, <2>2, InputsAssumption DEF WellFormed
<1>2. count = 0 /\ count' = 0
  BY DEF Inv
<1>3. TypeOK'
  BY <1>1 DEF Inv, TypeOK, Places
<1>4. AddedInOrder'
  <2> DEFINE new == [i \in 1..count' |-> FromResult(results'[i])]
             old == [i \in 1..count |-> FromResult(results[i])]
  <2>1. new = <<>> /\ old = <<>>
    BY <1>2
  <2>2. count' <= Len(results')
    BY <1>1, <1>2
  <2>3. created = before \o old
    BY DEF Inv, AddedInOrder
  <2> HIDE DEF new, old
  <2>4. created' = before' \o new
    BY <2>1, <2>3
  <2> QED
    BY <2>2, <2>4 DEF AddedInOrder, new
<1> QED
  BY <1>1, <1>2, <1>3, <1>4 DEF Inv, TypeOK, AllUpToMax, FirstMatchGiven

(***************************************************************************)
(* An exception in the loop leaves the vector as it is at that point.      *)
(***************************************************************************)
LEMMA LoopThrowsInv == Inv /\ LoopThrows => Inv'
BY DEF Inv, TypeOK, Places, LoopThrows, AddedInOrder, AllUpToMax, FirstMatchGiven

(***************************************************************************)
(* One more result: the vector grows by its address.                       *)
(***************************************************************************)
LEMMA AddResultInv == Inv /\ AddResult => Inv'
<1> SUFFICES ASSUME Inv, AddResult PROVE Inv'
  OBVIOUS
<1> USE DEF AddResult
<1> DEFINE r == results[count + 1]
           made(n) == [i \in 1..n |-> FromResult(results[i])]
<1>1. /\ count \in Nat /\ count + 1 \in 1..Len(results)
      /\ WellFormed(r) /\ Taken(r.family)
  BY DEF Inv, TypeOK, GoesOn, AddedInOrder
<1>2. FromResult(r) \in InetAddress /\ Inet4Shape(FromResult(r))
  BY <1>1, FromResultType
<1>3. TypeOK'
  BY <1>1, <1>2 DEF Inv, TypeOK
<1>4. \A i \in 1..count + 1 : FromResult(results[i]) \in InetAddress
  <2>1. SUFFICES ASSUME NEW i \in 1..count + 1
                 PROVE  FromResult(results[i]) \in InetAddress
    OBVIOUS
  <2>2. i \in 1..Len(results) /\ (i \in 1..count \/ i = count + 1)
    BY <1>1, <2>1 DEF Inv, TypeOK
  <2>3. WellFormed(results[i]) /\ Taken(results[i].family)
    BY <1>1, <2>2 DEF Inv
  <2> QED
    BY <2>3, FromResultType
<1>5. /\ made(count) \in Seq(InetAddress) /\ Len(made(count)) = count
      /\ made(count + 1) \in Seq(InetAddress) /\ Len(made(count + 1)) = count + 1
  BY <1>1, <1>4
<1>6. created' = before \o made(count + 1)
  <2>1. created \in Seq(InetAddress) /\ before \in Seq(InetAddress)
        /\ created = before \o made(count)
    BY DEF Inv, TypeOK, AddedInOrder
  <2>0. /\ \A i \in 1..count : made(count + 1)[i] = made(count)[i]
        /\ made(count + 1)[count + 1] = FromResult(r)
    BY <1>1
  <2> HIDE DEF made, r
  <2>2. Len(created) = Len(before) + count
        /\ \A i \in 1..Len(created) : created[i] =
             IF i <= Len(before) THEN before[i] ELSE made(count)[i - Len(before)]
    BY <2>1, <1>1, <1>5, ConcatProperties
  <2>3. Len(before \o made(count + 1)) = Len(before) + count + 1
        /\ before \o made(count + 1) \in Seq(InetAddress)
        /\ \A i \in 1..Len(before) + count + 1 : (before \o made(count + 1))[i] =
             IF i <= Len(before) THEN before[i] ELSE made(count + 1)[i - Len(before)]
    BY <2>1, <1>1, <1>5, ConcatProperties
  <2>4. created' \in Seq(InetAddress) /\ Len(created') = Len(created) + 1
        /\ created'[Len(created) + 1] = FromResult(r)
        /\ \A i \in 1..Len(created) : created'[i] = created[i]
    BY <2>1, <1>2 DEF r
  <2>5. ASSUME NEW i \in 1..Len(created') PROVE created'[i] = (before \o made(count + 1))[i]
    <3>1. CASE i <= Len(before)
      BY <3>1, <2>1, <2>2, <2>3, <2>4, <2>0, <1>1
    <3>2. CASE i > Len(before) /\ i <= Len(created)
      BY <3>2, <2>1, <2>2, <2>3, <2>4, <2>0, <1>1
    <3>3. CASE i = Len(created) + 1
      <4>1. /\ Len(before) \in Nat /\ i = Len(before) + count + 1
            /\ i - Len(before) = count + 1 /\ ~(i <= Len(before))
        BY <3>3, <2>1, <2>2, <1>1
      <4>2. (before \o made(count + 1))[i] = made(count + 1)[count + 1]
        BY <4>1, <2>3, <1>1
      <4> QED
        BY <4>2, <3>3, <2>4, <2>0
    <3>4. /\ i \in Nat /\ Len(created) \in Nat /\ Len(before) \in Nat
          /\ i <= Len(created) + 1
      BY <2>1, <2>4
    <3>5. \/ i <= Len(before)
          \/ i > Len(before) /\ i <= Len(created)
          \/ i = Len(created) + 1
      BY <3>4
    <3> QED
      BY <3>1, <3>2, <3>3, <3>5, Zenon
  <2>6. Len(created') = Len(before \o made(count + 1))
    BY <2>1, <2>2, <2>3, <2>4, <1>1
  <2> QED
    BY <2>3, <2>4, <2>5, <2>6, SeqEqual
<1>7. AddedInOrder'
  BY <1>1, <1>6 DEF AddedInOrder
<1>8. AllUpToMax'
  BY <1>1 DEF Inv, TypeOK, AllUpToMax, GoesOn
<1>9. \A i \in 1..Len(created') : Inet4Shape(created'[i])
  <2>1. created \in Seq(InetAddress)
    BY DEF Inv, TypeOK
  <2>2. Len(created') = Len(created) + 1 /\ created'[Len(created) + 1] = FromResult(r)
        /\ \A i \in 1..Len(created) : created'[i] = created[i]
    BY <2>1, <1>2
  <2> QED
    BY <2>1, <2>2, <1>2 DEF Inv
<1>10. \A i \in 1..count' : Taken(results'[i].family)
  BY <1>1 DEF Inv
<1> QED
  BY <1>1, <1>3, <1>7, <1>8, <1>9, <1>10 DEF Inv, FirstMatchGiven

(***************************************************************************)
(* The end of the loop: the one-address call has made exactly one.         *)
(***************************************************************************)
LEMMA FinishInv == Inv /\ Finish => Inv'
<1> SUFFICES ASSUME Inv, Finish PROVE Inv'
  OBVIOUS
<1> USE DEF Finish
<1>1. /\ count \in Nat /\ max \in Nat /\ Len(results) \in Nat
      /\ count <= Len(results) /\ results # <<>> /\ results \in Seq(Result)
  BY DEF Inv, TypeOK, AddedInOrder
<1>2. AllUpToMax'
  BY <1>1 DEF Inv, AllUpToMax, GoesOn
<1>3. ASSUME overload = "one" PROVE created[1] = FromResult(results[1]) /\ created # <<>>
  <2>1. count = 1 /\ before = <<>>
    BY <1>1, <1>3 DEF Inv, AllUpToMax, GoesOn
  <2>2. created = <<>> \o [i \in 1..1 |-> FromResult(results[i])]
    BY <2>1 DEF Inv, AddedInOrder
  <2>3. FromResult(results[1]) \in InetAddress
    BY <1>1, <2>1, FromResultType DEF Inv
  <2>4. [i \in 1..1 |-> FromResult(results[i])] \in Seq(InetAddress)
    BY <2>3
  <2> QED
    BY <2>2, <2>4
<1>4. FirstMatchGiven'
  BY <1>1, <1>3 DEF FirstMatchGiven
<1>5. given' \in Seq(InetAddress)
  <2>1. CASE overload = "one"
    <3>1. created[1] \in InetAddress
      BY <1>3, <2>1 DEF Inv, TypeOK
    <3> QED
      BY <3>1, <2>1
  <2> QED
    BY <2>1
<1>6. TypeOK'
  BY <1>5 DEF Inv, TypeOK, Places
<1> QED
  BY <1>2, <1>4, <1>6 DEF Inv, AddedInOrder

(***************************************************************************)
(* Every step keeps the invariant.                                         *)
(***************************************************************************)
LEMMA StepInv == Inv /\ [Next]_vars => Inv'
<1> SUFFICES ASSUME Inv, [Next]_vars PROVE Inv'
  OBVIOUS
<1>1. CASE UNCHANGED vars
  BY <1>1 DEF vars, Inv, TypeOK, AddedInOrder, AllUpToMax, FirstMatchGiven
<1> QED
  BY <1>1, CreateAllInv, CreateOneInv, ResolveFailsInv, ResolveInv, AddResultInv,
     LoopThrowsInv, FinishInv DEF Next

(***************************************************************************)
(* The invariant holds in every reachable state.                           *)
(***************************************************************************)
LEMMA Invariance == Spec => []Inv
BY InitInv, StepInv, PTL DEF Spec

(***************************************************************************)
(* The text of an address just added is made from the word of its result.  *)
(***************************************************************************)
LEMMA TextOfAdded ==
  ASSUME Inv, NEW i \in 1..count, results[i].family = "PF_INET"
  PROVE  created[Len(before) + i].actual = <<results[i].words[1]>>
<1> DEFINE made == [j \in 1..count |-> FromResult(results[j])]
<1>1. count \in Nat /\ count <= Len(results) /\ results \in Seq(Result)
  BY DEF Inv, TypeOK, AddedInOrder
<1>2. ASSUME NEW j \in 1..count PROVE FromResult(results[j]) \in InetAddress
  BY <1>1, <1>2, FromResultType DEF Inv
<1>3. made \in Seq(InetAddress) /\ Len(made) = count /\ made[i] = FromResult(results[i])
  BY <1>1, <1>2
<1>4. created = before \o made /\ before \in Seq(InetAddress)
  BY DEF Inv, TypeOK, AddedInOrder
<1>5. FromResult(results[i]).actual = <<results[i].words[1]>>
  BY <1>1, FromResultType DEF Inv
<1> HIDE DEF made
<1>6. created[Len(before) + i] = made[i]
  <2>1. Len(before) \in Nat /\ i \in Nat /\ i >= 1 /\ i <= count
    BY <1>1, <1>4
  <2>2. \A j \in 1..Len(before) + Len(made) : (before \o made)[j] =
          IF j <= Len(before) THEN before[j] ELSE made[j - Len(before)]
    BY <1>3, <1>4, ConcatProperties
  <2>3. /\ Len(before) + i \in 1..Len(before) + Len(made)
        /\ ~(Len(before) + i <= Len(before)) /\ Len(before) + i - Len(before) = i
    BY <2>1, <1>1, <1>3
  <2> QED
    BY <1>4, <2>2, <2>3
<1> QED
  BY <1>3, <1>5, <1>6

(***************************************************************************)
(* Making an IPv4 address again reads the same word, whatever is behind    *)
(* the structure.                                                          *)
(***************************************************************************)
LEMMA TextOfRemade ==
  ASSUME NEW a \in InetAddress, Inet4Shape(a), a.domain = "INET4", NEW w \in Words
  PROVE  Remade(a, w).actual = a.actual
<1> DEFINE s == Append(a.stored, w)
<1>1. a.stored \in Seq(Words) /\ Len(a.stored) = 3 /\ a.actual = <<a.stored[1]>>
  BY DEF InetAddress, Inet4Shape
<1>2. s \in Seq(Words) /\ Len(s) = 4 /\ s[1] = a.stored[1]
  <2> DEFINE st == a.stored
  <2>0. st \in Seq(Words)
    BY <1>1
  <2> HIDE DEF st
  <2>1. /\ Append(st, w) \in Seq(Words) /\ Len(Append(st, w)) = Len(st) + 1
        /\ \A i \in 1..Len(st) : Append(st, w)[i] = st[i]
    BY <2>0
  <2> QED
    BY <1>1, <2>1 DEF st
<1>3. Remade(a, w).actual = SubSeq(s, 1, 1)
  BY DEF Remade, InetAddressPimpl, parseAddress
<1>4. /\ SubSeq(s, 1, 1) \in Seq(Words) /\ Len(SubSeq(s, 1, 1)) = 1
      /\ SubSeq(s, 1, 1)[1] = s[1]
  BY <1>2
<1>5. <<s[1]>> \in Seq(Words) /\ Len(<<s[1]>>) = 1 /\ <<s[1]>>[1] = s[1]
  BY <1>2
<1>6. \A i \in 1..1 : SubSeq(s, 1, 1)[i] = <<s[1]>>[i]
  BY <1>4, <1>5
<1> HIDE DEF s
<1>7. SubSeq(s, 1, 1) = <<s[1]>>
  BY <1>4, <1>5, <1>6, SeqEqual
<1> QED
  BY <1>1, <1>2, <1>3, <1>7
-----------------------------------------------------------------------------
(***************************************************************************)
(* Every reachable state is of the right types: in particular, what is in  *)
(* the vector is an internet address, whatever families the resolver       *)
(* reports.                                                                *)
(***************************************************************************)
THEOREM TypeCorrect == Spec => []TypeOK
BY Invariance, PTL DEF Inv

(***************************************************************************)
(* The vector is what the caller put in and the results so far, in order,  *)
(* also after create() threw half way.                                     *)
(***************************************************************************)
THEOREM InOrder == Spec => []AddedInOrder
BY Invariance, PTL DEF Inv

(***************************************************************************)
(* A call that returns has added all results, or max when there are more.  *)
(***************************************************************************)
THEOREM MaxKept == Spec => []AllUpToMax
BY Invariance, PTL DEF Inv

(***************************************************************************)
(* The one-address call gives the first match, so its at(0) is safe.       *)
(***************************************************************************)
THEOREM FirstMatch == Spec => []FirstMatchGiven
BY Invariance, PTL DEF Inv

(***************************************************************************)
(* The text of an IPv4 address is that of the address found, and survives  *)
(* being made again from the structure.                                    *)
(***************************************************************************)
THEOREM Inet4Texts == Spec => []Inet4Faithful
<1>1. Inv => Inet4Faithful
  <2> SUFFICES ASSUME Inv PROVE Inet4Faithful
    OBVIOUS
  <2>1. ASSUME NEW i \in 1..count, results[i].family = "PF_INET"
        PROVE  created[Len(before) + i].actual = <<results[i].words[1]>>
    BY <2>1, TextOfAdded
  <2>2. ASSUME NEW i \in 1..Len(created), created[i].domain = "INET4", NEW w \in Words
        PROVE  Remade(created[i], w).actual = created[i].actual
    BY <2>2, TextOfRemade DEF Inv, TypeOK
  <2> QED
    BY <2>1, <2>2 DEF Inet4Faithful
<1> QED
  BY <1>1, Invariance, PTL
=============================================================================
