----------------------------- MODULE InetResolve -----------------------------
(***************************************************************************)
(* Calls of InetAddress::create(), one after the other: the loop over what *)
(* getaddrinfo() found into the caller's vector, its limit, and the        *)
(* exceptions that leave it half way; and the address that create() makes  *)
(* from a structure, as accept() needs it.                                 *)
(*                                                                         *)
(* A structure is the sequence of its 32-bit words after family and port:  *)
(* a sockaddr_in has the address and two words of zeroes, a sockaddr_in6   *)
(* the flow label, the four words of the address, and the scope.  Memory   *)
(* is not modelled: LoopThrows never frees the list.                       *)
(***************************************************************************)
EXTENDS Naturals, Sequences

CONSTANTS
  Families,  \* address families that getaddrinfo() may report
  Words,     \* 32-bit words
  Lists,     \* result lists that it may return
  Maxes,     \* values of the argument `max'; 0 is no limit
  VectorCap  \* bound: a vector this long is not passed to another call

Result == [family : Families, words : Seq(Words)]

ASSUME InputsAssumption ==
  /\ Lists \subseteq Seq(Result)
  /\ \A list \in Lists : \A i \in 1..Len(list) :
       /\ list[i].family = "PF_INET" => Len(list[i].words) = 3
       /\ list[i].family = "PF_INET6" => Len(list[i].words) = 6
  /\ Maxes \subseteq Nat /\ VectorCap \in Nat

\* `actual' is what the text of getActualAddress() is made from.
InetAddress == [domain : {"INET4", "INET6"}, stored : Seq(Words), actual : Seq(Words)]

VARIABLES
  pc,
  overload, \* which create() was called: into a vector, or for one address
  max,
  results,  \* what getaddrinfo() returned
  count,
  before,   \* the vector when the call was made
  created,  \* the vector; the one-address call has one of its own
  given     \* the address returned, if any, in a sequence

vars == <<pc, overload, max, results, count, before, created, given>>

Overloads == {"vector", "one"}
Places == {"idle", "resolving", "loop", "returned", "threw"}

TypeOK ==
  /\ pc \in Places /\ overload \in Overloads
  /\ max \in Nat /\ count \in Nat
  /\ results \in Seq(Result)
  /\ before \in Seq(InetAddress) /\ created \in Seq(InetAddress)
  /\ given \in Seq(InetAddress)
-----------------------------------------------------------------------------
\* It throws for a family outside of its map.
lowLevelToSocketDomain ==
  [f \in {"PF_INET", "PF_INET6", "PF_LOCAL", "PF_ROUTE", "PF_KEY"} |->
     CASE f = "PF_INET" -> "INET4" [] f = "PF_INET6" -> "INET6"
       [] f = "PF_LOCAL" -> "LOCAL" [] f = "PF_ROUTE" -> "ROUTE" [] OTHER -> "KEY"]

\* Mutant: what the conversion knows is taken.
TakenAny(f) == f \in DOMAIN lowLevelToSocketDomain

Taken(f) == /\ f \in DOMAIN lowLevelToSocketDomain
            /\ lowLevelToSocketDomain[f] \in {"INET4", "INET6"}

\* Mutant: sin6_addr is read for both, behind the flow label.
parseAddressBehindFlow(domain, words) ==
  SubSeq(words, 2, IF domain = "INET4" THEN 2 ELSE 5)

\* inet_ntop() at sin_addr reads one word, or four for INET6.
parseAddress(domain, words) == SubSeq(words, 1, IF domain = "INET4" THEN 1 ELSE 4)

\* The pimpl's copy has the size of a sockaddr_in, whatever the family.
InetAddressPimpl(domain, words) ==
  [stored |-> SubSeq(words, 1, 3), actual |-> parseAddress(domain, words)]

MakeAddress(domain, pimpl) ==
  [domain |-> domain, stored |-> pimpl.stored, actual |-> pimpl.actual]

FromResult(r) ==
  LET d == lowLevelToSocketDomain[r.family]
  IN MakeAddress(d, InetAddressPimpl(d, r.words))

Init ==
  /\ pc = "idle"
  /\ overload = "vector" /\ max = 0 /\ results = <<>> /\ count = 0
  /\ before = <<>> /\ created = <<>> /\ given = <<>>

Call(o, m, vector) ==
  /\ pc \in {"idle", "returned", "threw"}
  /\ overload' = o /\ max' = m
  /\ before' = vector /\ created' = vector
  /\ results' = <<>> /\ count' = 0 /\ given' = <<>>
  /\ pc' = "resolving"

\* The caller goes on with the vector of its last call, or takes an empty one.
CreateAll(m) ==
  \/ Call("vector", m, <<>>)
  \/ overload = "vector" /\ Len(created) < VectorCap /\ Call("vector", m, created)

\* Mutant: `found' is static and keeps what the last call put there.
CreateOneStatic == Call("one", 1, created)

CreateOne == Call("one", 1, <<>>)

\* getaddrinfo() fails, or succeeds with nothing.
ResolveFails ==
  /\ pc = "resolving"
  /\ pc' = "threw"
  /\ UNCHANGED <<overload, max, results, count, before, created, given>>

Resolve ==
  /\ pc = "resolving"
  /\ results' \in Lists \ {<<>>}
  /\ pc' = "loop"
  /\ UNCHANGED <<overload, max, count, before, created, given>>

\* Mutant: the limit is on the vector and not on what the call adds.
GoesOnBySize == count < Len(results) /\ (max = 0 \/ Len(created) < max)

GoesOn == count < Len(results) /\ (max = 0 \/ count < max)

\* Mutant: the vector is filled from its beginning.
AddResultInPlace ==
  /\ pc = "loop" /\ GoesOn /\ Taken(results[count + 1].family)
  /\ created' = IF count < Len(created)
                THEN [created EXCEPT ![count + 1] = FromResult(results[count + 1])]
                ELSE Append(created, FromResult(results[count + 1]))
  /\ count' = count + 1
  /\ UNCHANGED <<pc, overload, max, results, before, given>>

AddResult ==
  /\ pc = "loop" /\ GoesOn /\ Taken(results[count + 1].family)
  /\ created' = Append(created, FromResult(results[count + 1]))
  /\ count' = count + 1
  /\ UNCHANGED <<pc, overload, max, results, before, given>>

\* A family that is not taken, or no memory for an address or in the vector.
LoopThrows ==
  /\ pc = "loop" /\ GoesOn
  /\ pc' = "threw"
  /\ UNCHANGED <<overload, max, results, count, before, created, given>>

Finish ==
  /\ pc = "loop" /\ ~GoesOn
  /\ given' = IF overload = "one" THEN <<created[1]>> ELSE <<>>
  /\ pc' = "returned"
  /\ UNCHANGED <<overload, max, results, count, before, created>>

Next ==
  \/ \E m \in Maxes : CreateAll(m)
  \/ CreateOne
  \/ ResolveFails
  \/ Resolve
  \/ AddResult
  \/ LoopThrows
  \/ Finish

Spec == Init /\ [][Next]_vars
-----------------------------------------------------------------------------
(***************************************************************************)
(* create(LowLevelAddress): the structure is the 16 bytes that another     *)
(* address keeps; reading an INET6 address takes one word more, whatever   *)
(* lies behind it.                                                         *)
(***************************************************************************)
Remade(a, behind) == InetAddressPimpl(a.domain, Append(a.stored, behind))
-----------------------------------------------------------------------------
(***************************************************************************)
(* At every point of a call, also after it threw, the vector is what the   *)
(* caller put in and then the first `count' results in their order: none   *)
(* skipped, repeated or reordered, and none of the caller's lost           *)
(* (InetAddress.cpp:139-154).                                              *)
(***************************************************************************)
AddedInOrder ==
  /\ count <= Len(results)
  /\ created = before \o [i \in 1..count |-> FromResult(results[i])]

(***************************************************************************)
(* A call that returns has added all results, or max of them when there    *)
(* are more: "0 means unlimited matches" (InetAddress.h:60), however long  *)
(* the vector already was.                                                 *)
(***************************************************************************)
AllUpToMax ==
  /\ max # 0 => count <= max
  /\ pc = "returned" => count = Len(results) \/ (max # 0 /\ count = max)

(***************************************************************************)
(* The one-address call gives the first match, which exists: "found.at(0)  *)
(* should be safe" (InetAddress.cpp:163).                                  *)
(***************************************************************************)
FirstMatchGiven ==
  pc = "returned" /\ overload = "one" =>
    results # <<>> /\ given = <<FromResult(results[1])>>

(***************************************************************************)
(* The text of an IPv4 address is made from the word that is the address   *)
(* and nothing else, and an address made again from its structure, as      *)
(* accept() does it, has the same text (InetAddress.cpp:39-50, 206-219).   *)
(***************************************************************************)
Inet4Faithful ==
  /\ \A i \in 1..count : results[i].family = "PF_INET" =>
       created[Len(before) + i].actual = <<results[i].words[1]>>
  /\ \A i \in 1..Len(created) : created[i].domain = "INET4" =>
       \A w \in Words : Remade(created[i], w).actual = created[i].actual
=============================================================================
