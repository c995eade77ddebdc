------------------------------ MODULE SockAddr ------------------------------
(***************************************************************************)
(* The address structures that the Address classes hand to the kernel, and *)
(* the decision lowLevelAccept() takes from what the kernel hands back.    *)
(*                                                                         *)
(* An address is reduced to its domain and to lengths in bytes; lengths    *)
(* are what bind(), connect() and accept() look at.                        *)
(***************************************************************************)
EXTENDS Naturals

CONSTANTS
  LenModulus,  \* number of values of a socklen_t; the kernel reads it signed
  PeerLens     \* per domain, the lengths the kernel can report for a peer

Domains == {"INET4", "INET6", "LOCAL"}

(***************************************************************************)
(* The size of the structure an Address wraps, LowLevelAddressType's       *)
(* getSockAddrLen().  InetAddress wraps a sockaddr_in in both domains.     *)
(***************************************************************************)
BufferLen == [d \in Domains |-> IF d = "LOCAL" THEN 110 ELSE 16]

(***************************************************************************)
(* The shortest name bind() and connect() take: sockaddr_in; sockaddr_in6  *)
(* up to the scope id; sun_family and one byte of path.                    *)
(***************************************************************************)
MinNameLen ==
  [d \in Domains |-> CASE d = "INET4" -> 16 [] d = "INET6" -> 24 [] OTHER -> 3]

ASSUME LensAssumption ==
  /\ LenModulus \in Nat \ {0}
  /\ PeerLens \in [Domains -> SUBSET (1..(LenModulus \div 2 - 1))]

Negative(len) == len >= LenModulus \div 2

(***************************************************************************)
(* What accept() writes into a buffer that the caller says has room for    *)
(* len bytes: the name is cut, its full length is reported all the same.   *)
(***************************************************************************)
Copied(len, peerLen) == IF len < peerLen THEN len ELSE peerLen

(***************************************************************************)
(* The family lowLevelAccept() reads back.  The buffer starts zeroed       *)
(* (AF_UNSPEC); an unspecified family becomes the server's.                *)
(***************************************************************************)
FamilyFound(domain, copied) == IF copied = 0 THEN "UNSPEC" ELSE domain

\* Mutant: an unspecified family is passed on.
FamilyAsFound(domain, copied) == FamilyFound(domain, copied)

FamilyAssumed(domain, copied) ==
  IF FamilyFound(domain, copied) = "UNSPEC" THEN domain ELSE FamilyFound(domain, copied)

\* The families Address::create(LowLevelAddress) takes, by class.
InetFamilies == {"INET4", "INET6"}
LocalFamilies == {"LOCAL"}
FamiliesTaken(domain) == IF domain = "LOCAL" THEN LocalFamilies ELSE InetFamilies

(***************************************************************************)
(* lowLevelAccept() after the system call: gotFd says that it returned a   *)
(* descriptor, len is the variable it was given a pointer to.              *)
(***************************************************************************)
AcceptError(domain, gotFd, len, copied) ==
  CASE len > BufferLen[domain] -> "overwrite"
    [] len <= BufferLen[domain] /\ ~gotFd -> "system_error"
    [] OTHER -> IF FamilyAssumed(domain, copied) \in FamiliesTaken(domain)
                  THEN "none" ELSE "invalid_argument"
=============================================================================
