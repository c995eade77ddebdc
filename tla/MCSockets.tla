------------------------------ MODULE MCSockets ------------------------------
(***************************************************************************)
(* Values of the constants of Sockets for TLC.                             *)
(***************************************************************************)
EXTENDS Sockets, TLC

\* Addresses are named by what they are; v4 is an IPv4 address, and so on.
MCDomain == [a \in Addresses |-> CASE a = "v4" -> "INET4" [] a = "v6" -> "INET6"
                                   [] OTHER -> "LOCAL"]

\* A 16-bit socklen_t; the lengths used are far from its middle.
MCLenModulus == 65536

(***************************************************************************)
(* What the kernel can report for a peer: an unnamed local peer has just a *)
(* family; a path of 108 bytes without a NUL makes 111.                    *)
(***************************************************************************)
ShortPeers == [d \in Domains |-> CASE d = "INET4" -> {16} [] d = "INET6" -> {16}
                                   [] OTHER -> {2}]
AllPeers == [d \in Domains |-> CASE d = "INET4" -> {16} [] d = "INET6" -> {28}
                                 [] OTHER -> {2, 111}]

\* What the uninitialised `len' can hold: nothing, something, plenty, minus one.
AnyLen == {0, 300, 65535}
PlentyLen == {300}

Symmetry == Permutations(Fds) \cup Permutations(Objects) \cup Permutations(Endpoints)
=============================================================================
