---------------------------- MODULE MCInetResolve ----------------------------
(***************************************************************************)
(* Values of the constants of InetResolve for TLC.                         *)
(***************************************************************************)
EXTENDS InetResolve

\* Two hosts, each with a word for IPv4, and a family that is not taken.
MCWords == {0, 1, 2}
V4(host) == [family |-> "PF_INET", words |-> <<host, 0, 0>>]
V6(host) == [family |-> "PF_INET6", words |-> <<0, 0, 0, 0, host, 0>>]
Local == [family |-> "PF_LOCAL", words |-> <<0, 0, 0, 0>>]

MCLists ==
  {<<>>, <<V4(1)>>, <<V4(1), V4(2)>>, <<V6(1), V4(1)>>, <<V4(2), V6(2), V4(1)>>,
   <<V4(1), Local, V4(2)>>}
=============================================================================
