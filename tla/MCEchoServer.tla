----------------------------- MODULE MCEchoServer -----------------------------
(***************************************************************************)
(* The connections of EchoServer for TLC.                                  *)
(***************************************************************************)
EXTENDS EchoServer

MCEnds == Clients \X {"near", "far"}
MCPeer == [e \in MCEnds |-> <<e[1], IF e[2] = "near" THEN "far" ELSE "near">>]
MCNear == [c \in Clients |-> <<c, "near">>]
MCFar == [c \in Clients |-> <<c, "far">>]

\* A client types two pieces; a handler can say all it has to say.
MCMaxSent == [e \in MCEnds |-> IF e[2] = "far" THEN 2 ELSE 5]
=============================================================================
