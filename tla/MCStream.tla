------------------------------- MODULE MCStream -------------------------------
(***************************************************************************)
(* One connection for TLC.                                                 *)
(***************************************************************************)
EXTENDS Stream

MCPeer == [e \in Ends |-> CHOOSE p \in Ends : p # e]

\* More than fits at once one way, a little the other way.
MCMaxSent == [e \in Ends |-> IF e = "a" THEN 3 ELSE 1]

\* One event, the other, and both.
MCWantSets == {{"read"}, {"read", "write", "error"}}

\* For ever to poll() and refused by select(), for ever to select(), more than a second.
MCTimes == {-1, 0, 1500}
=============================================================================
