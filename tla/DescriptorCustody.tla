-------------------------- MODULE DescriptorCustody --------------------------
(***************************************************************************)
(* What the library promises about descriptors, free of addresses, system  *)
(* calls and their outcomes.  A number is given out once at a time.  It is *)
(* a Socket's from the start, or held by calls, which hand it to one       *)
(* another, until a Socket is made of it.  No Socket gives its number      *)
(* away, and nothing but a Socket's end closes it.                         *)
(***************************************************************************)
CONSTANTS
  Fds,
  Sockets,
  Calls,     \* calls and closures, which have a descriptor in a local
  NoFd,
  MayDrop    \* whether a call can forget the descriptor it holds

VARIABLES
  open,      \* the numbers in use
  owned,     \* the number each Socket owns
  held       \* the number each call holds

vars == <<open, owned, held>>

Init ==
  /\ open = {}
  /\ owned = [s \in Sockets |-> NoFd]
  /\ held = [c \in Calls |-> NoFd]

GiveOut(f) == f \in Fds \ open /\ open' = open \cup {f}

\* socket() in a constructor ...
Own(s, f) ==
  /\ owned[s] = NoFd /\ GiveOut(f)
  /\ owned' = [owned EXCEPT ![s] = f]
  /\ UNCHANGED held

\* ... and accept(), or whatever a caller has its own descriptor from.
Hold(c, f) ==
  /\ held[c] = NoFd /\ GiveOut(f)
  /\ held' = [held EXCEPT ![c] = f]
  /\ UNCHANGED owned

HandOn(c, d) ==
  /\ held[c] # NoFd /\ held[d] = NoFd
  /\ held' = [held EXCEPT ![c] = NoFd, ![d] = held[c]]
  /\ UNCHANGED <<open, owned>>

Keep(c, s) ==
  /\ held[c] # NoFd /\ owned[s] = NoFd
  /\ held' = [held EXCEPT ![c] = NoFd]
  /\ owned' = [owned EXCEPT ![s] = held[c]]
  /\ UNCHANGED open

Drop(c) ==
  /\ MayDrop /\ held[c] # NoFd
  /\ held' = [held EXCEPT ![c] = NoFd]
  /\ UNCHANGED <<open, owned>>

Close(S) ==
  /\ open' = open \ {owned[s] : s \in S}
  /\ owned' = [s \in Sockets |-> IF s \in S THEN NoFd ELSE owned[s]]
  /\ UNCHANGED held

Next ==
  \/ \E s \in Sockets, f \in Fds : Own(s, f)
  \/ \E c \in Calls, f \in Fds : Hold(c, f)
  \/ \E c, d \in Calls : HandOn(c, d)
  \/ \E c \in Calls, s \in Sockets : Keep(c, s)
  \/ \E c \in Calls : Drop(c)
  \/ \E S \in SUBSET Sockets : Close(S)

Spec == Init /\ [][Next]_vars
=============================================================================
