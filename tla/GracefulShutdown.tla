-------------------------- MODULE GracefulShutdown --------------------------
(***************************************************************************)
(* What CommandServer promises about its end, whatever it is a server of:  *)
(* one acceptor takes on workers; anyone can be committed to one piece of  *)
(* work; once a stop is requested nobody commits to more; the server is    *)
(* over only when every worker has finished.                               *)
(***************************************************************************)
CONSTANTS
  Workers,
  Acceptor    \* not one of them

VARIABLES
  stop,       \* a stop has been requested
  working,    \* workers taken on and not finished
  committed,  \* who has decided to take one more piece of work
  over

vars == <<stop, working, committed, over>>

Init ==
  /\ stop = FALSE
  /\ working = {}
  /\ committed = {}
  /\ over = FALSE

Commit(p) ==
  /\ p \in working \cup {Acceptor}
  /\ ~stop /\ ~over
  /\ committed' = committed \cup {p}
  /\ UNCHANGED <<stop, working, over>>

\* The acceptor's work is to take on one more worker, or to fail to.
TakeOn(w) ==
  /\ Acceptor \in committed /\ w \notin working
  /\ working' = working \cup {w}
  /\ committed' = committed \ {Acceptor}
  /\ UNCHANGED <<stop, over>>

Complete(p) ==
  /\ p \in committed
  /\ committed' = committed \ {p}
  /\ UNCHANGED <<stop, working, over>>

\* A worker's work can be to request the stop.
Request(w) ==
  /\ w \in committed \cap Workers
  /\ stop' = TRUE
  /\ committed' = committed \ {w}
  /\ UNCHANGED <<working, over>>

Finish(w) ==
  /\ w \in working
  /\ working' = working \ {w}
  /\ committed' = committed \ {w}
  /\ UNCHANGED <<stop, over>>

End ==
  /\ working = {} /\ Acceptor \notin committed
  /\ over' = TRUE
  /\ UNCHANGED <<stop, working, committed>>

Next ==
  \/ \E p \in Workers \cup {Acceptor} : Commit(p) \/ Complete(p)
  \/ \E w \in Workers : TakeOn(w) \/ Request(w) \/ Finish(w)
  \/ End

Spec == Init /\ [][Next]_vars
=============================================================================
