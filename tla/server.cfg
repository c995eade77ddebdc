SPECIFICATION DrainedSpec
CONSTANTS
  Clients = {c1, c2}
  Server = server
  Typed = {"terminate", "quit", "text"}
  InboxCap = 1
  OutboxCap = 1
  Faults = TRUE
CHECK_DEADLOCK FALSE
INVARIANTS TypeOK FlagOutlivesHandlers
PROPERTIES ShutdownIsGraceful TerminateEnds WaitingServed
