SPECIFICATION DrainedSpec
CONSTANTS
  Clients = {c1}
  Server = server
  Typed = {"text"}
  InboxCap = 1
  OutboxCap = 3
  Faults = FALSE
CHECK_DEADLOCK FALSE
PROPERTY ClosedPeerReleased
