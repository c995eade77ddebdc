SPECIFICATION Spec
CONSTANTS
  Clients = {c1}
  Server = server
  Typed = {"terminate", "text"}
  InboxCap = 2
  OutboxCap = 3
  Faults = FALSE
CHECK_DEADLOCK FALSE
PROPERTY TerminateHonoured
