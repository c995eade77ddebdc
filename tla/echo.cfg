SPECIFICATION EchoFairSpec
CONSTANTS
  Clients = {c1, c2}
  Talkers = {c1}
  Server = server
  Ends <- MCEnds
  Peer <- MCPeer
  Near <- MCNear
  Far <- MCFar
  Room = 2
  MaxSent <- MCMaxSent
  BufferLen = 2
  Lengths = {1, 2}
  Times = {}
  WantSets = {}
  Interrupts = FALSE
  Faults = TRUE
CHECK_DEADLOCK FALSE
INVARIANTS EchoTypeOK EchoedInOrder NoThreadLeft
PROPERTIES QuitEnds QueuedAccepted
