SPECIFICATION Spec
CONSTANTS
  LenModulus <- MCLenModulus
  PeerLens <- AllPeers
  Domain <- MCDomain
  GarbageLens <- AnyLen
  Threads = {"main", "t1"}
  InitialThreads = {"main"}
  Fds = {f1, f2, f3}
  Endpoints = {e1, e2, e3, e4}
  Objects = {o1, o2, o3}
  Addresses = {"path"}
  Backlog = 1
  MaxHeld = 2
  SpawnMayFail = TRUE
  NoFd = NoFd
  NoEndpoint = NoEndpoint
  NoObject = NoObject
  NoThread = "nobody"
  NoAddress = "none"
SYMMETRY Symmetry
CHECK_DEADLOCK FALSE
INVARIANTS TypeOK OneOwner HandlesValid OpenDelivers UnnamedPeerTaken
