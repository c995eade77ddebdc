SPECIFICATION Spec
CONSTANTS
  LenModulus <- MCLenModulus
  PeerLens <- ShortPeers
  Domain <- MCDomain
  GarbageLens <- PlentyLen
  Threads = {"main", "t1"}
  InitialThreads = {"main"}
  Fds = {f1, f2}
  Endpoints = {e1, e2, e3}
  Objects = {o1, o2, o3}
  Addresses = {"v6"}
  Backlog = 1
  MaxHeld = 2
  SpawnMayFail = FALSE
  NoFd = NoFd
  NoEndpoint = NoEndpoint
  NoObject = NoObject
  NoThread = "nobody"
  NoAddress = "none"
SYMMETRY Symmetry
CHECK_DEADLOCK FALSE
INVARIANT FreeAddressBindable
