SPECIFICATION FairSpec
CONSTANTS
  Ends = {"a", "b"}
  Peer <- MCPeer
  Room = 2
  MaxSent <- MCMaxSent
  Lengths = {1, 3}
  Times <- MCTimes
  WantSets <- MCWantSets
  Interrupts = TRUE
CHECK_DEADLOCK FALSE
INVARIANTS TypeOK InOrder SendsAddUp ZeroIsTheEnd ReadyStays WaitsAsAsked
PROPERTIES TimedWaitEnds WokenToRead SendWaitsForReader
