SPECIFICATION Spec
CONSTANTS
  Families = {"PF_INET", "PF_INET6", "PF_LOCAL"}
  Words <- MCWords
  Lists <- MCLists
  Maxes = {0, 1, 2, 3}
  VectorCap = 4
INVARIANTS TypeOK AddedInOrder AllUpToMax FirstMatchGiven Inet4Faithful
