SPECIFICATION FairSpec
CONSTANTS
  Node = {1, 2, 3}
  Block <- MCBlock
  Genesis = "G"
  None = None
  Parent <- MCParent
  Height <- MCHeight
  Work <- MCWork
  Path <- MCPath
  Producer <- MCProducer
  Rows <- MidRows
  Restarting = {1}
INVARIANTS
  ServesItsChain
PROPERTIES
  Converges
  OnlyTiesHoldSync
