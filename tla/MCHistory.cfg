SPECIFICATION Spec
CONSTANTS
  Client = {c1}
  Mine = {"a", "b"}
  Tx <- Txs
  Block <- MCBlocks
  MaxHeight = 3
  MaxReorgs = 1
  MaxCrashes = 1
CHECK_DEADLOCK FALSE
INVARIANTS
  StableHistory
  HistoryExplainsBalance
