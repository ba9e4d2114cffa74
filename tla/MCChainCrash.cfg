SPECIFICATION Spec
CONSTANTS
  Genesis = "G"
  Block <- MCBlock
  None = None
  Parent <- MCParent
  Height <- MCHeight
  Difficulty <- MCDifficulty
  Timestamp <- MCTimestamp
  Signer <- MCSigner
  TxsOf <- MCTxsOf
  Minted <- MCMinted
  Tx <- MCTx
  TxIn <- MCTxIn
  TxOut <- MCTxOut
  Outpoint <- MCOutpoint
  Kind <- MCKind
  Owner <- MCOwner
  Validator = {1, 2, 3}
  GenesisValidators = {1, 2}
  InitialDifficulty = 1
  AdjustInterval = 2
  TargetBlockTime = 2
  Word = 16
  CoinbaseMaturity = 2
  UnstakeCooldown = 2
  MaxSupply = 6
  BlockSubsidy <- MCSubsidy
  MaxSubChains = 1
  MaxReorgDepth = 3
  Path <- MCPath
  UtxoAt <- MCUtxoAt
  SupplyAt <- MCSupplyAt
  WorkAt <- MCWorkAt
  Rows <- CrashRows
  RuleOK <- MCBlock
  Engine = "PoA"
  StartTip = "G"
INVARIANTS
  DatabaseMatchesMemory
  ValidatorsMatchStakes
PROPERTIES
  StepsOfLedger
CHECK_DEADLOCK FALSE
