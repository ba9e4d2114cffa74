SPECIFICATION Spec
CONSTANTS
  Genesis = "G"
  Block <- MCBlock
  None = None
  Parent <- MCParent
  Height <- MCHeight
  Difficulty <- MCDifficulty
  Timestamp <- MCTimestamp
  Signer <- MCSigner
  TxsOf <- MCTxsOf
  Minted <- MCMinted
  Tx <- MCTx
  TxIn <- MCTxIn
  TxOut <- MCTxOut
  Outpoint <- MCOutpoint
  Kind <- MCKind
  Owner <- MCOwner
  Validator = {1, 2, 3}
  GenesisValidators = {1, 2}
  InitialDifficulty = 1
  AdjustInterval = 2
  TargetBlockTime = 2
  Word = 16
  CoinbaseMaturity = 2
  UnstakeCooldown = 2
  MaxSupply = 6
  BlockSubsidy <- MCSubsidy
  MaxSubChains = 1
  MaxReorgDepth = 4
  Path <- MCPath
  UtxoAt <- MCUtxoAt
  SupplyAt <- MCSupplyAt
  WorkAt <- MCWorkAt
  Rows <- WorkRows
  RuleOK <- MCRuleOK
  Engine = "PoW"
  StartTip = "O1"
PROPERTIES
  HeaviestConsidered
  TipGainsWork
  RecoveryRestoresLedger
CHECK_DEADLOCK FALSE
