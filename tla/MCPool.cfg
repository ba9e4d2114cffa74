SPECIFICATION FairSpec
CONSTANTS
  a = a
  b = b
  c = c
  d = d
  None = None
  Tx = {a, b, c, d}
  Outpoint <- MCOutpoint
  Ins <- MCIns
  Outs <- MCOuts
  Rate <- MCRate
  Start <- MCStart
  Coin <- MCCoin
  Allowed = {a, b, c, d}
  MaxSize = 2
  BlockLimit = 2
  CoinbaseMaturity = 2
  Word = 16
  MaxSupply = 2
  Engine = "PoA"
  MaxHeight = 2
  MaxForeign = 1
INVARIANTS
  SpendsAgree
  ConfirmedLeaves
PROPERTIES
  GrowsUnlessStale
  UnforkedSurvive
CHECK_DEADLOCK FALSE
