SPECIFICATION Spec
CONSTANTS
  r1 = r1
  r2 = r2
  Slot = {r1, r2}
  Request <- MCRequest
  Chain = {"root", "sub"}
  Other = Other
  Genesis <- MCGenesis
  Stake = 20
  Burn = 9
  GapLimit = 2
  Word = 256
  MaxTokenAmount = 100
  MaxIndex = 2
  MaxTx = 2
  MaxMishap = 1
INVARIANTS
  PaysExactly
  ChangeTracked
  GapsBounded
PROPERTIES
  RescanRecovers
SYMMETRY Symm
CHECK_DEADLOCK FALSE
