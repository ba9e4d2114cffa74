SPECIFICATION FairSpec
CONSTANTS
  seed = seed
  p = p
  NoPeer = NoPeer
  Peers = {seed, p}
  Seeds = {seed}
  Strangers = {seed, p}
  Faulty = {seed, p}
  BanThreshold = 2
  PenaltyInvalidBlock = 1
  PenaltyInvalidTx = 1
  PenaltyHandshakeFail = 2
  RetryTarget = 1
  MaxPeers = 1
  MaxPersisted = 1
  MaxMoves = 2
INVARIANTS
  ForgottenIsDeleted
PROPERTIES
  BannedStayOut
  SeedsRetried
