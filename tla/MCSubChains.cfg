SPECIFICATION FairSpec
CONSTANTS
  a = a
  b = b
  Chains = {a, b}
  MaxPerParent = 2
  Mined = {a}
  Modes = {TRUE, FALSE}
  Filters = {{a, b}, {b}}
  MaxInstances = 2
  MaxHeight = 1
  Growing = {a}
INVARIANTS
  OneMiner
  TipsAgree
  NothingLeft
  RegistryAgrees
PROPERTIES
  MinerComesUp
