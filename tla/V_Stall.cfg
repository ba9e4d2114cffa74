SPECIFICATION FairSpec
CONSTANTS
  SuspensionWindow = 4
  MinActiveValidators = 1
  Word = 4096
  Validators = {0, 1}
  Cycle = 2
  MayFail = {1}
  Observers = TRUE
PROPERTIES
  NeverStalls
