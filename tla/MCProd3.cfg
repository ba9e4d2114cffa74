SPECIFICATION FairSpec
CONSTANTS
  SuspensionWindow = 4
  MinActiveValidators = 1
  Word = 4096
  Validators = {0, 1, 2}
  Cycle = 6
  MayFail = {0, 1, 2}
  Observers = FALSE
INVARIANTS
  SomeoneMaySign
  ActiveRemain
PROPERTIES
  ChainGrows
  RotationResumes
