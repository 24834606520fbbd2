CONSTANTS
  Files <- SomeFiles
  MAX_TLVS = 3
  FIELD_TYPE_MAGIC = 1
  FIELD_TYPE_EOF = 2
  MagicNumber <- Magics
  MaxFaults = 2
  WaitTime = 3
SPECIFICATION Spec
INVARIANTS
  PassIsEarned
  GoodPlatformPasses
  CleanBetweenSteps
  UsedWhenReady
CHECK_DEADLOCK FALSE
