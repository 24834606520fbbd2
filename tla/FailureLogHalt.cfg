CONSTANTS
  Tasks = {t1}
  BootHook = boot
  MaxFailures = 6
  HaltOnAssert = TRUE
  Noise = {3}
  WORD = 16
SPECIFICATION FairSpec
INVARIANTS
  DumpInOrder
