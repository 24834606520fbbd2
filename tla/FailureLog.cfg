CONSTANTS
  Tasks = {t1}
  BootHook = boot
  MaxFailures = 6
  HaltOnAssert = FALSE
  Noise = {3}
  WORD = 16
SPECIFICATION FairSpec
INVARIANTS
  TypeOK
  RecentKept
  DumpInOrder
  DifferenceNeverWraps
PROPERTIES
  BootReportsAll
  PrintedOnce
  AssertionReported
