CONSTANTS
  Tasks = {t1}
  BootHook = boot
  MaxFailures = 2
  HaltOnAssert = FALSE
  Noise = {1}
  WORD = 16
SPECIFICATION Spec
INVARIANT MagicMeansValid
