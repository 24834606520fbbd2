CONSTANTS
  Chosen = {"sta_connect", "iperf", "dual_if", "sta_reboot", "scan", "softap"}
  N_REPEATS = 3
SPECIFICATION FairSpec
INVARIANTS
  EarlySemaphoreExists
  FirstTxAfterConnected
PROPERTIES
  Ends
CHECK_DEADLOCK FALSE
