CONSTANTS
  Window = 16
  Windows = 3
  Radix = 2
  Word = 2
  Block1 = 4
  Block2 = 8
  Mask = 100000
  Starts = {6, 14, 15}
  Lengths = {0, 2, 3, 4, 20}
  MaxCalls = 2
SPECIFICATION FairSpec
INVARIANTS
  NoCrossing
  KeyholeSet
  ReadDelivers
PROPERTIES
  WritesAsPromised
  Returns
CHECK_DEADLOCK FALSE
