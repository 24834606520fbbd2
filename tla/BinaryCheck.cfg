CONSTANTS
  Files <- AllFiles
  MAX_TLVS = 3
  FIELD_TYPE_MAGIC = 1
  FIELD_TYPE_EOF = 2
  MagicNumber <- Magics
SPECIFICATION BSpec
INVARIANTS
  VerdictRight
CHECK_DEADLOCK FALSE
