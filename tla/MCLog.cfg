SPECIFICATION Spec
CONSTANTS
  TR_MAX_SEQNO = 16
  TR_VALID_RANGE = 3
  U16 = 20
  TR_FLASH_PKTS_PER_CON = 4
  MaxWrites = 21
INVARIANTS
  RangeReadable
PROPERTIES
  NeverOverwrites
  LogIsFreed
CHECK_DEADLOCK FALSE
