SPECIFICATION Spec
CONSTANTS
  TR_MAX_SEQNO = 4
  TR_VALID_RANGE = 1
  U16 = 8
  TR_FLASH_PKTS_PER_CON = 2
  Tids = {1, 2, 9}
  U8 = 8
  STR_RLIST_LEN = 2
  STR_MAX_NUM_RETX = 1
  STR_NACK_MLIST_LEN = 2
  MaxRuns = 5
  Scenarios <- MCKeeping
CHECK_DEADLOCK FALSE
INVARIANTS
  LoggedIsFound
PROPERTIES
  SendDoneMeansKept
  AirIsGenuine
