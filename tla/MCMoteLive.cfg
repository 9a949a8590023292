SPECIFICATION FairSpec
CONSTANTS
  TR_MAX_SEQNO = 8
  TR_VALID_RANGE = 1
  U16 = 16
  TR_FLASH_PKTS_PER_CON = 2
  Tids = {1}
  U8 = 8
  STR_RLIST_LEN = 2
  STR_MAX_NUM_RETX = 2
  STR_NACK_MLIST_LEN = 2
  MaxRuns = 2
  Scenarios <- MCAnswering
CHECK_DEADLOCK FALSE
PROPERTIES
  SendIsAnswered
  RequestIsServed
  OpenAndCloseEnd
