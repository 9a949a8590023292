SPECIFICATION Spec
CONSTANTS
  TR_MAX_SEQNO = 23
  TR_VALID_RANGE = 5
  U16 = 32
  MaxLead = 4
  MaxPos = 30
INVARIANTS
  CmpFollowsPosition
  DiffGivesLead
CHECK_DEADLOCK FALSE
