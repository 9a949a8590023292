CONSTANTS
  TP_MAX_ARGS = 7
  PacketSize = 40
  Budgets <- MCBudgets
  Tokens <- MCTokens
  Messages <- MCMessages
SPECIFICATION Spec
INVARIANTS
  SentIsWhatWasWritten
  GoodTaskIsAccepted
  ResponseIsWhole
CHECK_DEADLOCK FALSE
