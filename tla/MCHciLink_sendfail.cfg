CONSTANTS
  Unsolicited = {"free"}
  MaxUnsol = 1
  ReplyEarly = FALSE
  SendMayFail = TRUE
  QuietPatch = TRUE
SPECIFICATION FairSpec
PROPERTIES
  SendReturns
CHECK_DEADLOCK FALSE
