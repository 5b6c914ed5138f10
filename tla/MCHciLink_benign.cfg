CONSTANTS
  Unsolicited = {"free", "async"}
  MaxUnsol = 3
  ReplyEarly = FALSE
  SendMayFail = FALSE
  QuietPatch = TRUE
SPECIFICATION FairSpec
INVARIANTS
  WaitHasCause
PROPERTIES
  EveryCallReturns
  UnsolicitedRead
