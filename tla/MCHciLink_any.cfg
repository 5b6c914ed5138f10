CONSTANTS
  Unsolicited = {"free", "async", "unknown"}
  MaxUnsol = 3
  ReplyEarly = TRUE
  SendMayFail = TRUE
  QuietPatch = FALSE
SPECIFICATION Spec
INVARIANTS
  TypeOK
  TxExactlyOnce
  NoPhantomRead
PROPERTIES
  AnswerNotOverwritten
CHECK_DEADLOCK FALSE
