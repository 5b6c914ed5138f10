\* The function returns once.
SPECIFICATION Spec
CONSTANTS
  SsidLens = {1, 32}
  KeyLens = {0, 1, 5, 13, 15, 16, 30, 31, 32}
  AesKeys <- MCAesKeys
  Memories <- MCMemories
  Disturbed <- MCDisturbed
CHECK_DEADLOCK FALSE
INVARIANTS ProfileFromField RoundsAreStandard
