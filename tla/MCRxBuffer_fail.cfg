CONSTANTS
  Conns = {1, 2}
  Length = 3
  BUFFER_SIZE = 2
  ByteMod = 6
  NotConnected = 2
  LineSizes = {2}
  Careful = TRUE
SPECIFICATION Spec
PROPERTIES
  FailureIsNoData
