\* A late character in the headers is enough.
SPECIFICATION Spec
CONSTANTS
  BUFFER_SIZE = 64
  Half = 50
  FeedIds = {9}
  ValueLens = {1}
  CharMax = 127
  Room <- FullRoom
  Code <- MCCode
  MaxSize = 1
  Instances <- MCInstance
  Polled <- MCPolled
  MaxLate = 1
INVARIANT StoredInPlace
