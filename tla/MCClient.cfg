SPECIFICATION FairSpec
CONSTANTS
  BUFFER_SIZE = 64
  Half = 50
  FeedIds = {0, 9, 10, 60}
  ValueLens = {0, 63, 64}
  CharMax = 1
  Room <- MCRoom
  Code <- MCCode
  MaxSize = 2
  Instances <- MCInstances
  Polled <- MCPolled
  MaxLate = 2
INVARIANTS ReadInv OnlyWhatCame InTimeServed NoSocketLeft
PROPERTY CallEnds
