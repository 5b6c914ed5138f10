CONSTANTS
  Socks = {0, 1}
  Buffers = 3
  CounterMod = 4
SPECIFICATION FairSpec
INVARIANTS
  NoOverrun
  SendNeedsOpen
  CreditsSuffice
PROPERTIES
  CloseDrained
  ShutDownDrained
  DrainEnds
  SendGetsBuffer
