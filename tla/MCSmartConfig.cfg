\* The program may have made all its calls.
SPECIFICATION FairSpec
CONSTANTS
  MaxCalls = 3
  MaxLosses = 2
  MaxEvents = 4
CHECK_DEADLOCK FALSE
INVARIANTS LeaseNeedsLink
PROPERTIES StartsDisconnected SuccessHasProfile CallEnds
