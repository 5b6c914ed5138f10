\* The sketch ends in a loop that does nothing.
SPECIFICATION FairSpec
CONSTANT MaxFaults = 4
CHECK_DEADLOCK FALSE
INVARIANTS PatchesComplete MacKept RmKept
PROPERTIES WrittenBare UpgradeEnds
