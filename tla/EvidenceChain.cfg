SPECIFICATION FairSpec
CONSTANTS
  MaxCrashes = 1
  MaxDisturbances = 2
INVARIANTS ChainTypeOK NormalizedIsReplayed
PROPERTIES ManifestTellsTruth RestartCompletes
CHECK_DEADLOCK FALSE
