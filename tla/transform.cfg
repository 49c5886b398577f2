SPECIFICATION FairSpec
CONSTANTS
  MaxCalls = 3
  MaxStrays = 2
PROPERTIES OwnAnswer CallReturns ImplementsCall
CHECK_DEADLOCK FALSE
