SPECIFICATION FairSpec
CONSTANTS
  Instances = {old, new}
  Nobody = Nobody
  Configs = {c1, c2}
  ConfigsOf <- MCConfigsOf
  MaxChanges = 2
  MaxBuffer = 1
  Unsteady = {old}
  old = old
  new = new
  c1 = c1
  c2 = c2
INVARIANTS SharedLosesNothing CaughtUpShowsNewest
CHECK_DEADLOCK FALSE
PROPERTY LastProcessCatchesUp
