CONSTANTS
  k1 = k1  k2 = k2  None = None  Stopper = stopper  low = low  high = high
  Key = {k1, k2}
  Safe = {low}
  Kind <- KindOf
  Faults = {"fail", "crash", "stop", "rule", "standby"}
  MaxWrites = 2
  MaxEnds = 1
SPECIFICATION FairSpec
CHECK_DEADLOCK FALSE
INVARIANTS LeasedIsGuarded RevertIsCurrent DiskHasTheLeases
PROPERTIES DeadManKept LeasedEnds
