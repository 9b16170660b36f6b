CONSTANTS
  g1 = g1  g2 = g2
  Gateway = {g1, g2}
  First = g1
  Nobody = Nobody
  MaxEpoch = 4
  Faults = {"savefail", "restart"}
SPECIFICATION FairSpec
CHECK_DEADLOCK FALSE
INVARIANTS NotBothActive AnsweredStays Settled
PROPERTIES RoleTakesEffect MastershipHolds
