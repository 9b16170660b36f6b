CONSTANTS
  d1 = d1  d2 = d2  None = None
  Device = {d1, d2}
  Source <- Turns
  MaxPoints = 3
  MaxTroubles = 2
  Poison = {2}
  Cap = 2
  Window = 1
  Chunk = 2
  Faults = {"crash", "reconnect", "slow"}
SPECIFICATION FairSpec
CHECK_DEADLOCK FALSE
INVARIANTS Accounted DroppedIsForgotten
PROPERTIES EverySettles
