CONSTANTS
  limit = limit  guard = guard  None = None
  Rule = {limit, guard}
  Prio <- Layers
  Signals <- Asks
  Combine = "priority"
  Value = {0, 1}
  Off = 0
  Safe = 0
  MaxMoves = 3
  Faults = {"fail"}
SPECIFICATION FairSpec
CHECK_DEADLOCK FALSE
INVARIANTS CommandStands WantKept
PROPERTIES Converges ProtectionKept ReleasedStays
