CONSTANTS
  a = a  b = b  Writer = Writer  None = None
  Unit = {a}
  Retries = 2
  WedgedAt = 2
  Slots = 2
  MaxTroubles = 2
SPECIFICATION Spec
CHECK_DEADLOCK FALSE
INVARIANTS OneSocket
