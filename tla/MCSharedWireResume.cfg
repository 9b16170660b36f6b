CONSTANTS
  a = a  b = b  Writer = Writer  None = None
  Unit = {a, b}
  Retries = 1
  WedgedAt = 2
  Slots = 1
  MaxTroubles = 3
SPECIFICATION Spec
CHECK_DEADLOCK FALSE
PROPERTIES SiblingsStay
