CONSTANTS
  a = a  b = b  Writer = Writer  None = None
  Unit = {a, b}
  Retries = 2
  WedgedAt = 2
  Slots = 2
  MaxTroubles = 2
SPECIFICATION FairSpec
CHECK_DEADLOCK FALSE
INVARIANTS OneAtATime SocketStays ClaimsCounted OneSweeper
PROPERTIES ReadsComeBack
