CONSTANTS
  power = power  energy = energy  first = first  second = second  own = own
  t1 = t1  t2 = t2
  None = None  Zero = Zero  NA = NA  Gap = Gap
  Row = {power, energy}
  Source = {first, second, own}
  Thread = {t1, t2}
  Pinned = {energy}
  Policies = {"legacy", "hold"}
  Bound = 1
  Hold = 1
  GiveUp = 2
  RetryWait = 3
  LongNap = 2
  ProbeLimit = 2
  Old = 5
  MaxTroubles = 1
  Feeds <- MCFeeds
SPECIFICATION FairSpec
CHECK_DEADLOCK FALSE
INVARIANTS ServedInTime NeverInvented
PROPERTIES ComesBack
