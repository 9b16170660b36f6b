CONSTANTS
  w1 = w1  w2 = w2  d1 = d1  d2 = d2  c1 = c1  set = set  run = run  t1 = t1  t2 = t2
  None = None
  Lane = {w1}
  Device = {d1, d2}
  LaneOf <- OneLane
  Channel = {c1}
  Intent = {set, run}
  Thread = {t1, t2}
  Ask <- MixedAsk
  SlotCap = 2
  MaxJobs = 3
SPECIFICATION Spec
SYMMETRY AnyThread
INVARIANTS OneRunner NothingWritten NewerNeverFirst WorkHasThread RevertOnlyCancelled FairTurns
PROPERTIES PromiseKept
CHECK_DEADLOCK FALSE
