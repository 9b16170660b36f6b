CONSTANTS
  w1 = w1  w2 = w2  d1 = d1  d2 = d2  c1 = c1  set = set  run = run  t1 = t1  t2 = t2
  None = None
  Lane = {w1, w2}
  Device = {d1, d2}
  LaneOf <- TwoLanes
  Channel = {c1}
  Intent = {set, run}
  Thread = {t1, t2}
  Ask <- TwoWiresAsk
  SlotCap = 2
  MaxJobs = 2
SPECIFICATION SlowWireSpec
PROPERTIES OtherWireServed OtherLaneEnds
CHECK_DEADLOCK FALSE
