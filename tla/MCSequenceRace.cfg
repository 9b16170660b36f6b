CONSTANTS
  s1 = s1  s2 = s2  s3 = s3  d1 = d1  d2 = d2  None = None
  Sequence = {s1, s2, s3}
  Device = {d1, d2}
  Steps <- StepsOf
  OnAbort <- OnAbortOf
  Caller = {http, mqtt}
  Faults = {"eval"}
  MaxRuns = 2
SPECIFICATION Spec
CHECK_DEADLOCK FALSE
INVARIANTS OneAtATime

