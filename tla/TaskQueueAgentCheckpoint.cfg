SPECIFICATION Spec
CONSTANTS
  r1 = r1
  r2 = r2
  t1 = t1
  m1 = m1
  m2 = m2
  Runs = {r1}
  Tasks = {t1}
  DocumentTasks = {}
  Msgs = {m1}
  Target <- SingleTarget
  TaskVersion <- OneTaskVersion
  MaxAttempts = 2
  MaxVersion = 2
  MaxCheckpoints = 1
  MaxFaults = 0
  SkewedClock = FALSE
PROPERTIES CheckpointsAccepted
