SPECIFICATION FairSpec
CONSTANTS
  r1 = r1
  r2 = r2
  t1 = t1
  m1 = m1
  m2 = m2
  Runs = {r1, r2}
  Tasks = {t1}
  DocumentTasks = {t1}
  Msgs = {m1}
  Target <- SingleTarget
  TaskVersion <- OneTaskVersion
  MaxAttempts = 2
  MaxVersion = 2
  MaxCheckpoints = 0
  MaxFaults = 1
  SkewedClock = FALSE
PROPERTIES ImplementsLifecycle LiveLeaseRespected NoStrandedTask EventuallyArchived
