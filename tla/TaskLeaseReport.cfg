SPECIFICATION FairSpec
CONSTANTS
  w1 = w1
  w2 = w2
  t1 = t1
  t2 = t2
  t3 = t3
  Worker = {w1, w2}
  TaskId = {t1, t2, t3}
  NoTask = NoTask
  Waiting = "processing"
  Active = "processing"
  Done = "ready"
  Failed = "failed"
  Startable <- ReportStartable
  Billed = FALSE
  MaxFaults = 2
PROPERTIES Settles
CHECK_DEADLOCK FALSE
