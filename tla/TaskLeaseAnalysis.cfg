SPECIFICATION FairSpec
CONSTANTS
  w1 = w1
  w2 = w2
  t1 = t1
  t2 = t2
  t3 = t3
  Worker = {w1, w2}
  TaskId = {t1, t2, t3}
  NoTask = NoTask
  Waiting = "queued"
  Active = "processing"
  Done = "completed"
  Failed = "failed"
  Startable <- AnalysisStartable
  Billed = TRUE
  MaxFaults = 2
INVARIANTS ChargedIffDone
PROPERTIES IsLeasedTask ReservationSettles
CHECK_DEADLOCK FALSE
