CONSTANTS
  t1 = t1  t2 = t2  c1 = c1  c2 = c2
  Thread = {t1, t2}
  Conn = {c1, c2}
  CloseWakesAccept = TRUE
  Args <- AllArgs
  Requests <- SomeRequests
SPECIFICATION FairSpec
INVARIANTS TypeOK NoUseAfterDestroy RecoveredBeforeUse StatusIsTrue
PROPERTIES FailedStartEnds EveryConnectionEnds
CHECK_DEADLOCK FALSE
