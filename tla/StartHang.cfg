CONSTANTS
  t1 = t1  t2 = t2  c1 = c1  c2 = c2
  Thread = {t1}
  Conn = {c1}
  CloseWakesAccept = FALSE
  Args <- MetricsArgs
  Requests <- SomeRequests
SPECIFICATION FairSpec
PROPERTY FailedStartEnds
CHECK_DEADLOCK FALSE
