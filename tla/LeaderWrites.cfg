SPECIFICATION FairWritesSpec
CONSTANTS
  n1 = n1
  n2 = n2
  c1 = c1
  None = None
  Node = {n1, n2}
  Config <- Config2
  Stoppable = {n1, n2}
  MaxElections = 2
  MaxOrphans = 1
  Client = {c1}
INVARIANTS
  OneWriterPerTerm
  RedirectsToAWinner
PROPERTIES
  StopCompletes
CHECK_DEADLOCK FALSE
