SPECIFICATION Spec
CONSTANTS
  n1 = n1
  n2 = n2
  n3 = n3
  None = None
  Node = {n1, n2, n3}
  Config <- Config3
  Stoppable = {n1, n2, n3}
  MaxElections = 2
  MaxOrphans = 2
INVARIANTS
  TypeOK
  ElectionSafety
  OneVotePerTerm
  ReportedLeaderWonItsTerm
  QuorumCandidateLeads
PROPERTIES
  LeaderDeposedOnlyByNewerTerm
  ImplementsVoting
SYMMETRY Symmetry3
CHECK_DEADLOCK FALSE
