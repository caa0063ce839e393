SPECIFICATION Spec
CONSTANTS
  Clients = {c1}
  Cost = 1
  Burst = 3
  IdleTTL = 1
  MaxClock = 5
  Calls = {r1}
  Objects = {o1, o2, o3}
  Scores = {1, 2}
  Threshold = 2
  DefaultSearchLimit = 2
  MaxSearchLimit = 3
  K = 60
  Scale <- MCScale
SYMMETRY Symmetry
INVARIANTS
  AdmissionsStayWithinRate
  AnswersKeepTheConsensus
