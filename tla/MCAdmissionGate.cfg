SPECIFICATION MCSpec
CONSTANTS
  r1 = r1
  g1 = g1  g2 = g2
  k1 = k1  k2 = k2
  MaxRevision = 3
  MaxIncarnation = 1
  MaxReviews = 2
  Gates = {g1, g2}
  GateOrigin <- MCGateOrigin
  Calls = {k1, k2}
  Records = {r1}
  Sources = {"doc"}
  CommandIds <- MCCommandIds
  Operations = {}
  Checkpoints = {}
  ConcreteOrigins = {"document"}
  Instants = {0, 1}
  Starts = {}
  Deadlines = {1}
  Revisions <- MCRevisions
  TicksPerSecond = 1
  ActiveReadLimit = 1
  Rank <- MCRank
  NoRecord = NoRecord
  Unset = Unset
SYMMETRY MCSymmetry
INVARIANT OneVerdictPerRecord
PROPERTIES StaleGatesDecideNothing NeverAdmittedLate
CHECK_DEADLOCK FALSE
