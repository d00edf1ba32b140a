SPECIFICATION ExpirySpec
CONSTANTS
  r1 = r1  r2 = r2
  e1 = e1  e2 = e2  e3 = e3
  Records = {r1}
  Sources = {"doc"}
  CommandIds = {e1, e2, e3}
  Operations = {}
  Checkpoints = {}
  ConcreteOrigins = {}
  Instants = {0, 1, 2}
  Starts = {}
  Deadlines = {1}
  Revisions = {1, 2}
  TicksPerSecond = 2
  ActiveReadLimit = 2
  Rank <- MCRank
  NoRecord = NoRecord
  Unset = Unset
SYMMETRY MCSymmetry
PROPERTIES NeverExpiresEarly
CHECK_DEADLOCK FALSE
