SPECIFICATION MCSpec
CONSTANTS
  r1 = r1  r2 = r2
  MaxIds = 6
  MaxMixedIds = 4
  MaxTimedIds = 3
  Records = {r1, r2}
  Sources = {"doc"}
  CommandIds <- MCCommandIds
  Operations = {"purge"}
  Checkpoints = {"c1"}
  ConcreteOrigins = {"document"}
  Instants = {0, 1}
  Starts = {}
  Deadlines = {1}
  Revisions <- MCRevisions
  TicksPerSecond = 1
  ActiveReadLimit = 2
  Rank <- MCRank
  NoRecord = NoRecord
  Unset = Unset
SYMMETRY MCSymmetry
INVARIANTS
  HistoryExplainsRows NothingOutlivesErasure RelationsAreSound CheckpointsAreCurrent
PROPERTIES
  RetriesChangeNothing ImplementsLifecycle ExpiryIsExact
CHECK_DEADLOCK FALSE
