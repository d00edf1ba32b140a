SPECIFICATION MCSpec
CONSTANTS
  r1 = r1  r2 = r2
  MaxRevision = 3
  MaxCommands = 4
  MaxTimedCommands = 4
  MaxComposed = 4
  Planners = {"p"}
  RequireAudit = TRUE
  Records = {r1, r2}
  Sources = {"doc"}
  CommandIds <- MCCommandIds
  Operations = {}
  Checkpoints = {"c1"}
  ConcreteOrigins = {"document"}
  Instants = {0, 1}
  Starts = {}
  Deadlines = {1}
  Revisions <- MCRevisions
  TicksPerSecond = 1
  ActiveReadLimit = 1
  Rank <- MCRank
  NoRecord = NoRecord
  Unset = Unset
INVARIANT ComposedIsCurrent
PROPERTIES
  RetiredIsNeverUsed NothingEndedIsReturned RefusalHasACause
CHECK_DEADLOCK FALSE
