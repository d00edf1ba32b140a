SPECIFICATION FairSpec
CONSTANTS
  c1 = c1  c2 = c2  d1 = d1
  Chats = {c1, c2}
  Deletes = {d1}
  Entries = {1, 2, 3}
  QueueMax = 1
  MaxTokens = 1
  ClientsLeave = TRUE
  None = None
INVARIANTS TurnsAreExclusive TranscriptIsSound
PROPERTIES DeletionIsFinal TurnsAndWaitsEnd
CHECK_DEADLOCK FALSE
