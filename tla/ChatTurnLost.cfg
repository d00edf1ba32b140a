SPECIFICATION FairSpec
CONSTANTS
  c1 = c1  c2 = c2  d1 = d1
  Chats = {c1, c2}
  Deletes = {}
  Entries = {1, 2, 3}
  QueueMax = 4
  MaxTokens = 1
  ClientsLeave = TRUE
  None = None
PROPERTIES TurnsAreReleased
CHECK_DEADLOCK FALSE
