\* Two requests whose batches overlap in time, MaxRetries as in the code.
CONSTANTS
  Workers = {w1, w2}
  Notices = {"candidate", "interviewer"}
  Batches <- MCBatches
  MaxRetries = 2
  MaxEvents = 4
SPECIFICATION NotificationSpec
INVARIANTS
  LogTellsTrueStory
  VerdictMatchesSender
  PendingHasOneCarrier
PROPERTIES
  LedgerSpec
CHECK_DEADLOCK FALSE
