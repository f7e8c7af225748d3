\* Two overlapping requests, cancellations among them, and their notifications.
CONSTANTS
  Workers = {w1, w2}
  Candidates = {"c1"}
  Interviewers = {"p1"}
  InterviewerLists <- MCOneList
  Times = {0, 1}
  Edits <- MCCancel
  Layers = {"new", "interview"}
  Channels <- MCOneChannel
  MaxRetries = 0
  MaxRequests = 3
  MaxLayerChanges = 1
  NoItem = NoItem
SPECIFICATION Spec
INVARIANTS
  CurrentVersionAnnounced
  LastNoticeIsCurrent
PROPERTIES
  WrittenIsAnswered
CHECK_DEADLOCK FALSE
