\* Two requests for one interviewer at one time, both past the check before
\* either has written.
CONSTANTS
  Workers = {w1, w2}
  Candidates = {"c1", "c2"}
  Interviewers = {"p1", "p2"}
  InterviewerLists <- MCTwoLists
  Times = {0, 1, 2}
  Edits <- MCAllEdits
  Layers = {"new", "interview"}
  Channels <- MCNoChannel
  MaxRetries = 0
  MaxRequests = 3
  MaxLayerChanges = 0
  NoItem = NoItem
SPECIFICATION Spec
INVARIANTS
  NoDoubleBooking
CHECK_DEADLOCK FALSE
