\* Two overlapping requests and the conflict check.  No channel: the
\* notifications are another store and feed nothing back.
CONSTANTS
  Workers = {w1, w2}
  Candidates = {"c1", "c2"}
  Interviewers = {"p1", "p2"}
  InterviewerLists <- MCTwoLists
  Times = {0, 1, 2}
  Edits <- MCAllEdits
  Layers = {"new", "interview"}
  Channels <- MCNoChannel
  MaxRetries = 0
  MaxRequests = 3
  MaxLayerChanges = 0
  NoItem = NoItem
  DayLength = 1
  Sunday <- MCSunday
  MonthStarts <- MCMonthStarts
  Days <- MCDays
SPECIFICATION Spec
INVARIANTS
  RaceFreeNeverDoubleBooks
  CandidatesKnown
  LinkedUnlessSetByHand
  CalendarShowsItsDays
PROPERTIES
  UpdateWritesWhatWasAsked
CHECK_DEADLOCK FALSE
