\* Two submissions at a time, three in all, of an interview that may be
\* reassigned once, and a dashboard built meanwhile.
CONSTANTS
  Interviews = {"int1"}
  Candidates = {"c1", "c2"}
  Interviewers = {"p1","p2"}
  Rounds = {"round-1"}
  Workers = {w1, w2}
  MaxSubmissions = 3
  MaxUpdates = 1
  MaxDashboards = 1
  Nothing = Nothing
SPECIFICATION DashboardSpec
INVARIANTS
  VersionsInOrder
  OneVersionOfInterview
  AuditMatchesArchive
  AuditInVersionOrder
  FeedbackCountedOnce
PROPERTIES
  HistorySpec
CHECK_DEADLOCK FALSE
