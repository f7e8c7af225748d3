\* An evaluation submitted and modified before a dashboard is built.
CONSTANTS
  Interviews = {"int1"}
  Candidates = {"c1"}
  Interviewers = {"p1"}
  Rounds = {"round-1"}
  Workers = {w1}
  MaxSubmissions = 2
  MaxUpdates = 0
  MaxDashboards = 1
  Nothing = Nothing
SPECIFICATION DashboardSpec
INVARIANTS
  WorkloadIsCountOfEvaluations
CHECK_DEADLOCK FALSE
