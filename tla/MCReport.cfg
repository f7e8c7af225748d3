\* Three evaluations of rounds with three kinds of names, two reports of a
\* candidate whose profile changes and changes back.
CONSTANTS
  Interviews = {1, 2, 3}
  Interviewers = {1}
  Rounds <- MCRounds
  Users = {u1, u2}
  Profiles = {p1, p2}
  NoProfile = NoProfile
  MaxChanges = 2
  MaxSubmissions = 3
  MaxReports = 2
SPECIFICATION Spec
SYMMETRY MCSymmetry
INVARIANTS
  TypeOK
  RepeatedGenerationIsStable
  RoundsInOrder
PROPERTIES
  ReportsNeverChange
CHECK_DEADLOCK FALSE
