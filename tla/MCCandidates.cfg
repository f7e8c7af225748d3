\* Two requests at a time for one interview of two candidates; searches with two
\* conditions of each side at most among 36 candidates.
CONSTANTS
  Candidates = {"c1", "c2"}
  Lines <- MCLines
  Texts <- MCResumes
  Entered <- MCEntered
  MaxUploads = 2
  Workers = {w1, w2}
  Interviews = {"int1"}
  Rounds = {"r1", "r2"}
  JobDescriptions <- MCJobDescriptions
  MaxGenerations = 2
  MaxChanges = 2
  Profiles <- MCProfiles
  TextFields = {"company"}
  TypedQueries <- MCTypedQueries
  NaturalQueries <- MCNaturalQueries
  PhraseText <- MCPhraseText
SPECIFICATION DeskSpec
SYMMETRY MCSymmetry
INVARIANTS
  ProfileTellsLastWord
  BankOfOneMoment
  BankCovers
  HitsAskedByBoth
  NobodyMissedIfApart
CHECK_DEADLOCK FALSE
