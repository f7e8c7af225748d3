\* Two requests at a time on up to two resumes.
CONSTANTS
  Workers = {w1, w2}
  MaxUploads = 2
  MaxCalls = 2
  MaxManualCandidates = 1
  NoRecord = NoRecord
SPECIFICATION Spec
INVARIANTS
  SuccessHasCandidate
  UnfinishedIsInHand
  NoStrayFiles
  CleanLifeWithoutOverlap
PROPERTIES
  ResumesSettle
CHECK_DEADLOCK FALSE
