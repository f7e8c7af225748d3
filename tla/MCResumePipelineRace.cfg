\* A deletion that overlaps the parsing of the resume it deletes.
CONSTANTS
  Workers = {w1, w2}
  MaxUploads = 1
  MaxCalls = 2
  MaxManualCandidates = 1
  NoRecord = NoRecord
SPECIFICATION Spec
INVARIANTS
  DeletedOnce
CHECK_DEADLOCK FALSE
