\* Two writers on up to two sessions, one reader, pages of one or two segments.
CONSTANTS
  Interviews = {"int1"}
  Writers = {w1, w2}
  Readers = {r1}
  Follows <- MCFollows
  Limits = {0, 3}
  DefaultLimit = 1
  MaxLimit = 2
  MaxSessions = 2
  MaxSegments = 2
  MaxMarks = 2
  NoSession = NoSession
SPECIFICATION Spec
INVARIANTS
  NumberedInOrder
  ReadersMissNothing
  SessionExactWithoutOverlap
PROPERTIES
  HasMoreIsExact
  FeedSpec
CHECK_DEADLOCK FALSE
