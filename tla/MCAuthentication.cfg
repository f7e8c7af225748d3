\* Two requests at a time of two users; the limits are small so that an
\* answer can be full.
CONSTANTS
  Workers = {w1, w2}
  NoRequest = NoRequest
  RoleOf <- MCRoleOf
  Filters <- MCFilters
  defaultQueryLimit = 1
  maxQueryLimit = 2
  MaxTime = 1
  MaxQueries = 1
  MaxRequests = 3
SPECIFICATION Spec
INVARIANTS
  LogoutFollowsLogin
  AnswersHold
PROPERTIES
  RequestsEnd
CHECK_DEADLOCK FALSE
