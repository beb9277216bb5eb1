SPECIFICATION TwoSpec
CONSTANTS
  Workers = {w1}
  Overlapping = {w1, w2}
  Replays = TRUE
  Crashes = TRUE
INVARIANTS BooksFollowTheCase RefundIsRecoverable AlwaysAWayOn OverlapIsBacked
PROPERTIES KeepsPromise
CHECK_DEADLOCK FALSE
