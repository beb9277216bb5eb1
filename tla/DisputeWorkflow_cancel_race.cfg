SPECIFICATION Spec
CONSTANTS
  Workers = {w1, w2}
  Replays = TRUE
  Crashes = FALSE
PROPERTIES NoCancelAfterRefund
CHECK_DEADLOCK FALSE
