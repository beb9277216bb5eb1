SPECIFICATION Spec
CONSTANTS
  Admins = {a1}
  Given = {0, 20}
  Touched = {"orderExpirationHours", "autoCancelPendingOrdersDays"}
  MaxGiven = 2
  Ages = {30, 200}
PROPERTY
  DisabledExpiryCancelsNothing
CHECK_DEADLOCK FALSE
