SPECIFICATION Spec
CONSTANTS
  o1 = o1  o2 = o2  wd1 = wd1  wd2 = wd2
  Orders = {o1, o2}
  Withdrawals = {wd1, wd2}
  Workers = {k1}
  SlowHold = TRUE
  ProviderOf <- PayPalOnly
  AmountOf <- Units
INVARIANTS TypeOK AvailableIsBacked
PROPERTIES PaidFromOwnProvider
CHECK_DEADLOCK FALSE
