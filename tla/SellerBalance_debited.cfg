SPECIFICATION Spec
CONSTANTS
  o1 = o1  o2 = o2  wd1 = wd1  wd2 = wd2
  Orders = {o1, o2}
  Withdrawals = {wd1}
  Workers = {k1}
  SlowHold = FALSE
  ProviderOf <- PayPalOnly
  AmountOf <- Units
INVARIANTS RefundIsDebitedOnce
CHECK_DEADLOCK FALSE
