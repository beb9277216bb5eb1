SPECIFICATION FairSpec
CONSTANTS
  wd1 = wd1  wd2 = wd2  wd3 = wd3
  Withdrawals = {wd1, wd2, wd3}
  Workers = {k1}
  MethodOf <- EachMethod
  AmountOf <- ThreeAmounts
  Balance = 4
  Hooks = {"item"}
  MaxBatches = 2
  MaxLost = 2
INVARIANTS TypeOK PaidOnce NeverOverpaid PaidIsBooked CompletedWasSent
PROPERTIES FinishedPayoutIsNoticed
CHECK_DEADLOCK FALSE
