SPECIFICATION FairSpec
CONSTANTS
  Workers = {w1}
  MaxLabels = 2
  MaxScans = 3
  Recycled <- Reused
  Follows <- WithExceptions
INVARIANTS TypeOK EveryPaidOrderHasARow StatusIsEarned
PROPERTIES ForwardOnly CompletedProfileIsRetried DeliveryIsNoticed
