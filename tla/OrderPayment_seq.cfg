SPECIFICATION Spec
CONSTANTS
  o1 = o1  o2 = o2  a1 = a1  a2 = a2  b1 = b1  c1 = c1  c2 = c2
  Orders <- TwoOrders
  Artworks = {a1, a2}
  Buyers = {b1}
  Attempts = {c1, c2}
  Workers = {w1}
  ItemsOf <- OwnItems
  BuyerOf <- SameBuyer
  ProviderOf <- Mixed
  OrderOf <- ChargeEach
  FedExOrders = {o2}
  OpenComplete = TRUE
  Faults = {"gateway"}
  MaxCredits = 3
INVARIANTS TypeOK CreditedOnce PaidIsOffTheShelf HoldFollowsTheOrder
CHECK_DEADLOCK FALSE
