SPECIFICATION Spec
CONSTANTS
  o1 = o1  o2 = o2  a1 = a1  a2 = a2  b1 = b1  c1 = c1  c2 = c2
  Orders <- OneOrder
  Artworks = {a1}
  Buyers = {b1}
  Attempts = {c1, c2}
  Workers = {w1, w2}
  ItemsOf <- OneItem
  BuyerOf <- OneBuyer
  ProviderOf <- ByPayPal
  OrderOf <- TwoCharges
  FedExOrders = {}
  OpenComplete = FALSE
  Faults = {"gateway", "db", "crash"}
  MaxCredits = 2
SYMMETRY WorkerSymmetry
INVARIANTS SoldIsCaptured NoHoldWithoutEarnings
