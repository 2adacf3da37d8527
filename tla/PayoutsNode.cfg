SPECIFICATION PartSpec
CONSTANTS
  a1 = a1
  a2 = a2
  b1 = b1
  saleA = saleA
  saleB = saleB
  Row <- TwoSales
  SaleOf <- MCSaleOf
  Place <- MCPlace
  MaxAttempts = 2
  DueLimit = 3
  CanBatch = FALSE
  HasWallet = TRUE
  KeyOnce = FALSE
  FaithfulErrors = TRUE
  StoreFaults = FALSE
  Nudged = {}
  MaxCrashes = 1
INVARIANTS PaidOnce PaidMeansLanded
PROPERTIES NodeHonoursDebts EveryDebtSettles
