\* The stock transactions in every order, up to three batches per order.
CONSTANTS
  p1 = p1
  p2 = p2
  ghost = ghost
  o1 = o1
  o2 = o2
  o3 = o3
  Products <- MCProducts
  Orders <- MCOrders
  Demand <- MCDemand
  InitialStock <- MCInitialStock
  MaxBatches = 3
SPECIFICATION Spec
INVARIANTS
  TypeOK
  NoOversell
  StockLedger
  Settleable
