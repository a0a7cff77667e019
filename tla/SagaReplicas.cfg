\* A second replica starts at any time; a call and a status write may be lost.
CONSTANTS
  p1 = p1
  oa = oa
  ob = ob
  r1 = r1
  r2 = r2
  Products <- MCProducts
  Orders <- MCOrders
  Demand <- MCDemand
  InitialStock <- MCInitialStock
  MaxBatches = 4
  Replicas <- TwoReplicas
  MaxRetries = 1
  PaymentResults <- AnyPayment
  Budget <- LostMessages
SPECIFICATION Spec
\* the system rests once every order is handled
CHECK_DEADLOCK FALSE
INVARIANTS
  NoStockHeldAtRest
  CompletedIsSold
