\* One reply of the inventory service is lost.
CONSTANTS
  p1 = p1
  oa = oa
  ob = ob
  r1 = r1
  r2 = r2
  Products <- MCProducts
  Orders <- OneOrder
  Demand <- MCDemand
  InitialStock <- MCInitialStock
  MaxBatches = 3
  Replicas <- OneReplica
  MaxRetries = 1
  PaymentResults <- PaymentStub
  Budget <- OneLostCall
SPECIFICATION Spec
\* the system rests once every order is handled
CHECK_DEADLOCK FALSE
INVARIANT SoldAtMostOnce
