\* No faults; payments may fail, orders compete and are cancelled.
CONSTANTS
  p1 = p1
  oa = oa
  ob = ob
  r1 = r1
  r2 = r2
  Products <- MCProducts
  Orders <- MCOrders
  Demand <- MCDemand
  InitialStock <- MCInitialStock
  MaxBatches = 3
  Replicas <- OneReplica
  MaxRetries = 1
  PaymentResults <- AnyPayment
  Budget <- TwoCancels
SPECIFICATION FairSpec
\* the system rests once every order is handled
CHECK_DEADLOCK FALSE
INVARIANTS
  TypeOK
  AllOrNothing
PROPERTIES
  KeepsPromise
  EveryOrderEnds
