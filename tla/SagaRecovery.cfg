\* Two crashes, a lost write and a context that ends, on one replica.
CONSTANTS
  p1 = p1
  oa = oa
  ob = ob
  r1 = r1
  r2 = r2
  Products <- MCProducts
  Orders <- MCOrders
  Demand <- MCDemand
  InitialStock <- MCInitialStock
  MaxBatches = 3
  Replicas <- OneReplica
  MaxRetries = 1
  PaymentResults <- AnyPayment
  Budget <- Recovery
SPECIFICATION FairSpec
\* the system rests once every order is handled
CHECK_DEADLOCK FALSE
INVARIANTS
  NoOrphanSaga
  RecordedReservationReturned
PROPERTIES
  TakesGoodsOnce
  SagaOutcomeIsFinal
  EverySagaEnds
