\* Six overlapping transactions, statement by statement.
CONSTANTS
  p1 = p1
  p2 = p2
  ghost = ghost
  oa = oa
  ob = ob
  oc = oc
  none = none
  Products <- AllProducts
  Listed <- MCListed
  Orders <- MCOrders
  Items <- MCItems
  InitialStock <- MCStock
  NoCall = none
  Calls <- SixCalls
  Request <- SixRequests
  LateReserve = FALSE
SPECIFICATION FairSpec
\* every call has been answered
CHECK_DEADLOCK FALSE
INVARIANTS
  SettledOnce
PROPERTIES
  TransactionsAreAtomic
  EveryCallEnds
