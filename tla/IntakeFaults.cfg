\* Two requests with one key; every fault.
CONSTANTS
  r1 = r1
  r2 = r2
  k1 = k1
  p1 = p1
  none = none
  Keys = {k1}
  NoKey = none
  NoOrder = none
  Products = {p1}
  Items <- MCItems
  Requests = {r1, r2}
  Key <- OnePair
  Faults = {"redis", "call", "db", "context", "crash"}
SPECIFICATION FairSpec
INVARIANTS
  TypeOK
  OneOrderPerKey
  AnswersAgree
PROPERTIES
  KeepsPromise
  EveryRequestAnswered
