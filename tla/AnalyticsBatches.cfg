\* Four orders, a channel and batches of two.
CONSTANTS
  e1 = e1
  e2 = e2
  e3 = e3
  e4 = e4
  Events = {e1, e2, e3, e4}
  Days = {1, 2}
  Cents <- MCCents
  Day <- MCDay
  Capacity = 2
  BatchSize = 2
SPECIFICATION FairSpec
INVARIANTS
  NoneLostSilently
  StoredAtMostOnce
  NothingLeftBehind
  RevenueAgrees
PROPERTIES
  AcceptedIsFlushed
  ShutdownEnds
