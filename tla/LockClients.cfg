\* Four clients; answers and releases are lost, TTLs end at any time.
SPECIFICATION Spec
CONSTANTS
  c1 = c1
  c2 = c2
  c3 = c3
  c4 = c4
  Clients = {c1, c2, c3, c4}
  Nobody = none
  MaxRetries = 2
INVARIANTS
  OneHolder
