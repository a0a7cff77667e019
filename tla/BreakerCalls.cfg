\* Two callers that call again and again.
CONSTANTS
  c1 = c1
  c2 = c2
  Callers = {c1, c2}
  Reuse = TRUE
  Replies = {"OK", "NotFound"}
  MaxRetries = 3
  Second = 2
SPECIFICATION BusySpec
PROPERTIES
  OneCallCannotTrip
  EveryCallEnds
  Recovers
