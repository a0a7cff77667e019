\* Two requests, and a stop of one process or another.
CONSTANTS
  r1 = r1
  r2 = r2
  k1 = k1
  none = none
  Requests = {r1, r2}
  NoRequest = none
  NoKey = none
  Key <- MCKey
  Mixes <- MCMixes
  MaxStops = 1
SPECIFICATION FairSpec
INVARIANTS
  AnswerTellsEffect
  RestartsLeaveNoDoubt
PROPERTIES
  EveryRequestEnds
  StopsEnd
\* the requests are over
CHECK_DEADLOCK FALSE
