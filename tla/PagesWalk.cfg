\* Six rows that appear and disappear during a walk.
CONSTANTS
  Ids = {1, 2, 3, 4, 5, 6}
  Asked <- SomeSizes
  NoSize = NoSize
  DefaultSize = 2
  MaxSize = 3
  Word = 16
SPECIFICATION Spec
INVARIANTS
  NoRowTwice
  NoneSkipped
  WalkIsShort
