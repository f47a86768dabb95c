CONSTANTS
  w1 = w1  w2 = w2
  NoCall = NoCall
  Reader = Reader
  Writes <- TwoWrites
  MaxOpens = 3
  MaxReads = 3
SPECIFICATION SideSpec
INVARIANTS QuietAlways
CHECK_DEADLOCK FALSE
