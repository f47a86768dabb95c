CONSTANTS
  w1 = w1  w2 = w2
  Controls <- TwoControls
  MaxRadios = 3
  MaxOpens = 3
SPECIFICATION FairSpec
INVARIANTS RadioIsHandle PresentAgrees StartedWhileInD0 StoppedIsRefused AliveIsCounted
PROPERTIES FreshIds RadioVanishes
CHECK_DEADLOCK FALSE
