CONSTANTS
  w1 = w1  w2 = w2
  Controls <- TwoControls
  MaxRadios = 2
  MaxOpens = 2
SPECIFICATION Spec
INVARIANTS StartedMeansUp
CHECK_DEADLOCK FALSE
