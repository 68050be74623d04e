\* A list of equal elements; the default four threads.
SPECIFICATION Spec
CONSTANTS
  Lengths = {}
  EqualLengths = {6}
  Values = {1}
  Workers = {w1, w2, w3, w4}
  Caller = caller
  Threshold = 1
PROPERTIES
  Returns
CHECK_DEADLOCK FALSE
