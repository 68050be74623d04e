\* Three threads of the pool; every list of the lengths over two values, and two
\* of equal elements that are long enough for a sort to stop short.
SPECIFICATION Spec
CONSTANTS
  Lengths = {0, 2, 5}
  EqualLengths = {6}
  Values = {1, 2}
  Workers = {w1, w2, w3}
  Caller = caller
  Threshold = 1
CHECK_DEADLOCK FALSE
INVARIANTS
  RangesInOrder
  SortedWhenReturned
PROPERTIES
  ReturnsOrBlocked
