SPECIFICATION Spec
CONSTANTS
  Pollers = {loop, request}
  Prices = {1, 2}
  MaxTod = 3
  MaxDay = 1
  MaxSnaps = 4
SYMMETRY PollerSymmetry
INVARIANTS
  TapeMatchesSnapshots
  OrderedWhenPollsAre
CHECK_DEADLOCK FALSE
