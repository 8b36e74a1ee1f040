CONSTANTS
  Pods = {p1, p2}
  Agencies = {a1}
  Timestamps = {1, 2}
  Threshold = 2
  MaxStarts = 3
  MaxPolls = 2
SPECIFICATION MCSpec
INVARIANTS CompletePollIsDurable OwnerSeesDurable IInv
SYMMETRY Symmetry
CHECK_DEADLOCK FALSE
