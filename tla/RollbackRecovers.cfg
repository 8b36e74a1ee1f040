CONSTANTS
  Good = good
  Bad = bad
  Pods = {good, bad}
  Agencies = {a1}
  Timestamps = {1}
  Threshold = 2
  MaxPods = 3
  MaxFaults = 1
SPECIFICATION WatchedEverywhereSpec
PROPERTIES GoodRecovers
CHECK_DEADLOCK FALSE
