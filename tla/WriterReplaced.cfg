CONSTANTS
  Good = good
  Bad = bad
  Pods = {good, bad}
  Agencies = {a1, a2}
  Timestamps = {1}
  Threshold = 2
  MaxPods = 2
  MaxFaults = 0
SPECIFICATION WatchedSpec
PROPERTIES GoodWriterReplaced
CHECK_DEADLOCK FALSE
