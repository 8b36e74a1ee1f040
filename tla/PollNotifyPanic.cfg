CONSTANTS
  Streams = {s1, s2}
  MaxVersion = 2
SPECIFICATION Spec
INVARIANTS NoSendOnClosed
CHECK_DEADLOCK FALSE
