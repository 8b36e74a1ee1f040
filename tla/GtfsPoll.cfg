CONSTANTS
  F1 = f1
  F2 = f2
  V = v
  VX = vx
  Feeds <- TwoFeeds
  Vehicles = {v, vx}
  KeyID <- PrefixOf
  Bodies <- SomeBodies
  maxPollAttempts = 3
  Initial = 1
  Cap = 3
  RetryAfters = {none, 0, 2, 9, 20}
  NoHeader = none
  Second = 4
  Half = 64
  Window = 1
  ingestCap = 2
  MaxNow = 3
  MaxCycles = 2
  MaxRestarts = 1
SPECIFICATION MCSpec
INVARIANTS IInv RateLimitRespected LiveIsNewest RingIsRecent LiveSurvivesRestart
PROPERTIES PolledIsCommitted CycleEnds
CHECK_DEADLOCK FALSE
