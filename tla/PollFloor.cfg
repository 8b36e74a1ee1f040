CONSTANTS
  Regions = {1, 3}
  KlangValley = 1
  Penang = 2
  Tick = 2
  Floor = 6
  Choices = {2, 6}
  Fallback = 2
  MinFetch = 1
  MaxAge = 12
SPECIFICATION HistorySpec
INVARIANTS IInv
PROPERTIES FloorUnlessFailed
