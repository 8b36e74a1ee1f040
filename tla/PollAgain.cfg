CONSTANTS
  Regions = {1, 3, 4}
  KlangValley = 1
  Penang = 2
  Tick = 1
  Floor = 3
  Choices = {3}
  Fallback = 1
  MinFetch = 0
  MaxAge = 6
  Watched = {}
SPECIFICATION FairSpec
PROPERTIES PolledAgain
