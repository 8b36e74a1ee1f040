CONSTANTS
  Regions = {1, 2, 3, 4, 5, 6, 7}
  KlangValley = 1
  Penang = 2
  Tick = 2
  Floor = 6
  Choices = {2, 6}
  Fallback = 2
  MinFetch = 1
  MaxAge = 12
  Watched = {1, 2, 3, 4, 5, 6, 7}
SPECIFICATION ReconnectSpec
PROPERTIES NoStarvation
