CONSTANTS
  North = north
  South = south
  West = west
  A1 = a1
  A2 = a2
  Closed = a0
  Regions = {north, south, west}
  Agencies = {a1, a2}
  AgenciesOf <- AgencyTable
  FirstRegion = north
  Froms = {0, 5}
  Tos = {0, 4}
  Vehicles = {v, c}
  ColonIDs = {c}
  Times = {2, 4, 5, 6}
  TimeOfA2 = 4
  Sub = 2
  PageSize = 1
  MaxChanges = 3
  MaxStarts = 2
  MaxSwitches = 2
  MaxChunks = 2
  MaxClicks = 2
  MaxForgets = 1
  MaxBreaks = 1
  MaxSnapshots = 2
  MaxEvents = 3
SPECIFICATION MCSpec
INVARIANTS PagesIInv FrameIsExact DrainIsComplete RegionShown CatalogIsExact PageAgrees MapIsLatest
PROPERTIES NoFrameSkipped
CHECK_DEADLOCK FALSE
