\* Two data lanes and a group; the driver is loaded twice.
CONSTANTS
  NumDataLanes = 2
  NumGroups = 1
  Taps = 3
  Settings <- MCSettings
  MaxLoads = 2
SPECIFICATION IodelaysSpec
INVARIANTS
  AskedIsSet
