\* Two files, two buffers, two data lanes and a group; alloc_pages does not sleep.
\* The driver is loaded twice; it may stay unloaded, and gone astray it stops.
CONSTANTS
  NumDataLanes = 2
  NumGroups = 1
  Taps = 3
  Settings <- MCSettings
  MaxLoads = 2
  MaxNumBuffers = 2
  Files = {f1, f2}
  Blocks = {b1, b2}
  Addresses = {a1, a2}
  NoAddress = NoAddress
  Sleeps = FALSE
  f1 = f1
  f2 = f2
  b1 = b1
  b2 = b2
  a1 = a1
  a2 = a2
SPECIFICATION DriverSpec
SYMMETRY Symmetry
INVARIANTS
  TableNamesHeld
  UnloadedHoldsNothing
  BuffersInv
  RecordIsDelay
PROPERTIES
  StraightToTarget
CHECK_DEADLOCK FALSE
