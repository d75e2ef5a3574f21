\* Two files; alloc_pages may sleep.  Gone astray the driver stops.
CONSTANTS
  MaxNumBuffers = 2
  Files = {f1, f2}
  Blocks = {b1, b2, b3}
  Addresses = {a1}
  NoAddress = NoAddress
  Sleeps = TRUE
  f1 = f1
  f2 = f2
  b1 = b1
  b2 = b2
  b3 = b3
  a1 = a1
SPECIFICATION Spec
INVARIANTS
  UsedFitsTable
CHECK_DEADLOCK FALSE
