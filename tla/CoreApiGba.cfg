SPECIFICATION Spec
CONSTANTS
  Cores = {"gba"}
  MaxFrames = 1
  OutCap = 1
  RamSizes = {0}
INVARIANTS FreshRoundTrip
