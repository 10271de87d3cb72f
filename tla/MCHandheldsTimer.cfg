SPECIFICATION Spec
CONSTANTS
  Foci = {"frame"}
  FrameLen = 8
  VBlankAt = 6
  Costs = {1, 2, 3}
  SampleLen = 2
  OutCap = 7
  LagMax = 3
  NRegs = 3
  RegMod = 2
  SecondLen = 4
  GbaModes = {"irq", "sys", "usr"}
  GbaInts = {"vblank"}
  Places = {"home", "a"}
  Home = "home"
INVARIANTS TimerInStep
