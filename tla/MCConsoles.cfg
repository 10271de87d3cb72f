SPECIFICATION Spec
CONSTANTS
  Foci = {"timers", "dma", "sound", "arm", "arm_alu", "bytes", "sh_alu", "sh",
          "nes", "snes", "psx", "gpu", "n64", "m68k", "bus", "hdma", "cart",
          "pad", "api"}
  NTimers = 2
  CounterMod = 3
  Div <- EveryTwo
  TimerCycles = {1, 4}
  TimerReloads = {0, 2}
  DmaMod = 4
  MaxCount = 3
  CountMod = 4
  DmaBlanks = {"vblank"}
  DmaValues = {0, 1}
  Depth = 8
  FifoLow = 4
  Burst = 4
  PosMod = 12
  Stores = {1, 2}
  ArmModes = {"usr", "irq", "svc"}
  ArmPlaces = {"a", "b"}
  Odd = {"b"}
  ArmWord <- WordOfBoth
  ArmWidth = 4
  Nib = 4
  Ten = 3
  ShWords = 8
  ShPlaces = 2
  MaxLevel = 2
  ShFrames = 1
  ShValues = {1, 2}
  NesPlaces = {"a", "b"}
  NesStack = 3
  SnesBanks = {0, 1}
  SnesPlaces = {"a"}
  PageSize = 4
  Pages = 3
  RamPages = 2
  PsxPlaces = 3
  PsxDepth = 2
  Params = {0, 1, 2, 3}
  Sizes = {0, 1, 3, 4}
  MaxPoints = 4
  N64Places = 3
  LastLine = 1
  M68kSpots = {"a", "b"}
  Levels = {6}
  MaxDeep = 2
  Z80Spots = {"a", "b"}
  MaxZ80 = 2
  TableMod = 3
  LineMod = 3
  Bytes = {0, 2, 5}
  HdmaUnits = {1, 2}
  Lines = 4
  Bits = 3
  Fixed = {1}
  Groups = {0, 1}
  LatchMax = 3
  EdgeMax = 6
  NButtons = 3
  ReadMax = 4
  Cores = {"mgbx", "nes", "snes", "gba", "finalburn", "ms32", "psx", "saturn", "ds",
           "n64", "dc"}
  MaxFrames = 1
  OutCap = 1
  RamSizes = {0, 1, 2}
INVARIANTS
  TypeOK ArithmeticExact ContextHeld LineFresh TransfersExact TableFollowed PortsWhole
  GoodLoadRestores
PROPERTIES
  ProgramResumes CountersExact CycleIsIdentity
