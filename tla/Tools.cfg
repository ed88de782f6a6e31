SPECIFICATION ToolsSpec
CONSTANTS
  Inputs <- MCInputs
  Unit = 4
  AppBase = 64
  RamBase = 256
  StackTop = 512
  WordMod = 1024
  Imm10 = 2
  Imm11 = 4
  MaxObjects = 4
  MaxSections = 14
  MaxGlobals = 9
  MaxOutput = 48
  Calls <- MCCalls
  Frames <- MCFrames
  ColorFrames <- MCColorFrames
  Width = 5
  Height = 3
  CellW = 2
  CellH = 2
  Alpha <- MCAlpha
  SPI_FIFO_SIZE = 2
  ByteMod = 4
  MaxCalls = 2
  Group = 3
  OffLow = 4
  OffHigh = 2
  Nibble = 2
  Extra = 3
  Chain = 2
  Hashes = 5
  TileW = 4
  TileH = 2
  TilesX = 1
  TilesY = 4
  Octet = 2
  Delta = 2
  RunMax = 5
  GapMax = 2
  Count = 2
  MinChanged = 2
  FrameMax = 100
\* a finished link, the last call and a video that has been played are the end
CHECK_DEADLOCK FALSE
INVARIANTS
  ReferencesResolved
  LayoutSound
  OnlyReachable
  ArchivesSearched
  ShowsEveryFrame
PROPERTIES
  PaintsScreen
