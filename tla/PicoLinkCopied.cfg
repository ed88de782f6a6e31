SPECIFICATION Spec
CONSTANTS
  Inputs <- MCInputs
  Unit = 4
  AppBase = 64
  RamBase = 256
  StackTop = 512
  WordMod = 1024
  Imm10 = 2
  Imm11 = 4
  MaxObjects = 4
  MaxSections = 14
  MaxGlobals = 9
  MaxOutput = 48
INVARIANTS
  DataCopied
CHECK_DEADLOCK FALSE
