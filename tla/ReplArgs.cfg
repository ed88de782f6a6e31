SPECIFICATION ConsolesSpec
CONSTANTS
  Rows = 2
  Cols = 2
  TabStop = 2
  CsiSize = 7
  MaxParams = 3
  IntHalf = 64
  Tokens <- MCTokens
  LogLine <- MCLogLine
  MaxTokens = 3
  MaxLogs = 1
  SdkCols = 3
  Capacity = 7
  MaxArgs = 3
  \* A, blank, ", return, and the keyboard's backspace and escape
  RawKeys = {65, 32, 34, 10, 212, 177}
  KBD_ADDR = 31
  KBD_REG_KEY = 9
  I2C_FIFO_SIZE = 2
  LineCap = 6
  Scripts <- MCScripts
  ExitLines <- MCExitLines
  Outputs <- MCOutputs
  Banner <- MCBanner
  TooMany <- MCTooMany
  SdkPrompt <- MCSdkPrompt
  BarePrompt <- MCBarePrompt
INVARIANT ArgumentsKept
CHECK_DEADLOCK FALSE
