SPECIFICATION EmulatorSpec
CONSTANTS
  Irqs = {0, 1}
  Valid <- MCValid
  MaxReload = 1
  Depth = 2
  B = 2
  RamSize = 32
  CodeBase = 64
  TIMER_BASE = 192
  TIMER_CYCLES_PER_US = 2
  TIMER_WAIT_ACCEL_US = 4
  MaxSteps = 1200
  Programs <- MCPrograms
INVARIANTS
  NoInterruptLost
  ThreadProgress
  StepsAsManual
  SkippedAsRun
PROPERTIES
  InterruptServed
\* Stop and the end of a program are the end
CHECK_DEADLOCK FALSE
