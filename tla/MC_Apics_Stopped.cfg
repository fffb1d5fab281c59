CONSTANTS
  Machines <- MCMachines
  U32 = 256
  Rates = {1}
  Wait = 2
  PerSecond = 3
  Divide = 1
  quantum = 1
  MinCount = 6
  Pause = 7
SPECIFICATION MCSpec
INVARIANT Ticking
CHECK_DEADLOCK FALSE
