CONSTANTS
  Machines <- MCMachines
  U32 = 256
  Rates = {1, 2, 3, 4}
  Wait = 8
  PerSecond = 2
  Divide = 2
  quantum = 1
  MinCount = 20
  Pause = 2
SPECIFICATION MCSpec
INVARIANT TimerMasked
CHECK_DEADLOCK FALSE
