CONSTANTS
  Device = {32, 33, 49}
  Handler = {h1, h2}
  MaxEvents = 3
SPECIFICATION Spec
INVARIANTS ChainRun NotReentrant
PROPERTY Served
CHECK_DEADLOCK FALSE
