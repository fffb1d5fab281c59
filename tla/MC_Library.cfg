CONSTANTS
  Vectors = {v1, v2}
  Elem = {a, b}
  Blocks = {1, 2, 3}
  First = 1
  MaxLen = 3
  Calls <- MCCalls
  Source = {COM1}
  UInt = 256
  BufSize = 4
  MaxEvents = 3
SPECIFICATION MCSpec
INVARIANTS Contents WithinBlock OneOwner Rendered
PROPERTY Printed
CHECK_DEADLOCK FALSE
