CONSTANTS
  NBitLine = 4
  WordBits = 6
  IntBits = 3
  CtzZero = 6
  Total = 5
  StackSize = 6
SPECIFICATION MCSpec
INVARIANTS SlabQueries StackExact
PROPERTIES ImplementsPool StackImplementsPool
