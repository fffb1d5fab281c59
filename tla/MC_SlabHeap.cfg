CONSTANTS
  NrPages = 6
  MetaSlots = 2
  Requests = {1024, 1025, 4097}
  MaxPg = 1
  MaxHeld = 6
SPECIFICATION MCSpec
INVARIANTS PagesAccounted QueuesMatch StatExact HeldFound
PROPERTY ImplementsHeap
CHECK_DEADLOCK FALSE
