CONSTANTS
  NrPageStructs = 6
  BootPages <- MCBootPages
  MaxBlock = 3
SPECIFICATION FairSpec
INVARIANTS TypeOK DoublyLinked OneRing Accounted
PROPERTIES ImplementsPageAlloc CallsReturn
