CONSTANTS
  Infos <- MCInfos
  load_start = 52
  bss_end = 72
  kBootLoaderSkipPages = 1
  StructSize = 1
  Fan = 4
  BootLarge = 2
  Devices <- MCDevices
SPECIFICATION BootSpec
INVARIANTS KernelKept NoPageLost MapsMemory TablesApart NoLeafInTheWay IdtKept
PROPERTY Boots
CHECK_DEADLOCK FALSE
