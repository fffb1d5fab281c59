CONSTANTS
  Infos <- MCUnaligned
  load_start = 52
  bss_end = 72
  kBootLoaderSkipPages = 1
  StructSize = 1
  Fan = 4
  BootLarge = 2
  Devices <- MCDevices
SPECIFICATION BootSpec
INVARIANT KernelNotListed
CHECK_DEADLOCK FALSE
