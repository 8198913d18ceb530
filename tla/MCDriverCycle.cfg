\* Three tries instead of twenty, ages of two cycles told apart from older ones.
CONSTANTS
  PdTries = 3
  Old = 2
SPECIFICATION LiveSpec
INVARIANTS
  NoTornRead
  HalvesDistinct
  NoUninitialisedCompare
  CommandLag
  ShutdownOrder
  IInv
PROPERTIES
  WindsDown
  StopCompletes
  CyclesGoOn
