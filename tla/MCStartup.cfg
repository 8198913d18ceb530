\* Three slaves of either kind: a mixed ring, and a slave between two others.
CONSTANTS
  N = 3
  CommandSize = 8
  StatusSize = 44
SPECIFICATION LiveSpec
INVARIANTS
  LayoutSound
  PackedWhereRead
  ConfiguredBeforeSafeop
  RunningMatches
  LeftInOpUnconfirmed
  IInv
PROPERTIES
  WorkShrinks
  StartupEnds
  ShutdownEnds
