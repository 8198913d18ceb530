\* Two slaves, of which each may be left over from an earlier run at either
\* position and in either place among the WG05.  FMMUs and sync
\* managers as configureWG05fmmu and configureWG05pd have them.
CONSTANTS
  N = 2
  FMMUS = 2
  SMS = 4
SPECIFICATION Spec
INVARIANTS
  HandlersMatch
  OnlyMeant
  OwnWindow
PROPERTIES
  ArrivesConfigured
  OnlyInitRepeats
