\* Two callers, so that one can hold the mutex or the channel against the other.
CONSTANTS
  Callers = {a, b}
  RT = rt
  NONE = none
  Handles = {0, 1}
  MaxTries = 2
SPECIFICATION CycleLiveSpec
PROPERTY OfferedFrameIsSent
