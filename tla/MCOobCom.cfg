\* Three callers: one holds the channel, one is woken for it, one barges in or
\* sleeps.  Two tries, so that a call fails, is retried and fails for good.
CONSTANTS
  Callers = {a, b, c}
  RT = rt
  NONE = none
  Handles = {0, 1}
  MaxTries = 2
SPECIFICATION LiveSpec
INVARIANTS
  FrameHandover
  EveryPacketClaimed
  NoLostWakeup
  IInv
PROPERTIES
  ImplementsEthercatCom
  OfferIsAnswered
