\* Two chunks and two other callers share a limit of two packets: process data
\* finds the table full between its chunks.  With three slots and four packets a
\* slot is used again while its last packet may still come back; and with three
\* sequence numbers the first and the fourth packet agree in slot and number.
CONSTANTS
  Chunks = 2
  Others = 2
  PKT_LIST_SIZE = 3
  BUF_LIST_SIZE = 3
  SEQ = 3
  MaxSent = 4
SPECIFICATION LiveSpec
INVARIANTS
  Accounted
  OwnReply
  HandleHonoured
PROPERTIES
  Drains
  Recovers
  ImplementsFrameExchange
