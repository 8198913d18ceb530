------------------------- MODULE RealTimeProperties -------------------------
(***************************************************************************)
(* What the loops of main.cpp keep of their period, and what a slave finds *)
(* in its command.                                                         *)
(***************************************************************************)
EXTENDS RealTime

\* Where the waits end at their deadlines, realTimeLoop works at most twice in a
\* waiting time: its deadlines come from the reading of the turn before, so that
\* every second one may have passed, but never two in a row.  monitorChanges, which
\* reads the clock anew, works once.  No deadline is farther off than the waiting
\* time, and one that is no valid time comes from a reading in the last waiting
\* time of a second (main.cpp:27-48, 59-66).
Paced ==
  /\ at = "work" /\ waited =>
       ended >= WaitTime + (IF loop = "realTimeLoop" THEN lastButOne ELSE last)
  /\ at = "wait" => Due(timer) <= clock + WaitTime
  /\ ~Valid(timer) => Due(timer) % SECOND < WaitTime

\* In the image that is exchanged a slave is commanded only if it was the target
\* while the image was packed, and the target of all that time is commanded; every
\* other command is cleared, also that of a former target in this half of the
\* image.  A commanded slave finds a checksum that makes the sum over its whole
\* command zero and, if the amplitude fits into the field, a current between
\* nothing and that amplitude (wg05.cpp:189-241).
Commanded ==
  Packed => \A s \in Slaves :
    LET c == command[this][s] IN
    /\ targets = {s} => c # Off
    /\ c # Off =>
         /\ s \in targets
         /\ computeChecksum(WG0XCommand(c.mode, c.current, c.checksum), 8) = {}
         /\ (\A a \in entered : a < 32768) => \E a \in entered : c.current \in 0..a
=============================================================================
