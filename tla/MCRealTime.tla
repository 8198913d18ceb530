----------------------------- MODULE MCRealTime -----------------------------
(* Two seconds of either loop, for the run of MCRealTime.cfg. *)
EXTENDS RealTimeProperties

\* The command of a slave that is not the target is all zeros: by the code's own
\* algorithm the sum over it is not zero, so its checksum is not valid.
ASSUME OffIsInvalid ==
  computeChecksum(WG0XCommand(0, 0, {}), 8) # {}
=============================================================================
