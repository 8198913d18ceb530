---------------------------- MODULE MCDriverOob ----------------------------
(* The real-time cycle with two callers of the channel, for model checking.  *)
EXTENDS DriverOob
=============================================================================
