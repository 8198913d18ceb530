--------------------------- MODULE MCDriverCycle ---------------------------
(* The driver's threads for model checking; the constants are in the cfg.   *)
EXTENDS DriverCycleProperties
=============================================================================
