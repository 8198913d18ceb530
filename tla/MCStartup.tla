----------------------------- MODULE MCStartup -----------------------------
(* Start-up and shutdown for model checking; the constants are in the cfg.   *)
EXTENDS StartupProperties
=============================================================================
