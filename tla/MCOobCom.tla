------------------------------ MODULE MCOobCom ------------------------------
(* EthercatOobCom for model checking; the constants are in the cfg.          *)
EXTENDS OobComProperties
=============================================================================
