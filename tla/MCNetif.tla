------------------------------ MODULE MCNetif ------------------------------
(* Netif on a small table, for the run of MCNetif.cfg. *)
EXTENDS NetifProperties
=============================================================================
