------------------------------- MODULE MCRing -------------------------------
(* The ring of two slaves, for the run of MCRing.cfg, and what TLC evaluates *)
(* of the table of registers.                                                *)
EXTENDS RingProperties

\* No two registers of the table share a byte, so that a telegram for one leaves
\* the others alone; and a telegram for a bank, or for the two registers that
\* start a read of the SII, covers whole registers and none but those
\* (ethercat_slave_memory.h:154-226).
ASSUME Registers ==
  /\ \A p, q \in ECAT_Slave_Registers : p # q => ~Meets(p, q)
  /\ \A r \in ECAT_Slave_Registers :
       /\ Meets(r, AllFMMUs) <=> \E c \in 0..15 : r = FMMUx[c]
       /\ Meets(r, AllSyncManagers) =>
            \E c \in 0..15 : r = Sync_Managerx[c] /\ Within(r, AllSyncManagers)
       /\ Meets(r, SIIControlAddress) =>
            r \in {EC_Slave_RD.SII_ControlStatus, EC_Slave_RD.SII_Address}
=============================================================================
