---------------------------- MODULE SlaveMemory ----------------------------
(***************************************************************************)
(* The registers of an EtherCAT slave controller as the master addresses   *)
(* them, and the telegrams that reach them on the ring.  A telegram names  *)
(* a slave by its position, by its station address, or every slave, and a  *)
(* range of that slave's memory; a logical telegram reaches the slaves     *)
(* whose FMMUs map it.  Numbers are decimal, with the source's hexadecimal *)
(* form beside them.                                                       *)
(***************************************************************************)
EXTENDS Integers

Register(ado, size) == [ado |-> ado, size |-> size]
Bank(ado, size) == [channel \in 0..15 |-> Register(ado + size * channel, size)]

Watchdog_Time_Channelx == Bank(1056, 2)   \* 0x0420

FMMUx == Bank(1536, 16)                   \* 0x0600

Sync_Managerx == Bank(2048, 8)            \* 0x0800

\* The registers that are not in a bank: 0x0000 to 0x0508.
EC_Slave_RD ==
  [Type                 |-> Register(0, 1),    Revision          |-> Register(1, 1),
   Build                |-> Register(2, 2),    Num_FMMUs         |-> Register(4, 1),
   Num_Sync_Managers    |-> Register(5, 1),    RAM_Size          |-> Register(6, 1),
   ECAT_Station_Address |-> Register(16, 2),   DLL_Control       |-> Register(256, 2),
   DLL_Status           |-> Register(272, 2),  AL_Control        |-> Register(288, 2),
   AL_Status            |-> Register(304, 2),  PDI_Control       |-> Register(320, 2),
   PDI_Conf_reg         |-> Register(336, 5),  AL_Event          |-> Register(544, 4),
   RX_Error_Counter_Channel_A |-> Register(768, 2),
   RX_Error_Counter_Channel_B |-> Register(770, 2),
   Watchdog_Divider     |-> Register(1024, 2), Watchdog_Time_PDI |-> Register(1040, 2),
   Watchdog_Channel_status |-> Register(1104, 2), SII_Size          |-> Register(1280, 2),
   SII_ControlStatus    |-> Register(1282, 2), SII_Address       |-> Register(1284, 4),
   SII_Data             |-> Register(1288, 4)]

ECAT_Slave_Registers ==
  {EC_Slave_RD[name] : name \in DOMAIN EC_Slave_RD}
    \cup {Watchdog_Time_Channelx[c] : c \in 0..15}
    \cup {FMMUx[c] : c \in 0..15} \cup {Sync_Managerx[c] : c \in 0..15}

\* The ranges that one telegram covers though they are several registers.
AllFMMUs == Register(FMMUx[0].ado, 256)
AllSyncManagers == Register(Sync_Managerx[0].ado, 256)
SIIControlAddress == Register(EC_Slave_RD.SII_ControlStatus.ado, 6)

Meets(p, q) == p.ado < q.ado + q.size /\ q.ado < p.ado + p.size
Within(p, q) == q.ado <= p.ado /\ p.ado + p.size <= q.ado + q.size

EC_SII_ReadOp == 256    \* EC_SIIControlStatus with ReadOp: bit 8

EC_State == [INIT |-> 1, PREOP |-> 2, SAFEOP |-> 4, OP |-> 8]

-----------------------------------------------------------------------------
(* Addresses.  Every slave adds one to the adp of a passing telegram, and    *)
(* takes a position-addressed telegram that reaches it with adp 0.           *)

ringpos2adpFromOne(ringpos) == (0 - (ringpos + 1)) % 65536   \* positions counted from 1

ringpos2adp(ringpos) == (0 - ringpos) % 65536
adp2ringpos(adp) == (0 - adp) % 65536

AdpAt(adp, slave) == (adp + slave) % 65536

(* Telegrams: how the slave is addressed, its range, and what is written.    *)

Device_Addressing_Telegram(mode, adp, range, writes, value) ==
  [mode |-> mode, adp |-> adp, range |-> range, writes |-> writes, value |-> value]

APRD(adp, range) == Device_Addressing_Telegram("position", adp, range, FALSE, 0)
APWR(adp, range, value) == Device_Addressing_Telegram("position", adp, range, TRUE, value)
NPWR(station, range, value) == Device_Addressing_Telegram("node", station, range, TRUE, value)
BWR(range, value) == Device_Addressing_Telegram("broadcast", 0, range, TRUE, value)
=============================================================================
