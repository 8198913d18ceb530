-------------------------------- MODULE Ring --------------------------------
(***************************************************************************)
(* The master's telegrams on the ring of slaves, from EtherCAT_AL::init to *)
(* the first process data: the slaves are counted, identified, reset and   *)
(* put in INIT, then the driver's slaves are given their station address   *)
(* and their FMMU and sync manager configuration.  A frame passes the      *)
(* slaves in ring order; it comes back, or is lost after some of them.     *)
(* txandrx repeats a lost frame, and as every telegram here writes fixed   *)
(* values, a call does what the try that got farthest did.  No caller      *)
(* looks at the working counter.  The code is that of                      *)
(* src/eml/lib/libeml.so, declared in src/eml/include/al.                  *)
(***************************************************************************)
EXTENDS SlaveMemory, FiniteSets

CONSTANTS N,      \* slaves on the ring
          FMMUS,  \* FMMUs of a WG05: 2
          SMS     \* sync managers of a WG05: 4

ASSUME RingAssumption ==
  /\ N \in Nat \ {0} /\ N < 65536
  /\ FMMUS \in 1..16 /\ SMS \in 0..16

Ring == 0 .. N - 1
BACK == N + 1                         \* how far a frame got: 0..N if it was lost

STATION == EC_Slave_RD.ECAT_Station_Address.ado
CONTROL == EC_Slave_RD.AL_Control.ado
STATUS == EC_Slave_RD.AL_Status.ado
Memory == {STATION, CONTROL, STATUS}
            \cup {FMMUx[c].ado : c \in 0 .. FMMUS - 1}
            \cup {Sync_Managerx[c].ado : c \in 0 .. SMS - 1}

VARIABLES
  mem,        \* per slave its registers, by address; 0 disables an FMMU or sync manager
  wg05,       \* per slave whether its SII holds WG05_PRODUCT_CODE
  phase,      \* the loop the master is in
  pos, step,  \* the slave whose turn it is, and the configuration write
  handler,    \* per slave the product its handler was made with
  count,      \* m_num_slaves
  esm,        \* per handler its m_esm_state
  image,      \* per window of the process image the slaves that filled it last
  last,       \* history: the last telegram's mode, and who took it but was not meant
  given,      \* history: slaves given their station address in this run
  tidy        \* history: nothing of an earlier run is left on the ring

master == <<phase, pos, step, handler, count, esm>>
vars == <<mem, wg05, master, image, last, given, tidy>>

\* configureWG05fmmu hands out the windows of the process image in the order of
\* the WG05 handlers, FMMUS to each.  FMMU 1 is the one the master reads.
WindowOf(ordinal, k) == 1 + FMMUS * ordinal + k
Before(s) == Cardinality({u \in Ring : u < s /\ handler[u] = "WG05"})
Window(s, k) == WindowOf(Before(s), k)
Windows == 1 .. FMMUS * N

\* The register values of a slave whose handler is the ordinal-th WG05.  The sync
\* manager configuration is the same for all: 1 is a channel that is enabled.
Configuration(ordinal, a) ==
  IF \E k \in 0 .. FMMUS - 1 : a = FMMUx[k].ado
  THEN WindowOf(ordinal, CHOOSE k \in 0 .. FMMUS - 1 : a = FMMUx[k].ado)
  ELSE 1

Blank == [a \in Memory |-> IF a \in {CONTROL, STATUS} THEN EC_State.INIT ELSE 0]

\* The registers of a slave that an earlier run left configured, when it was at
\* position p, after so many slaves that were taken for a WG05.
Used(p, ordinal) ==
  [a \in Memory |->
     IF a = STATION THEN p + 1
     ELSE IF a \in {CONTROL, STATUS} THEN EC_State.OP
     ELSE Configuration(ordinal, a)]

\* No slave has a station address that a handler will give to another one.
Fresh == \A s \in Ring : mem[s][STATION] \in {0, s + 1}

Init ==
  /\ mem \in [Ring -> {Blank} \cup UNION {{Used(p, o) : o \in 0..p} : p \in Ring}]
  /\ wg05 \in [Ring -> BOOLEAN]
  /\ phase = "scan" /\ pos = 0 /\ step = 0 /\ count = 0
  /\ handler = [s \in Ring |-> "none"] /\ esm = [s \in Ring |-> EC_State.INIT]
  /\ image = [w \in Windows |-> {}]
  /\ last = [mode |-> "broadcast", astray |-> {}]
  /\ given = {} /\ tidy = Fresh

-----------------------------------------------------------------------------
(* A telegram on the ring. *)

Addressed(t) ==
  {s \in Ring : CASE t.mode = "position" -> AdpAt(t.adp, s) = 0
                  [] t.mode = "node" -> mem[s][STATION] = t.adp
                  [] OTHER -> TRUE}

Hits(t, reach) == {s \in Addressed(t) : s < reach}

Covers(t, a) == t.range.ado <= a /\ a < t.range.ado + t.range.size

\* The value of register a of slave s when it takes t: told to change its state
\* it follows, or refuses; it goes down at will, but up one state at a time.
Taken(t, s, a, followers) ==
  IF a = STATUS /\ Covers(t, CONTROL) /\ s \in followers /\ t.value <= 2 * mem[s][STATUS]
  THEN t.value
  ELSE IF Covers(t, a) THEN t.value ELSE mem[s][a]

TransferUnaddressed(t, reach, followers) ==   \* every slave it passes takes it
  /\ mem' = [s \in Ring |->
               IF s < reach /\ t.writes
               THEN [a \in Memory |-> Taken(t, s, a, followers)] ELSE mem[s]]
  /\ last' = [mode |-> t.mode, astray |-> {s \in Ring : s < reach} \ {pos}]

\* The frame of t passes the slaves before reach.  It is meant for slave pos
\* unless it is a broadcast.
Transfer(t, reach, followers) ==
  LET takers == Hits(t, reach) IN
  /\ mem' = [s \in Ring |->
               IF s \in takers /\ t.writes
               THEN [a \in Memory |-> Taken(t, s, a, followers)] ELSE mem[s]]
  /\ last' = [mode |-> t.mode, astray |-> IF t.mode = "broadcast" THEN {} ELSE takers \ {pos}]

-----------------------------------------------------------------------------
(* EtherCAT_AL::init.  Its result is not looked at: isReady() is true, and   *)
(* main goes on, when it failed half-way.                                    *)

\* A loop over the slaves goes on with the next one, or the next loop begins.
NextSlave(loop, following) ==
  IF pos + 1 < count THEN phase' = loop /\ pos' = pos + 1
                     ELSE phase' = following /\ pos' = 0

\* scan_slaves counts the slaves by the adp that comes back.  Without a count
\* there is no slave, and initializeECatMaster exits.
Scan ==
  /\ phase = "scan"
  /\ \E reach \in 0..BACK :
       /\ Transfer(APRD(0, EC_Slave_RD.Type), reach, {})
       /\ IF reach = BACK THEN count' = AdpAt(0, N) /\ phase' = "identify"
                          ELSE phase' = "exit" /\ UNCHANGED count
  /\ UNCHANGED <<wg05, pos, step, handler, esm, image, given, tidy>>

\* read_SII, three times: the address is written with the control register, then
\* the data is read until it is there.  A handler is made whatever was read.
Identify ==
  /\ phase = "identify"
  /\ \E reach \in 0..BACK, read \in BOOLEAN :
       LET t == APWR(ringpos2adp(pos), SIIControlAddress, EC_SII_ReadOp)
           answer == \E s \in Hits(t, reach) : wg05[s] IN
       /\ read => reach = BACK
       /\ Transfer(t, reach, {})
       /\ handler' = [handler EXCEPT ![pos] = IF read /\ answer THEN "WG05" ELSE "other"]
  /\ NextSlave("identify", "fmmus")
  /\ UNCHANGED <<wg05, step, count, esm, image, given, tidy>>

\* reset_slaves: all FMMUs, then all sync managers are written with zeros.
Reset(range, loop, following) ==
  /\ phase = loop
  /\ \E reach \in 0..BACK :
       /\ Transfer(BWR(range, 0), reach, {})
       /\ IF reach = BACK THEN phase' = following /\ UNCHANGED tidy
                          ELSE phase' = "preop" /\ tidy' = FALSE
  /\ UNCHANGED <<wg05, pos, step, handler, count, esm, image, given>>

ResetFirstFMMU ==   \* the reset writes one FMMU, not the bank
  Reset(FMMUx[0], "fmmus", "sms")

ResetFMMUs == Reset(AllFMMUs, "fmmus", "sms")
ResetSyncManagers == Reset(AllSyncManagers, "sms", "init")

\* put_slaves_in_init repeats a lost command for ever; a slave whose state cannot
\* be read, or is not INIT, ends the loop.
PutInInit ==
  /\ phase = "init"
  /\ LET t == APWR(ringpos2adp(pos), EC_Slave_RD.AL_Control, EC_State.INIT) IN
     \E reach \in 0..BACK, confirmed \in BOOLEAN : \E followers \in SUBSET Hits(t, reach) :
       /\ Transfer(t, reach, followers)
       /\ confirmed => reach = BACK /\ mem'[pos][STATUS] = EC_State.INIT
       /\ IF reach # BACK THEN UNCHANGED <<phase, pos>>
          ELSE IF confirmed THEN NextSlave("init", "preop")
          ELSE phase' = "preop" /\ pos' = 0
  /\ UNCHANGED <<wg05, step, handler, count, esm, image, given, tidy>>

-----------------------------------------------------------------------------
(* The driver's slaves go to PREOP one after the other, then to SAFEOP.      *)

Configuring == phase \in {"preop", "safeop"}
Goal == IF phase = "preop" THEN EC_State.PREOP ELSE EC_State.SAFEOP
Going == Configuring /\ handler[pos] = "WG05" /\ esm[pos] < Goal

\* The way to the next state starts with these writes: the station address by
\* position (start_mbx_comm of a simple slave); or each FMMU and each sync
\* manager by station address (start_input_update).  The comments at
\* ethercat_slave_conf.h:161 and :185 have the FMMUs "written when going to
\* preop"; the library writes them on the way from PREOP to SAFEOP.
Writes ==
  IF esm[pos] = EC_State.INIT THEN 1 ELSE FMMUS + SMS

WriteOf(k) ==
  IF esm[pos] = EC_State.INIT
  THEN APWR(ringpos2adp(pos), EC_Slave_RD.ECAT_Station_Address, pos + 1)
  ELSE LET r == IF k < FMMUS THEN FMMUx[k] ELSE Sync_Managerx[k - FMMUS]
       IN NPWR(pos + 1, r, Configuration(Before(pos), r.ado))

\* A slave that is not the driver's, or is where it should be, is passed over.
PassOver ==
  /\ Configuring /\ ~Going
  /\ IF phase = "preop" THEN NextSlave("preop", "safeop") ELSE NextSlave("safeop", "run")
  /\ UNCHANGED <<mem, wg05, step, handler, count, esm, image, last, given, tidy>>

GiveUpAgain ==   \* a transition that fails is tried once more, and again
  UNCHANGED <<phase, pos>> /\ step' = 0

\* changeState goes on with the next slave when a transition fails.
GiveUp ==
  /\ IF phase = "preop" THEN NextSlave("preop", "safeop") ELSE NextSlave("safeop", "run")
  /\ step' = 0

WriteIgnoringLoss ==   \* a write that was lost is not noticed
  /\ Going /\ step < Writes
  /\ \E reach \in 0..BACK :
       /\ Transfer(WriteOf(step), reach, {})
       /\ given' = IF pos < reach /\ esm[pos] = EC_State.INIT THEN given \cup {pos} ELSE given
       /\ step' = step + 1 /\ UNCHANGED <<phase, pos>>
  /\ UNCHANGED <<wg05, handler, count, esm, image, tidy>>

Write ==
  /\ Going /\ step < Writes
  /\ \E reach \in 0..BACK :
       /\ Transfer(WriteOf(step), reach, {})
       /\ given' = IF pos < reach /\ esm[pos] = EC_State.INIT THEN given \cup {pos} ELSE given
       /\ IF reach = BACK THEN step' = step + 1 /\ UNCHANGED <<phase, pos>> ELSE GiveUp
  /\ UNCHANGED <<wg05, handler, count, esm, image, tidy>>

\* The state that is read at station address pos + 1: the last slave that has
\* this address puts its own in.
Read(memory) ==
  LET from == {s \in Ring : memory[s][STATION] = pos + 1}
  IN IF from = {} THEN 0
     ELSE memory[CHOOSE s \in from : \A u \in from : u <= s][STATUS]

\* set_state: AL_Control is written and AL_Status read, ten times at most.
SetState ==
  /\ Going /\ step = Writes
  /\ LET t == NPWR(pos + 1, EC_Slave_RD.AL_Control, 2 * esm[pos]) IN
     \E reach \in 0..BACK, confirmed \in BOOLEAN : \E followers \in SUBSET Hits(t, reach) :
       /\ Transfer(t, reach, followers)
       /\ confirmed => reach = BACK /\ Read(mem') = 2 * esm[pos]
       /\ IF confirmed
          THEN esm' = [esm EXCEPT ![pos] = 2 * @] /\ step' = 0 /\ UNCHANGED <<phase, pos>>
          ELSE GiveUp /\ UNCHANGED esm
  /\ UNCHANGED <<wg05, handler, count, image, given, tidy>>

-----------------------------------------------------------------------------
(* EtherCAT_PD_Buffer::txandrx.  A slave takes part from SAFEOP on.          *)

Fills(s, w) ==
  /\ mem[s][STATUS] \in {EC_State.SAFEOP, EC_State.OP}
  /\ \E k \in 1 .. FMMUS - 1 : mem[s][FMMUx[k].ado] = w

\* The image is replaced by that of a frame that comes back.
Exchange ==
  /\ phase = "run"
  /\ image' = [w \in Windows |-> {s \in Ring : Fills(s, w)}]
  /\ UNCHANGED <<mem, wg05, master, last, given, tidy>>

\* A slave loses power and comes back with empty registers.
PowerCycle(s) ==
  /\ mem' = [mem EXCEPT ![s] = Blank] /\ given' = given \ {s}
  /\ UNCHANGED <<wg05, master, image, last, tidy>>

Finished == phase = "exit" /\ UNCHANGED vars

\* The start-up.
MasterStep ==
  \/ Scan \/ Identify \/ ResetFMMUs \/ ResetSyncManagers \/ PutInInit
  \/ PassOver \/ Write \/ SetState

Next == MasterStep \/ Exchange \/ Finished \/ \E s \in Ring : PowerCycle(s)

Spec == Init /\ [][Next]_vars
=============================================================================
