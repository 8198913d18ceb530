----------------------------- MODULE RingProofs -----------------------------
(***************************************************************************)
(* The properties of Ring hold for every ring of fewer than 65536 slaves   *)
(* and every number of FMMUs and sync managers a slave controller can      *)
(* have.  The argument: a position names one slave (Position), the         *)
(* registers the driver writes do not overlap (Registers), and where every *)
(* station address is fresh a station names one slave too.                 *)
(***************************************************************************)
EXTENDS RingProperties, FiniteSetTheorems, TLAPS

USE RingAssumption DEF Ring, BACK

\* The auto-increment address of a position reaches the slave at this position
\* and no other, and it is converted back to this position (ethercat_AL.h:45-61).
THEOREM Position ==
  ASSUME NEW p \in Nat, p < 65536, NEW s \in Nat, s < 65536
  PROVE  /\ AdpAt(ringpos2adp(p), s) = 0 <=> s = p
         /\ adp2ringpos(ringpos2adp(p)) = p
  BY DEF ringpos2adp, adp2ringpos, AdpAt

\* The registers that are not in a bank, and the ranges of several registers.
LEMMA Registers ==
  /\ STATION = 16 /\ CONTROL = 288 /\ STATUS = 304
  /\ EC_Slave_RD.ECAT_Station_Address = [ado |-> 16, size |-> 2]
  /\ EC_Slave_RD.AL_Control = [ado |-> 288, size |-> 2]
  /\ SIIControlAddress = [ado |-> 1282, size |-> 6]
  /\ AllFMMUs = [ado |-> 1536, size |-> 256]
  /\ AllSyncManagers = [ado |-> 2048, size |-> 256]
  BY DEF STATION, CONTROL, STATUS, FMMUx, Sync_Managerx, Bank, Register, EC_Slave_RD,
         SIIControlAddress, AllFMMUs, AllSyncManagers

\* The bank of the FMMUs.
LEMMA FMMUAt ==
  ASSUME NEW k \in 0 .. FMMUS - 1
  PROVE  FMMUx[k].ado = 1536 + 16 * k /\ FMMUx[k].size = 16
  <1>1. k \in 0..15
    OBVIOUS
  <1> QED
    BY <1>1 DEF FMMUx, Bank, Register

\* The bank of the sync managers.
LEMMA SyncAt ==
  ASSUME NEW k \in 0 .. SMS - 1
  PROVE  Sync_Managerx[k].ado = 2048 + 8 * k /\ Sync_Managerx[k].size = 8
  <1>1. k \in 0..15
    OBVIOUS
  <1> QED
    BY <1>1 DEF Sync_Managerx, Bank, Register

\* The values of the states.
LEMMA States ==
  /\ EC_State.INIT = 1 /\ EC_State.PREOP = 2 /\ EC_State.SAFEOP = 4 /\ EC_State.OP = 8
  BY DEF EC_State

\* The registers that are modelled.
LEMMA MemoryIs ==
  /\ Memory = {16, 288, 304} \cup {1536 + 16 * k : k \in 0 .. FMMUS - 1}
                             \cup {2048 + 8 * k : k \in 0 .. SMS - 1}
  /\ Memory \subseteq Nat
  <1>1. {FMMUx[c].ado : c \in 0 .. FMMUS - 1} = {1536 + 16 * k : k \in 0 .. FMMUS - 1}
    <2>1. \A c \in 0 .. FMMUS - 1 : FMMUx[c].ado = 1536 + 16 * c
      BY FMMUAt
    <2> QED
      BY <2>1
  <1>2. {Sync_Managerx[c].ado : c \in 0 .. SMS - 1} = {2048 + 8 * k : k \in 0 .. SMS - 1}
    <2>1. \A c \in 0 .. SMS - 1 : Sync_Managerx[c].ado = 2048 + 8 * c
      BY SyncAt
    <2> QED
      BY <2>1
  <1>3. STATION = 16 /\ CONTROL = 288 /\ STATUS = 304
    BY Registers
  <1>4. Memory = {16, 288, 304} \cup {1536 + 16 * k : k \in 0 .. FMMUS - 1}
                               \cup {2048 + 8 * k : k \in 0 .. SMS - 1}
    <2> DEFINE F == {FMMUx[c].ado : c \in 0 .. FMMUS - 1}
               M == {Sync_Managerx[c].ado : c \in 0 .. SMS - 1}
    <2>1. Memory = {STATION, CONTROL, STATUS} \cup F \cup M
      BY DEF Memory
    <2> HIDE DEF F, M
    <2>2. Memory = {16, 288, 304} \cup F \cup M
      BY <2>1, <1>3
    <2> QED
      BY <2>2, <1>1, <1>2 DEF F, M
  <1> QED
    BY <1>4

\* A configuration write has a register of its own.
LEMMA WrittenIs ==
  ASSUME NEW k \in 0 .. FMMUS + SMS - 1
  PROVE  Written(k) = IF k < FMMUS THEN 1536 + 16 * k ELSE 2048 + 8 * (k - FMMUS)
  <1>1. CASE k < FMMUS
    BY <1>1, FMMUAt DEF Written
  <1>2. CASE k >= FMMUS
    <2>1. k - FMMUS \in 0 .. SMS - 1
      BY <1>2
    <2> QED
      BY <1>2, <2>1, SyncAt DEF Written
  <1> QED
    BY <1>1, <1>2

\* What is configured is an FMMU or a sync manager.
LEMMA Windowed ==
  ASSUME NEW o \in Nat
  PROVE  /\ \A k \in 0 .. FMMUS - 1 : Configuration(o, FMMUx[k].ado) = WindowOf(o, k)
         /\ \A k \in 0 .. FMMUS - 1 : WindowOf(o, k) \in Nat \ {0}
         /\ \A a \in Memory : Configuration(o, a) \in Nat
  <1>1. ASSUME NEW k \in 0 .. FMMUS - 1 PROVE WindowOf(o, k) \in Nat \ {0}
    <2>1. FMMUS * o \in Nat
      OBVIOUS
    <2> QED
      BY <2>1 DEF WindowOf
  <1>2. ASSUME NEW k \in 0 .. FMMUS - 1 PROVE Configuration(o, FMMUx[k].ado) = WindowOf(o, k)
    <2>1. \A j \in 0 .. FMMUS - 1 : FMMUx[k].ado = FMMUx[j].ado <=> j = k
      <3>1. \A j \in 0 .. FMMUS - 1 : FMMUx[j].ado = 1536 + 16 * j
        BY FMMUAt
      <3> QED
        BY <3>1
    <2> QED
      BY <2>1 DEF Configuration
  <1>3. ASSUME NEW a \in Memory PROVE Configuration(o, a) \in Nat
    BY <1>1 DEF Configuration
  <1> QED
    BY <1>1, <1>2, <1>3

-----------------------------------------------------------------------------
(* The windows of the WG05 slaves. *)

\* The slaves before one can be counted.
LEMMA BeforeType == ASSUME NEW s \in Ring PROVE Before(s) \in Nat
  <1> DEFINE B == {u \in Ring : u < s /\ handler[u] = "WG05"}
  <1>1. IsFiniteSet(0 .. N - 1)
    BY FS_Interval
  <1>2. IsFiniteSet(B)
    BY <1>1, FS_Subset
  <1> QED
    BY <1>2, FS_CardinalityType DEF Before

\* A WG05 counts among those before a later slave.
LEMMA BeforeGrows ==
  ASSUME NEW s \in Ring, NEW u \in Ring, s < u, handler[s] = "WG05"
  PROVE  Before(s) + 1 <= Before(u)
  <1> DEFINE B == {v \in Ring : v < s /\ handler[v] = "WG05"}
             C == {v \in Ring : v < u /\ handler[v] = "WG05"}
  <1>0. IsFiniteSet(0 .. N - 1)
    BY FS_Interval
  <1>1. IsFiniteSet(C) /\ IsFiniteSet(B)
    BY <1>0, FS_Subset
  <1>2. s \notin B /\ B \cup {s} \subseteq C
    OBVIOUS
  <1> HIDE DEF B, C
  <1>3. Cardinality(B \cup {s}) = Cardinality(B) + 1
    BY <1>1, <1>2, FS_AddElement
  <1>4. Cardinality(B \cup {s}) <= Cardinality(C)
    BY <1>1, <1>2, FS_Subset
  <1>5. Before(s) = Cardinality(B) /\ Before(u) = Cardinality(C)
    BY DEF Before, B, C
  <1>6. Cardinality(B) \in Nat /\ Cardinality(C) \in Nat /\ Cardinality(B \cup {s}) \in Nat
    BY <1>1, <1>3, FS_CardinalityType
  <1> QED
    BY <1>3, <1>4, <1>5, <1>6

\* No two WG05 slaves have a window in common.
LEMMA WindowsApart ==
  ASSUME NEW s \in Ring, NEW u \in Ring, handler[s] = "WG05", handler[u] = "WG05",
         NEW j \in 0 .. FMMUS - 1, NEW k \in 0 .. FMMUS - 1, Window(s, j) = Window(u, k)
  PROVE  s = u
  <1>1. ASSUME NEW a \in Nat, NEW b \in Nat, NEW i \in 0 .. FMMUS - 1, NEW l \in 0 .. FMMUS - 1,
               a + 1 <= b
        PROVE  WindowOf(a, i) < WindowOf(b, l)
    <2>1. FMMUS * (a + 1) <= FMMUS * b
      BY <1>1
    <2>2. FMMUS * (a + 1) = FMMUS * a + FMMUS
      OBVIOUS
    <2>3. FMMUS * a \in Nat /\ FMMUS * b \in Nat
      OBVIOUS
    <2> QED
      BY <2>1, <2>2, <2>3 DEF WindowOf
  <1>2. Before(s) \in Nat /\ Before(u) \in Nat
    BY BeforeType
  <1>3. WindowOf(Before(s), j) = WindowOf(Before(u), k)
    BY DEF Window
  <1>4. WindowOf(Before(s), j) \in Nat /\ WindowOf(Before(u), k) \in Nat
    BY <1>2, Windowed
  <1>5. ASSUME s < u PROVE FALSE
    <2>1. WindowOf(Before(s), j) < WindowOf(Before(u), k)
      BY <1>1, <1>2, <1>5, BeforeGrows
    <2> QED
      BY <2>1, <1>3, <1>4
  <1>6. ASSUME u < s PROVE FALSE
    <2>1. WindowOf(Before(u), k) < WindowOf(Before(s), j)
      BY <1>1, <1>2, <1>6, BeforeGrows
    <2> QED
      BY <2>1, <1>3, <1>4
  <1> QED
    BY <1>5, <1>6

-----------------------------------------------------------------------------
(* Telegrams. *)

\* The telegrams in full.
LEMMA Telegrams ==
  ASSUME NEW adp, NEW range, NEW value
  PROVE  /\ APRD(adp, range) = [mode |-> "position", adp |-> adp, range |-> range,
                                writes |-> FALSE, value |-> 0]
         /\ APWR(adp, range, value) = [mode |-> "position", adp |-> adp, range |-> range,
                                       writes |-> TRUE, value |-> value]
         /\ NPWR(adp, range, value) = [mode |-> "node", adp |-> adp, range |-> range,
                                       writes |-> TRUE, value |-> value]
         /\ BWR(range, value) = [mode |-> "broadcast", adp |-> 0, range |-> range,
                                 writes |-> TRUE, value |-> value]
  BY DEF APRD, APWR, NPWR, BWR, Device_Addressing_Telegram

\* A range covers the register it is named for, and no other that is modelled.
LEMMA Covered ==
  ASSUME NEW t, NEW a \in Memory
  PROVE  /\ t.range = EC_Slave_RD.AL_Control => (Covers(t, a) <=> a = CONTROL)
         /\ t.range = EC_Slave_RD.ECAT_Station_Address => (Covers(t, a) <=> a = STATION)
         /\ t.range = SIIControlAddress => ~Covers(t, a)
         /\ \A k \in 0 .. FMMUS + SMS - 1 :
              t.range = (IF k < FMMUS THEN FMMUx[k] ELSE Sync_Managerx[k - FMMUS])
                => (Covers(t, a) <=> a = Written(k))
         /\ t.range = AllFMMUs =>
              (Covers(t, a) <=> \E k \in 0 .. FMMUS - 1 : a = FMMUx[k].ado)
         /\ t.range = AllSyncManagers => (Covers(t, a) => a >= 2048)
  <1>1. a \in Nat /\ (\/ a \in {16, 288, 304}
                     \/ \E j \in 0 .. FMMUS - 1 : a = 1536 + 16 * j
                     \/ \E i \in 0 .. SMS - 1 : a = 2048 + 8 * i)
    BY MemoryIs
  <1>2. ASSUME NEW k \in 0 .. FMMUS + SMS - 1,
               t.range = (IF k < FMMUS THEN FMMUx[k] ELSE Sync_Managerx[k - FMMUS])
        PROVE  Covers(t, a) <=> a = Written(k)
    <2>1. CASE k < FMMUS
      <3>1. t.range.ado = 1536 + 16 * k /\ t.range.size = 16
        BY <1>2, <2>1, FMMUAt
      <3> QED
        BY <1>1, <2>1, <3>1, WrittenIs DEF Covers
    <2>2. CASE k >= FMMUS
      <3>0. k - FMMUS \in 0 .. SMS - 1
        BY <2>2
      <3>1. t.range.ado = 2048 + 8 * (k - FMMUS) /\ t.range.size = 8
        BY <1>2, <2>2, <3>0, SyncAt
      <3> QED
        BY <1>1, <2>2, <3>1, WrittenIs DEF Covers
    <2> QED
      BY <2>1, <2>2
  <1>3. ASSUME t.range = AllFMMUs
        PROVE  Covers(t, a) <=> \E k \in 0 .. FMMUS - 1 : a = FMMUx[k].ado
    <2>1. \A k \in 0 .. FMMUS - 1 : FMMUx[k].ado = 1536 + 16 * k
      BY FMMUAt
    <2>2. t.range = [ado |-> 1536, size |-> 256]
      BY <1>3, Registers
    <2> QED
      BY <1>1, <2>1, <2>2 DEF Covers
  <1> QED
    BY <1>1, <1>2, <1>3, Registers DEF Covers

\* What a telegram does.
LEMMA Moves ==
  ASSUME TypeOK, NEW t, t.value \in Nat, NEW reach, NEW followers,
         Transfer(t, reach, followers)
  PROVE  /\ mem' \in [Ring -> [Memory -> Nat]]
         /\ \A s \in Ring, a \in Memory :
              mem'[s][a] = IF s \in Hits(t, reach) /\ t.writes
                           THEN Taken(t, s, a, followers) ELSE mem[s][a]
         /\ last' = [mode |-> t.mode,
                     astray |-> IF t.mode = "broadcast" THEN {} ELSE Hits(t, reach) \ {pos}]
  <1>1. ASSUME NEW s \in Ring, NEW a \in Memory PROVE Taken(t, s, a, followers) \in Nat
    BY DEF Taken, TypeOK
  <1> QED
    BY <1>1 DEF Transfer, TypeOK

\* A telegram to the AL control register changes no other but the AL status.
LEMMA Controls ==
  ASSUME TypeOK, NEW t, t.range = EC_Slave_RD.AL_Control, t.value \in Nat,
         NEW reach, NEW followers, Transfer(t, reach, followers),
         NEW s \in Ring, NEW a \in Memory \ {CONTROL, STATUS}
  PROVE  mem'[s][a] = mem[s][a]
  BY Moves, Covered DEF Taken

\* A telegram to another register changes no more than that register.
LEMMA Sets ==
  ASSUME TypeOK, NEW t, t.value \in Nat, t.writes, NEW reach,
         Transfer(t, reach, {}), NEW s \in Ring, NEW a \in Memory
  PROVE  mem'[s][a] = IF s \in Hits(t, reach) /\ Covers(t, a) THEN t.value ELSE mem[s][a]
  <1>1. Taken(t, s, a, {}) = IF Covers(t, a) THEN t.value ELSE mem[s][a]
    BY DEF Taken
  <1>2. mem'[s][a] = IF s \in Hits(t, reach) /\ t.writes THEN Taken(t, s, a, {}) ELSE mem[s][a]
    BY Moves
  <1> QED
    BY <1>1, <1>2

\* A position-addressed telegram reaches no slave but the one it is meant for.
LEMMA AtPosition ==
  ASSUME TypeOK, NEW t, t.mode = "position", t.adp = ringpos2adp(pos), NEW reach
  PROVE  Hits(t, reach) = {s \in {pos} : s < reach}
  <1>1. pos \in Ring
    BY DEF TypeOK
  <1>2. ASSUME NEW s \in Ring PROVE AdpAt(t.adp, s) = 0 <=> s = pos
    BY <1>1, Position
  <1> QED
    BY <1>1, <1>2 DEF Hits, Addressed

LEMMA NotAstray ==
  ASSUME TypeOK, NEW t, t.mode = "position", t.adp = ringpos2adp(pos), t.value \in Nat,
         NEW reach, NEW followers, Transfer(t, reach, followers)
  PROVE  last' = [mode |-> "position", astray |-> {}]
  <1>1. Hits(t, reach) \ {pos} = {}
    BY AtPosition
  <1>2. last' = [mode |-> t.mode,
                 astray |-> IF t.mode = "broadcast" THEN {} ELSE Hits(t, reach) \ {pos}]
    BY Moves
  <1>3. t.mode # "broadcast"
    OBVIOUS
  <1> QED
    BY <1>1, <1>2, <1>3

\* Two memories are the same when their registers are.
LEMMA SameMemory ==
  ASSUME NEW f \in [Ring -> [Memory -> Nat]], NEW g \in [Ring -> [Memory -> Nat]],
         \A s \in Ring, a \in Memory : f[s][a] = g[s][a]
  PROVE  f = g
  <1>1. ASSUME NEW s \in Ring PROVE f[s] = g[s]
    <2>1. f[s] \in [Memory -> Nat] /\ g[s] \in [Memory -> Nat]
      OBVIOUS
    <2> QED
      BY <2>1
  <1> QED
    BY <1>1

\* A telegram to a station address reaches the slaves that have it: one at most
\* where the addresses are fresh.
LEMMA AtStation ==
  ASSUME TypeOK, NEW t, t.mode = "node", t.adp = pos + 1, NEW reach
  PROVE  /\ Hits(t, reach) = {s \in Ring : mem[s][STATION] = pos + 1 /\ s < reach}
         /\ Fresh => Hits(t, reach) \subseteq {pos}
  <1>1. pos \in Nat /\ STATION \in Memory
    BY DEF TypeOK, Memory
  <1>2. Hits(t, reach) = {s \in Ring : mem[s][STATION] = pos + 1 /\ s < reach}
    BY DEF Hits, Addressed
  <1>3. ASSUME Fresh, NEW s \in Ring, mem[s][STATION] = pos + 1 PROVE s = pos
    BY <1>1, <1>3 DEF Fresh
  <1> QED
    BY <1>2, <1>3

\* The loops go on with a slave of the ring.
LEMMA Loops ==
  ASSUME pos \in Ring, count = N, NEW loop, NEW following, NextSlave(loop, following)
  PROVE  pos' \in Ring /\ phase' \in {loop, following}
  BY DEF NextSlave

-----------------------------------------------------------------------------
(* The invariant. *)

\* It holds when the master starts.
LEMMA InitInv == Init => IInv
  <1> SUFFICES ASSUME Init PROVE IInv
    OBVIOUS
  <1> USE DEF Init
  <1>1. 0 \in Ring
    OBVIOUS
  <1>2. TypeOK
    <2>1. Blank \in [Memory -> Nat]
      BY States DEF Blank
    <2>2. ASSUME NEW p \in Ring, NEW o \in 0..p PROVE Used(p, o) \in [Memory -> Nat]
      <3>1. \A a \in Memory : Configuration(o, a) \in Nat
        BY Windowed
      <3>2. p + 1 \in Nat
        OBVIOUS
      <3> QED
        BY <3>1, <3>2, States DEF Used
    <2>3. mem \in [Ring -> [Memory -> Nat]]
      <3> DEFINE U == UNION {{Used(p, o) : o \in 0..p} : p \in Ring}
      <3>1. \A x \in U : x \in [Memory -> Nat]
        <4> TAKE x \in U
        <4>1. PICK p \in Ring : x \in {Used(p, o) : o \in 0..p}
          OBVIOUS
        <4>2. PICK o \in 0..p : x = Used(p, o)
          BY <4>1
        <4> QED
          BY <2>2, <4>2
      <3>2. mem \in [Ring -> {Blank} \cup U]
        OBVIOUS
      <3> HIDE DEF U
      <3> QED
        BY <2>1, <3>1, <3>2
    <2>4. tidy \in BOOLEAN
      <3>1. Fresh \in BOOLEAN
        BY DEF Fresh
      <3> QED
        BY <3>1
    <2> QED
      BY <1>1, <2>3, <2>4 DEF TypeOK
  <1>3. HandlersMatch /\ OnlyMeant /\ (tidy => Fresh)
    BY DEF HandlersMatch, OnlyMeant
  <1>4. OwnWindow
    BY DEF OwnWindow
  <1>5. Order
    BY DEF Order
  <1>6. Progress
    BY DEF Progress
  <1> QED
    BY <1>2, <1>3, <1>4, <1>5, <1>6 DEF IInv

\* Where no configuration and no handler changes, windows stay apart.
LEMMA WindowsKept ==
  ASSUME OwnWindow, UNCHANGED <<tidy, handler, image>>,
         phase' \in {"sms", "init", "preop", "safeop", "run"} =>
           phase \in {"sms", "init", "preop", "safeop", "run"},
         \A s \in Ring, k \in 0 .. FMMUS - 1 : mem'[s][FMMUx[k].ado] = mem[s][FMMUx[k].ado]
  PROVE  OwnWindow'
  <1>1. \A s \in Ring, k \in 0 .. FMMUS - 1 : Window(s, k)' = Window(s, k)
    BY DEF Window, Before
  <1> QED
    BY <1>1 DEF OwnWindow

\* An FMMU is a register apart from those of the state and the station.
LEMMA FMMUApart ==
  ASSUME NEW k \in 0 .. FMMUS - 1
  PROVE  /\ FMMUx[k].ado \in Memory \ {STATION, CONTROL, STATUS}
         /\ FMMUx[k].ado = Written(k) /\ FMMUx[k].ado < 2048
  <1>1. FMMUx[k].ado = 1536 + 16 * k /\ STATION = 16 /\ CONTROL = 288 /\ STATUS = 304
    BY FMMUAt, Registers
  <1>2. FMMUx[k].ado \in Memory
    BY DEF Memory
  <1>3. FMMUx[k].ado = Written(k)
    BY DEF Written
  <1> QED
    BY <1>1, <1>2, <1>3

\* So is the station address.
LEMMA StationApart == STATION \in Memory \ {CONTROL, STATUS}
  BY Registers DEF Memory

\* Who is meant stays so where no station address and no handler changes.
LEMMA MeantKept ==
  ASSUME HandlersMatch, OnlyMeant, tidy => Fresh, given \in SUBSET Ring,
         UNCHANGED <<wg05, handler, given, count>>, count = N, tidy' => tidy,
         last'.astray = {}, \A s \in Ring : mem'[s][STATION] = mem[s][STATION]
  PROVE  HandlersMatch' /\ OnlyMeant' /\ (tidy => Fresh)'
  <1>1. HandlersMatch'
    BY DEF HandlersMatch
  <1>2. OnlyMeant'
    BY DEF OnlyMeant
  <1>3. tidy' => Fresh'
    BY DEF Fresh
  <1> QED
    BY <1>1, <1>2, <1>3

\* The scan counts the ring.
LEMMA ScanInv == ASSUME IInv, Scan PROVE IInv'
  <1> DEFINE t == APRD(0, EC_Slave_RD.Type)
  <1>0. TypeOK /\ HandlersMatch /\ OnlyMeant /\ OwnWindow /\ (tidy => Fresh) /\ Order /\ Progress
    BY DEF IInv
  <1>1. PICK reach \in 0..BACK :
          /\ Transfer(t, reach, {})
          /\ IF reach = BACK THEN count' = AdpAt(0, N) /\ phase' = "identify"
                             ELSE phase' = "exit" /\ UNCHANGED count
    BY DEF Scan
  <1>2. t.mode = "position" /\ t.adp = 0 /\ ~t.writes /\ t.value = 0
    BY Telegrams
  <1>3. /\ phase = "scan" /\ pos = 0 /\ step' = step /\ pos' = pos
        /\ UNCHANGED <<wg05, handler, esm, image, given, tidy>>
    BY <1>0 DEF Scan, Order
  <1>4. mem' \in [Ring -> [Memory -> Nat]] /\ mem' = mem
    <2>1. mem' \in [Ring -> [Memory -> Nat]] /\ \A s \in Ring, a \in Memory : mem'[s][a] = mem[s][a]
      BY <1>0, <1>1, <1>2, Moves
    <2> QED
      BY <1>0, <2>1, SameMemory DEF TypeOK
  <1>5. AdpAt(0, N) = N
    BY DEF AdpAt
  <1>6. last' = [mode |-> "position", astray |-> {}]
    <2>1. t.adp = ringpos2adp(pos)
      BY <1>2, <1>3 DEF ringpos2adp
    <2> QED
      BY <1>0, <1>1, <1>2, <2>1, NotAstray
  <1>7. step = 0 /\ step' = 0
    BY <1>0, <1>3 DEF Order, Going, Configuring, TypeOK
  <1>8. TypeOK'
    BY <1>0, <1>1, <1>3, <1>4, <1>5, <1>6 DEF TypeOK
  <1>9. HandlersMatch' /\ OnlyMeant' /\ (tidy => Fresh)'
    BY <1>0, <1>1, <1>3, <1>4, <1>5, <1>6 DEF HandlersMatch, OnlyMeant, Fresh
  <1>10. OwnWindow'
    BY <1>0, <1>1, <1>3, <1>4, WindowsKept
  <1>11. Order' /\ Progress'
    BY <1>0, <1>1, <1>3, <1>7 DEF Order, Progress
  <1> QED
    BY <1>8, <1>9, <1>10, <1>11 DEF IInv

\* An identification writes no register that is modelled, and what it reads is
\* from the slave at the handler's position.
LEMMA IdentifyInv == ASSUME IInv, Identify PROVE IInv'
  <1> DEFINE t == APWR(ringpos2adp(pos), SIIControlAddress, EC_SII_ReadOp)
  <1>0. TypeOK /\ HandlersMatch /\ OnlyMeant /\ OwnWindow /\ (tidy => Fresh) /\ Order /\ Progress
    BY DEF IInv
  <1>1. PICK reach \in 0..BACK, read \in BOOLEAN :
          /\ Transfer(t, reach, {})
          /\ handler' = [handler EXCEPT ![pos] =
               IF read /\ (\E s \in Hits(t, reach) : wg05[s]) THEN "WG05" ELSE "other"]
    BY DEF Identify
  <1>2. /\ phase = "identify" /\ NextSlave("identify", "fmmus")
        /\ UNCHANGED <<wg05, step, count, esm, image, given, tidy>>
    BY DEF Identify
  <1>3. pos \in Ring /\ count = N
    BY <1>0, <1>2 DEF TypeOK, HandlersMatch
  <1>4. pos' \in Ring /\ phase' \in {"identify", "fmmus"}
    BY <1>2, <1>3, Loops
  <1>5. t.mode = "position" /\ t.adp = ringpos2adp(pos) /\ t.value \in Nat /\ t.writes
        /\ t.range = SIIControlAddress
    BY Telegrams DEF EC_SII_ReadOp
  <1>6. mem' \in [Ring -> [Memory -> Nat]] /\ mem' = mem
    <2>1. mem' \in [Ring -> [Memory -> Nat]]
      BY <1>0, <1>1, <1>5, Moves
    <2>2. \A s \in Ring, a \in Memory : mem'[s][a] = mem[s][a]
      BY <1>0, <1>1, <1>5, Sets, Covered
    <2> QED
      BY <1>0, <2>1, <2>2, SameMemory DEF TypeOK
  <1>7. Hits(t, reach) \subseteq {pos}
    BY <1>0, <1>5, AtPosition
  <1>8. last' = [mode |-> "position", astray |-> {}]
    BY <1>0, <1>1, <1>5, NotAstray
  <1> HIDE DEF t
  <1>9. handler' \in [Ring -> {"none", "WG05", "other"}]
    BY <1>0, <1>1, <1>3 DEF TypeOK
  <1>10. step = 0 /\ step' = 0
    BY <1>0, <1>2 DEF Order, Going, Configuring, TypeOK
  <1>11. TypeOK'
    BY <1>0, <1>2, <1>4, <1>6, <1>8, <1>9 DEF TypeOK
  <1>12. HandlersMatch'
    <2>1. ASSUME NEW s \in Ring, handler'[s] = "WG05" PROVE wg05[s]
      BY <1>0, <1>1, <1>3, <1>7, <2>1 DEF TypeOK, HandlersMatch
    <2> QED
      BY <1>2, <1>3, <2>1 DEF HandlersMatch
  <1>13. OnlyMeant' /\ (tidy => Fresh)'
    BY <1>0, <1>2, <1>6, <1>8 DEF OnlyMeant, Fresh
  <1>14. OwnWindow'
    BY <1>0, <1>2, <1>4 DEF OwnWindow
  <1>15. Order' /\ Progress'
    BY <1>0, <1>2, <1>4, <1>10 DEF Order, Progress
  <1> QED
    BY <1>11, <1>12, <1>13, <1>14, <1>15 DEF IInv

\* A reset of all FMMUs or of all sync managers that comes back has cleared them
\* on every slave, and no telegram of the reset changes another register.
LEMMA Clears ==
  ASSUME TypeOK, NEW t, t.mode = "broadcast", t.value = 0, t.writes,
         NEW reach, Transfer(t, reach, {})
  PROVE  /\ mem' \in [Ring -> [Memory -> Nat]]
         /\ last' = [mode |-> "broadcast", astray |-> {}]
         /\ \A s \in Ring, a \in Memory :
              mem'[s][a] = IF s < reach /\ Covers(t, a) THEN 0 ELSE mem[s][a]
  <1>1. t.value \in Nat
    OBVIOUS
  <1>2. Hits(t, reach) = {s \in Ring : s < reach}
    BY DEF Hits, Addressed
  <1>3. ASSUME NEW s \in Ring, NEW a \in Memory
        PROVE  mem'[s][a] = IF s < reach /\ Covers(t, a) THEN 0 ELSE mem[s][a]
    BY <1>1, <1>2, Sets
  <1>4. last' = [mode |-> t.mode,
                 astray |-> IF t.mode = "broadcast" THEN {} ELSE Hits(t, reach) \ {pos}]
    BY <1>1, Moves
  <1>5. mem' \in [Ring -> [Memory -> Nat]]
    BY <1>1, Moves
  <1> QED
    BY <1>3, <1>4, <1>5

\* The reset of the FMMUs leaves no window behind, or the ring is not tidy.
LEMMA ResetFMMUsInv == ASSUME IInv, ResetFMMUs PROVE IInv'
  <1>0. TypeOK /\ HandlersMatch /\ OnlyMeant /\ OwnWindow /\ (tidy => Fresh) /\ Order /\ Progress
    BY DEF IInv
  <1>1. PICK reach \in 0..BACK :
          /\ Transfer(BWR(AllFMMUs, 0), reach, {})
          /\ IF reach = BACK THEN phase' = "sms" /\ UNCHANGED tidy
                             ELSE phase' = "preop" /\ tidy' = FALSE
    BY DEF ResetFMMUs, Reset
  <1>2. phase = "fmmus" /\ UNCHANGED <<wg05, pos, step, handler, count, esm, image, given>>
    BY DEF ResetFMMUs, Reset
  <1>3. /\ mem' \in [Ring -> [Memory -> Nat]]
        /\ last' = [mode |-> "broadcast", astray |-> {}]
        /\ \A s \in Ring, a \in Memory :
             mem'[s][a] = IF s < reach /\ Covers(BWR(AllFMMUs, 0), a) THEN 0 ELSE mem[s][a]
    <2>1. BWR(AllFMMUs, 0).mode = "broadcast" /\ BWR(AllFMMUs, 0).value = 0 /\ BWR(AllFMMUs, 0).writes
      BY Telegrams
    <2> QED
      BY <1>0, <1>1, <2>1, Clears
  <1>4. BWR(AllFMMUs, 0).range = AllFMMUs
    BY Telegrams
  <1>5. STATION \in Memory /\ \A s \in Ring : mem'[s][STATION] = mem[s][STATION]
    <2>1. STATION \in Memory
      BY DEF Memory
    <2>2. ~Covers(BWR(AllFMMUs, 0), STATION)
      BY <1>4, <2>1, Covered, FMMUApart
    <2> QED
      BY <1>3, <2>1, <2>2
  <1>6. reach = BACK => \A s \in Ring, k \in 0 .. FMMUS - 1 : mem'[s][FMMUx[k].ado] = 0
    <2>1. \A k \in 0 .. FMMUS - 1 : FMMUx[k].ado \in Memory /\ Covers(BWR(AllFMMUs, 0), FMMUx[k].ado)
      BY <1>4, Covered, FMMUApart
    <2> QED
      BY <1>3, <2>1
  <1>7. step = 0 /\ step' = 0
    BY <1>0, <1>2 DEF Order, Going, Configuring, TypeOK
  <1>12. /\ tidy' \in BOOLEAN
         /\ tidy' => tidy
         /\ tidy' => reach = BACK
    <2> HIDE DEF BACK
    <2>1. CASE reach = BACK
      <3>1. tidy' = tidy /\ tidy \in BOOLEAN
        BY <1>0, <1>1, <2>1 DEF TypeOK
      <3> QED
        BY <2>1, <3>1
    <2>2. CASE reach # BACK
      <3>1. tidy' = FALSE
        BY <1>1, <2>2
      <3>2. tidy' \in BOOLEAN
        BY ONLY <3>1
      <3>3. ~tidy'
        BY <3>1
      <3> QED
        BY <3>2, <3>3
    <2> QED
      BY <2>1, <2>2
  <1>8. TypeOK'
    <2>1. tidy' \in BOOLEAN
      BY <1>12
    <2> QED
      BY <1>0, <1>1, <1>2, <1>3, <2>1 DEF TypeOK
  <1>9. HandlersMatch' /\ OnlyMeant' /\ (tidy => Fresh)'
    <2>1. count = N /\ given \in SUBSET Ring
      BY <1>0, <1>2 DEF TypeOK, HandlersMatch
    <2>2. tidy' => tidy
      BY <1>12
    <2>3. last'.astray = {}
      BY <1>3
    <2> QED
      BY <1>0, <1>2, <1>5, <2>1, <2>2, <2>3, MeantKept
  <1>10. OwnWindow'
    <2>1. \A w \in Windows : image'[w] = {}
      BY <1>0, <1>2 DEF Order
    <2>2. tidy' => reach = BACK
      BY <1>12
    <2> QED
      BY <1>6, <2>1, <2>2 DEF OwnWindow
  <1>11. Order' /\ Progress'
    BY <1>0, <1>1, <1>2, <1>7 DEF Order, Progress
  <1> QED
    BY <1>8, <1>9, <1>10, <1>11 DEF IInv

\* The reset of the sync managers touches no window.
LEMMA ResetSyncManagersInv == ASSUME IInv, ResetSyncManagers PROVE IInv'
  <1>0. TypeOK /\ HandlersMatch /\ OnlyMeant /\ OwnWindow /\ (tidy => Fresh) /\ Order /\ Progress
    BY DEF IInv
  <1>1. PICK reach \in 0..BACK :
          /\ Transfer(BWR(AllSyncManagers, 0), reach, {})
          /\ IF reach = BACK THEN phase' = "init" /\ UNCHANGED tidy
                             ELSE phase' = "preop" /\ tidy' = FALSE
    BY DEF ResetSyncManagers, Reset
  <1>2. phase = "sms" /\ UNCHANGED <<wg05, pos, step, handler, count, esm, image, given>>
    BY DEF ResetSyncManagers, Reset
  <1>3. /\ mem' \in [Ring -> [Memory -> Nat]]
        /\ last' = [mode |-> "broadcast", astray |-> {}]
        /\ \A s \in Ring, a \in Memory :
             mem'[s][a] = IF s < reach /\ Covers(BWR(AllSyncManagers, 0), a) THEN 0 ELSE mem[s][a]
    <2>1. BWR(AllSyncManagers, 0).mode = "broadcast" /\ BWR(AllSyncManagers, 0).value = 0 /\ BWR(AllSyncManagers, 0).writes
      BY Telegrams
    <2> QED
      BY <1>0, <1>1, <2>1, Clears
  <1>4. ASSUME NEW a \in Memory, a < 2048 PROVE \A s \in Ring : mem'[s][a] = mem[s][a]
    <2>1. BWR(AllSyncManagers, 0).range = AllSyncManagers
      BY Telegrams
    <2>2. ~Covers(BWR(AllSyncManagers, 0), a)
      BY <1>4, <2>1, Covered, MemoryIs
    <2> QED
      BY <1>3, <2>2
  <1>5. \A s \in Ring : mem'[s][STATION] = mem[s][STATION]
    BY <1>4, Registers, STATION \in Memory DEF Memory
  <1>6. \A s \in Ring, k \in 0 .. FMMUS - 1 : mem'[s][FMMUx[k].ado] = mem[s][FMMUx[k].ado]
    BY <1>4, FMMUApart
  <1>7. step = 0 /\ step' = 0
    BY <1>0, <1>2 DEF Order, Going, Configuring, TypeOK
  <1>12. /\ tidy' \in BOOLEAN
         /\ tidy' => tidy
         /\ tidy' => reach = BACK
    <2> HIDE DEF BACK
    <2>1. CASE reach = BACK
      <3>1. tidy' = tidy /\ tidy \in BOOLEAN
        BY <1>0, <1>1, <2>1 DEF TypeOK
      <3> QED
        BY <2>1, <3>1
    <2>2. CASE reach # BACK
      <3>1. tidy' = FALSE
        BY <1>1, <2>2
      <3>2. tidy' \in BOOLEAN
        BY ONLY <3>1
      <3>3. ~tidy'
        BY <3>1
      <3> QED
        BY <3>2, <3>3
    <2> QED
      BY <2>1, <2>2
  <1>8. TypeOK'
    <2>1. tidy' \in BOOLEAN
      BY <1>12
    <2> QED
      BY <1>0, <1>1, <1>2, <1>3, <2>1 DEF TypeOK
  <1>9. HandlersMatch' /\ OnlyMeant' /\ (tidy => Fresh)'
    <2>1. count = N /\ given \in SUBSET Ring
      BY <1>0, <1>2 DEF TypeOK, HandlersMatch
    <2>2. tidy' => tidy
      BY <1>12
    <2>3. last'.astray = {}
      BY <1>3
    <2> QED
      BY <1>0, <1>2, <1>5, <2>1, <2>2, <2>3, MeantKept
  <1>10. OwnWindow'
    <2>1. CASE reach = BACK
      <3>1. tidy' = tidy
        BY <1>0, <1>1, <2>1 DEF TypeOK
      <3> QED
        BY <1>0, <1>1, <1>2, <1>6, <3>1, WindowsKept
    <2>2. CASE reach # BACK
      <3>1. ~tidy'
        BY <1>12, <2>2
      <3> QED
        BY <3>1 DEF OwnWindow
    <2> QED
      BY <2>1, <2>2
  <1>11. Order' /\ Progress'
    BY <1>0, <1>1, <1>2, <1>7 DEF Order, Progress
  <1> QED
    BY <1>8, <1>9, <1>10, <1>11 DEF IInv

\* A slave told to go to INIT keeps its configuration.
LEMMA PutInInitInv == ASSUME IInv, PutInInit PROVE IInv'
  <1> DEFINE t == APWR(ringpos2adp(pos), EC_Slave_RD.AL_Control, EC_State.INIT)
  <1>0. TypeOK /\ HandlersMatch /\ OnlyMeant /\ OwnWindow /\ (tidy => Fresh) /\ Order /\ Progress
    BY DEF IInv
  <1>1. PICK reach \in 0..BACK, confirmed \in BOOLEAN, followers \in SUBSET Ring :
          /\ Transfer(t, reach, followers)
          /\ IF reach # BACK THEN UNCHANGED <<phase, pos>>
             ELSE IF confirmed THEN NextSlave("init", "preop")
             ELSE phase' = "preop" /\ pos' = 0
    <2>1. \A r : Hits(t, r) \subseteq Ring
      BY DEF Hits, Addressed
    <2> HIDE DEF t
    <2> QED
      BY <2>1 DEF PutInInit, t
  <1>2. /\ phase = "init"
        /\ UNCHANGED <<wg05, step, handler, count, esm, image, given, tidy>>
    BY DEF PutInInit
  <1>3. pos' \in Ring /\ phase' \in {"init", "preop"}
    <2>1. pos \in Ring /\ count = N /\ 0 \in Ring
      BY <1>0, <1>2 DEF TypeOK, HandlersMatch
    <2>2. CASE reach # BACK
      BY <1>1, <1>2, <2>1, <2>2
    <2>3. CASE reach = BACK /\ confirmed
      BY <1>1, <2>1, <2>3, Loops
    <2>4. CASE reach = BACK /\ ~confirmed
      BY <1>1, <2>1, <2>4
    <2> QED
      BY <2>2, <2>3, <2>4
  <1>4. t.mode = "position" /\ t.adp = ringpos2adp(pos) /\ t.value \in Nat /\ t.writes
        /\ t.range = EC_Slave_RD.AL_Control
    BY Telegrams, States
  <1>5. Transfer(t, reach, followers)
    BY <1>1
  <1> HIDE DEF t
  <1>6. mem' \in [Ring -> [Memory -> Nat]]
    BY <1>0, <1>4, <1>5, Moves
  <1>7. \A s \in Ring, a \in Memory \ {CONTROL, STATUS} : mem'[s][a] = mem[s][a]
    BY <1>0, <1>4, <1>5, Controls
  <1>8. last' = [mode |-> "position", astray |-> {}]
    BY <1>0, <1>4, <1>5, NotAstray
  <1>9. step = 0 /\ step' = 0
    BY <1>0, <1>2 DEF Order, Going, Configuring, TypeOK
  <1>10. TypeOK'
    BY <1>0, <1>2, <1>3, <1>6, <1>8 DEF TypeOK
  <1>11. HandlersMatch' /\ OnlyMeant' /\ (tidy => Fresh)'
    <2>1. \A s \in Ring : mem'[s][STATION] = mem[s][STATION]
      BY <1>7, StationApart
    <2>2. count = N /\ given \in SUBSET Ring
      BY <1>0, <1>2 DEF TypeOK, HandlersMatch
    <2> QED
      BY <1>0, <1>2, <1>8, <2>1, <2>2, MeantKept
  <1>12. OwnWindow'
    <2>1. \A s \in Ring, k \in 0 .. FMMUS - 1 : mem'[s][FMMUx[k].ado] = mem[s][FMMUx[k].ado]
      BY <1>7, FMMUApart
    <2> QED
      BY <1>0, <1>2, <1>3, <2>1, WindowsKept
  <1>13. Order' /\ Progress'
    BY <1>0, <1>2, <1>3, <1>9 DEF Order, Progress
  <1> QED
    BY <1>10, <1>11, <1>12, <1>13 DEF IInv

\* The slave whose turn it is, while the driver's slaves are configured.
LEMMA Turn ==
  ASSUME IInv, Going
  PROVE  /\ pos \in Ring /\ count = N /\ handler[pos] = "WG05" /\ phase \in {"preop", "safeop"}
         /\ esm[pos] = EC_State.INIT \/ (esm[pos] = EC_State.PREOP /\ phase = "safeop")
         /\ \A w \in Windows : image[w] = {}
         /\ given \in SUBSET Ring
  <1> USE DEF IInv
  <1>1. pos \in Ring /\ phase \in {"preop", "safeop"} /\ handler[pos] = "WG05" /\ count = N
        /\ given \in SUBSET Ring
    BY DEF Going, Configuring, TypeOK, HandlersMatch
  <1>2. \A w \in Windows : image[w] = {}
    BY <1>1 DEF Order
  <1>3. esm[pos] \in {1, 2, 4} /\ esm[pos] < Goal
    BY <1>1, States DEF TypeOK, Going
  <1>4. esm[pos] = 1 \/ (esm[pos] = 2 /\ phase = "safeop")
    BY <1>1, <1>3, States DEF Goal
  <1> QED
    BY <1>1, <1>2, <1>4, States

\* What is configured is apart from the state and the station too.
LEMMA WrittenApart ==
  ASSUME NEW k \in 0 .. FMMUS + SMS - 1
  PROVE  Written(k) \in Memory \ {STATION, CONTROL, STATUS}
  <1>1. CASE k < FMMUS
    BY <1>1, FMMUApart
  <1>2. CASE k >= FMMUS
    <2>1. Written(k) = 2048 + 8 * (k - FMMUS) /\ k - FMMUS \in 0 .. SMS - 1
      BY <1>2, WrittenIs
    <2>2. Written(k) \in Memory
      BY <2>1, MemoryIs
    <2> QED
      BY <2>1, <2>2, Registers
  <1> QED
    BY <1>1, <1>2

\* Its loop goes on with a slave of the ring.
LEMMA GivesUp ==
  ASSUME pos \in Ring, count = N, phase \in {"preop", "safeop"},
         IF phase = "preop" THEN NextSlave("preop", "safeop") ELSE NextSlave("safeop", "run")
  PROVE  pos' \in Ring /\ phase' \in {"preop", "safeop", "run"}
  <1>1. CASE phase = "preop"
    BY <1>1, Loops
  <1>2. CASE phase = "safeop"
    BY <1>2, Loops
  <1> QED
    BY <1>1, <1>2

\* A slave that is passed over has no write under way.
LEMMA PassOverInv == ASSUME IInv, PassOver PROVE IInv'
  <1>0. TypeOK /\ HandlersMatch /\ OnlyMeant /\ OwnWindow /\ (tidy => Fresh) /\ Order /\ Progress
    BY DEF IInv
  <1>1. /\ phase \in {"preop", "safeop"} /\ ~Going
        /\ UNCHANGED <<mem, wg05, step, handler, count, esm, image, last, given, tidy>>
    BY DEF PassOver, Configuring
  <1>2. pos \in Ring /\ count = N
    BY <1>0, <1>1 DEF TypeOK, HandlersMatch
  <1>3. pos' \in Ring /\ phase' \in {"preop", "safeop", "run"}
    BY <1>1, <1>2, GivesUp DEF PassOver
  <1>4. step = 0 /\ step' = 0
    BY <1>0, <1>1 DEF Order, TypeOK
  <1>5. TypeOK'
    BY <1>0, <1>1, <1>3 DEF TypeOK
  <1>6. HandlersMatch' /\ OnlyMeant' /\ (tidy => Fresh)'
    BY <1>0, <1>1, <1>2 DEF HandlersMatch, OnlyMeant, Fresh
  <1>7. OwnWindow'
    BY <1>0, <1>1, <1>3, WindowsKept
  <1>8. Order' /\ Progress'
    BY <1>0, <1>1, <1>3, <1>4 DEF Order, Progress
  <1> QED
    BY <1>5, <1>6, <1>7, <1>8 DEF IInv

\* What a configuration write leaves alone, and where the loop goes on.
LEMMA AfterWrite ==
  ASSUME IInv, Write
  PROVE  /\ pos' \in Ring /\ phase' \in {"preop", "safeop", "run"}
         /\ step' \in 0 .. FMMUS + SMS
         /\ step' > 0 => step' = step + 1 /\ phase' = phase /\ pos' = pos
         /\ Going /\ step \in 0 .. Writes - 1
         /\ UNCHANGED <<wg05, handler, count, esm, image, tidy>>
  <1>1. /\ Going /\ step < Writes
        /\ UNCHANGED <<wg05, handler, count, esm, image, tidy>>
    BY DEF Write
  <1>2. \/ step' = step + 1 /\ UNCHANGED <<phase, pos>>
        \/ GiveUp
    BY DEF Write
  <1>3. pos \in Ring /\ count = N /\ phase \in {"preop", "safeop"}
    BY <1>1, Turn
  <1>4. step \in Nat /\ Writes \in 0 .. FMMUS + SMS
    BY DEF Writes, IInv, TypeOK
  <1>5. GiveUp => pos' \in Ring /\ phase' \in {"preop", "safeop", "run"} /\ step' = 0
    BY <1>3, GivesUp DEF GiveUp
  <1> QED
    BY <1>1, <1>2, <1>3, <1>4, <1>5

\* The station address is given to the slave at the position that belongs to it.
LEMMA AddressInv == ASSUME IInv, Write, esm[pos] = EC_State.INIT PROVE IInv'
  <1> DEFINE t == WriteOf(step)
  <1>0. TypeOK /\ HandlersMatch /\ OnlyMeant /\ OwnWindow /\ (tidy => Fresh) /\ Order /\ Progress
    BY DEF IInv
  <1>1. /\ pos' \in Ring /\ phase' \in {"preop", "safeop", "run"}
        /\ step' \in 0 .. FMMUS + SMS
        /\ step' > 0 => step' = step + 1 /\ phase' = phase /\ pos' = pos
        /\ Going
        /\ UNCHANGED <<wg05, handler, count, esm, image, tidy>>
    BY AfterWrite
  <1>2. pos \in Ring /\ count = N /\ phase \in {"preop", "safeop"} /\ given \in SUBSET Ring
    BY <1>1, Turn
  <1>3. PICK reach \in 0..BACK :
          /\ Transfer(t, reach, {})
          /\ given' = IF pos < reach THEN given \cup {pos} ELSE given
    BY DEF Write
  <1>4. /\ t.mode = "position" /\ t.adp = ringpos2adp(pos) /\ t.value = pos + 1 /\ t.writes
        /\ t.range = EC_Slave_RD.ECAT_Station_Address
    BY Telegrams DEF WriteOf
  <1> HIDE DEF t
  <1>5. t.value \in Nat
    BY <1>2, <1>4
  <1>6. mem' \in [Ring -> [Memory -> Nat]] /\ last' = [mode |-> "position", astray |-> {}]
    BY <1>0, <1>3, <1>4, <1>5, Moves, NotAstray
  <1>7. \A s \in Ring, a \in Memory :
          mem'[s][a] = IF s = pos /\ pos < reach /\ a = STATION THEN pos + 1 ELSE mem[s][a]
    <2> TAKE s \in Ring, a \in Memory
    <2>1. mem'[s][a] = IF s \in Hits(t, reach) /\ Covers(t, a) THEN t.value ELSE mem[s][a]
      BY <1>0, <1>3, <1>4, <1>5, Sets
    <2>2. s \in Hits(t, reach) <=> s = pos /\ pos < reach
      BY <1>0, <1>4, AtPosition
    <2>3. Covers(t, a) <=> a = STATION
      BY <1>4, Covered
    <2> QED
      BY <1>4, <2>1, <2>2, <2>3
  <1>8. TypeOK'
    BY <1>0, <1>1, <1>2, <1>3, <1>6 DEF TypeOK
  <1>9. HandlersMatch'
    BY <1>0, <1>1, <1>2 DEF HandlersMatch
  <1>10. OnlyMeant' /\ (tidy => Fresh)'
    <2>1. \A s \in Ring : mem'[s][STATION] =
            IF s = pos /\ pos < reach THEN pos + 1 ELSE mem[s][STATION]
      BY <1>7, StationApart
    <2>2. \A s \in given' : mem'[s][STATION] = s + 1
      BY <1>0, <1>2, <1>3, <2>1 DEF OnlyMeant
    <2>3. last'.astray = {}
      BY <1>6
    <2>4. tidy' => Fresh'
      BY <1>0, <1>1, <2>1 DEF Fresh
    <2> QED
      BY <2>2, <2>3, <2>4 DEF OnlyMeant
  <1>11. OwnWindow'
    <2>1. \A s \in Ring, k \in 0 .. FMMUS - 1 : mem'[s][FMMUx[k].ado] = mem[s][FMMUx[k].ado]
      BY <1>7, FMMUApart
    <2> QED
      BY <1>0, <1>1, <1>2, <2>1, WindowsKept
  <1>12. Order'
    BY <1>0, <1>1, <1>2 DEF Order, Going, Configuring, Goal
  <1>13. Progress'
    BY <1>1, <1>2, States DEF Progress
  <1> QED
    BY <1>8, <1>9, <1>10, <1>11, <1>12, <1>13 DEF IInv

\* A configuration write goes to the slaves with the handler's station address: to
\* its own slave only, where addresses are fresh, and to none that was given another.
LEMMA ConfigureInv == ASSUME IInv, Write, esm[pos] = EC_State.PREOP PROVE IInv'
  <1> DEFINE t == WriteOf(step)
  <1>0. TypeOK /\ HandlersMatch /\ OnlyMeant /\ OwnWindow /\ (tidy => Fresh) /\ Order /\ Progress
    BY DEF IInv
  <1>1. /\ pos' \in Ring /\ phase' \in {"preop", "safeop", "run"}
        /\ step' \in 0 .. FMMUS + SMS
        /\ step' > 0 => step' = step + 1 /\ phase' = phase /\ pos' = pos
        /\ Going /\ step \in 0 .. Writes - 1
        /\ UNCHANGED <<wg05, handler, count, esm, image, tidy>>
    BY AfterWrite
  <1>2. /\ pos \in Ring /\ count = N /\ phase \in {"preop", "safeop"} /\ given \in SUBSET Ring
        /\ handler[pos] = "WG05" /\ \A w \in Windows : image[w] = {}
    BY <1>1, Turn
  <1>3. PICK reach \in 0..BACK :
          /\ Transfer(t, reach, {})
          /\ given' = given
          /\ step' > 0 => reach = BACK
    <2>1. EC_State.PREOP # EC_State.INIT
      BY States
    <2> HIDE DEF t
    <2> QED
      BY <2>1 DEF Write, GiveUp, t
  <1>4. step \in 0 .. FMMUS + SMS - 1
    BY <1>1, States DEF Writes
  <1>5. /\ t.mode = "node" /\ t.adp = pos + 1 /\ t.writes
        /\ t.range = IF step < FMMUS THEN FMMUx[step] ELSE Sync_Managerx[step - FMMUS]
        /\ t.value = Configuration(Before(pos), Written(step))
    <2> DEFINE r == IF step < FMMUS THEN FMMUx[step] ELSE Sync_Managerx[step - FMMUS]
    <2>1. r.ado = Written(step)
      BY DEF Written
    <2>2. t = NPWR(pos + 1, r, Configuration(Before(pos), r.ado))
      BY States DEF WriteOf
    <2> HIDE DEF r
    <2>3. /\ t.mode = "node" /\ t.adp = pos + 1 /\ t.writes /\ t.range = r
          /\ t.value = Configuration(Before(pos), r.ado)
      BY <2>2, Telegrams
    <2> QED
      BY <2>1, <2>3 DEF r
  <1> HIDE DEF t
  <1>6. Written(step) \in Memory \ {STATION, CONTROL, STATUS}
    BY <1>4, WrittenApart
  <1>7. t.value \in Nat
    BY <1>2, <1>5, <1>6, BeforeType, Windowed
  <1>8. /\ mem' \in [Ring -> [Memory -> Nat]]
        /\ last' = [mode |-> "node", astray |-> Hits(t, reach) \ {pos}]
    BY <1>0, <1>3, <1>5, <1>7, Moves
  <1>9. /\ Hits(t, reach) = {s \in Ring : mem[s][STATION] = pos + 1 /\ s < reach}
        /\ Fresh => Hits(t, reach) \subseteq {pos}
    BY <1>0, <1>5, AtStation
  <1>10. \A s \in Ring, a \in Memory :
           mem'[s][a] = IF s \in Hits(t, reach) /\ a = Written(step)
                        THEN Configuration(Before(pos), Written(step)) ELSE mem[s][a]
    <2> TAKE s \in Ring, a \in Memory
    <2>1. mem'[s][a] = IF s \in Hits(t, reach) /\ Covers(t, a) THEN t.value ELSE mem[s][a]
      BY <1>0, <1>3, <1>5, <1>7, Sets
    <2>2. Covers(t, a) <=> a = Written(step)
      BY <1>4, <1>5, Covered
    <2> QED
      BY <1>5, <2>1, <2>2
  <1>11. \A s \in Ring : mem'[s][STATION] = mem[s][STATION]
    BY <1>6, <1>10, StationApart
  <1>12. TypeOK'
    BY <1>0, <1>1, <1>3, <1>8, <1>9 DEF TypeOK
  <1>13. HandlersMatch'
    BY <1>0, <1>1, <1>2 DEF HandlersMatch
  <1>14. OnlyMeant' /\ (tidy => Fresh)'
    <2>1. \A s \in given' : mem'[s][STATION] = s + 1
      BY <1>0, <1>2, <1>3, <1>11 DEF OnlyMeant
    <2>2. ASSUME NEW s \in last'.astray, s \in given' PROVE FALSE
      <3>1. s \in Ring /\ mem[s][STATION] = pos + 1 /\ s # pos
        BY <1>8, <1>9, <2>2
      <3>2. mem[s][STATION] = s + 1
        BY <1>0, <1>3, <2>2 DEF OnlyMeant
      <3> QED
        BY <1>2, <3>1, <3>2
    <2>3. last'.mode # "position"
      BY <1>8
    <2>4. tidy' => Fresh'
      BY <1>0, <1>1, <1>11 DEF Fresh
    <2> QED
      BY <2>1, <2>2, <2>3, <2>4 DEF OnlyMeant
  <1>15. \A s \in Ring, k \in 0 .. FMMUS - 1 : Window(s, k)' = Window(s, k)
    BY <1>1 DEF Window, Before
  <1>16. OwnWindow'
    <2>1. SUFFICES ASSUME tidy', NEW s \in Ring, NEW k \in 0 .. FMMUS - 1,
                          mem'[s][FMMUx[k].ado] # 0
                   PROVE  handler'[s] = "WG05" /\ mem'[s][FMMUx[k].ado] = Window(s, k)'
      BY <1>1, <1>2 DEF OwnWindow
    <2>2. tidy /\ Hits(t, reach) \subseteq {pos}
      BY <1>0, <1>1, <1>9, <2>1
    <2>3. FMMUx[k].ado \in Memory
      BY FMMUApart
    <2>4. CASE s \in Hits(t, reach) /\ FMMUx[k].ado = Written(step)
      <3>1. Configuration(Before(pos), FMMUx[k].ado) = Window(pos, k)
        <4>1. Before(pos) \in Nat
          BY <1>2, BeforeType
        <4> QED
          BY <4>1, Windowed DEF Window
      <3> QED
        BY <1>1, <1>2, <1>10, <1>15, <2>2, <2>3, <2>4, <3>1
    <2>5. CASE ~(s \in Hits(t, reach) /\ FMMUx[k].ado = Written(step))
      <3>1. mem'[s][FMMUx[k].ado] = mem[s][FMMUx[k].ado]
        BY <1>10, <2>3, <2>5
      <3> QED
        BY <1>0, <1>1, <1>2, <1>15, <2>1, <2>2, <3>1 DEF OwnWindow
    <2> QED
      BY <2>4, <2>5
  <1>17. Order'
    BY <1>0, <1>1, <1>2 DEF Order, Going, Configuring, Goal
  <1>18. Progress'
    <2>1. SUFFICES ASSUME tidy', mem'[pos'][STATION] = pos' + 1, NEW k \in 0 .. step' - 1
                   PROVE  mem'[pos'][Written(k)] = Configuration(Before(pos)', Written(k))
      BY DEF Progress, Written, Configuration, WindowOf
    <2>2. step' = step + 1 /\ pos' = pos /\ reach = BACK /\ k \in 0 .. step
      BY <1>1, <1>3, <1>4, <2>1
    <2>3. Before(pos)' = Before(pos)
      BY <1>1, <2>2 DEF Before
    <2>4. pos \in Hits(t, reach)
      BY <1>2, <1>9, <1>11, <2>1, <2>2
    <2>5. Written(k) \in Memory
      BY <1>4, <2>2, WrittenApart
    <2>6. CASE Written(k) = Written(step)
      BY <1>2, <1>10, <2>2, <2>3, <2>4, <2>5, <2>6
    <2>7. CASE Written(k) # Written(step)
      <3>1. k \in 0 .. step - 1
        BY <1>4, <2>2, <2>7
      <3>2. mem[pos][STATION] = pos + 1 /\ tidy
        BY <1>1, <1>2, <1>11, <2>1, <2>2
      <3>3. mem[pos][Written(k)] = Configuration(Before(pos), Written(k))
        BY <1>0, <3>1, <3>2 DEF Progress
      <3> QED
        BY <1>2, <1>10, <2>2, <2>3, <2>5, <2>7, <3>3
    <2> QED
      BY <2>6, <2>7
  <1> QED
    BY <1>12, <1>13, <1>14, <1>16, <1>17, <1>18 DEF IInv

\* A command to change state keeps every configuration.
LEMMA SetStateInv == ASSUME IInv, SetState PROVE IInv'
  <1> DEFINE t == NPWR(pos + 1, EC_Slave_RD.AL_Control, 2 * esm[pos])
  <1>0. TypeOK /\ HandlersMatch /\ OnlyMeant /\ OwnWindow /\ (tidy => Fresh) /\ Order /\ Progress
    BY DEF IInv
  <1>1. Going /\ UNCHANGED <<wg05, handler, count, image, given, tidy>>
    BY DEF SetState
  <1>2. /\ pos \in Ring /\ count = N /\ phase \in {"preop", "safeop"} /\ given \in SUBSET Ring
        /\ esm[pos] = EC_State.INIT \/ esm[pos] = EC_State.PREOP
        /\ \A w \in Windows : image[w] = {}
    BY <1>1, Turn
  <1>3. PICK reach \in 0..BACK, followers \in SUBSET Ring :
          /\ Transfer(t, reach, followers)
          /\ \/ esm' = [esm EXCEPT ![pos] = 2 * @] /\ step' = 0 /\ UNCHANGED <<phase, pos>>
             \/ GiveUp /\ UNCHANGED esm
    <2>1. \A r : Hits(t, r) \subseteq Ring
      BY DEF Hits, Addressed
    <2> HIDE DEF t
    <2> QED
      BY <2>1 DEF SetState, t
  <1>4. pos' \in Ring /\ phase' \in {"preop", "safeop", "run"} /\ step' = 0
    BY <1>2, <1>3, GivesUp DEF GiveUp
  <1>5. esm' \in [Ring -> {EC_State.INIT, EC_State.PREOP, EC_State.SAFEOP}]
    BY <1>0, <1>2, <1>3, States DEF TypeOK
  <1>6. /\ t.mode = "node" /\ t.adp = pos + 1 /\ t.value \in Nat /\ t.writes
        /\ t.range = EC_Slave_RD.AL_Control
    <2>1. 2 * esm[pos] \in Nat
      BY <1>2, States
    <2> QED
      BY <2>1, Telegrams
  <1> HIDE DEF t
  <1>7. /\ mem' \in [Ring -> [Memory -> Nat]]
        /\ last' = [mode |-> "node", astray |-> Hits(t, reach) \ {pos}]
    BY <1>0, <1>3, <1>6, Moves
  <1>8. Hits(t, reach) = {s \in Ring : mem[s][STATION] = pos + 1 /\ s < reach}
    BY <1>0, <1>6, AtStation
  <1>9. \A s \in Ring, a \in Memory \ {CONTROL, STATUS} : mem'[s][a] = mem[s][a]
    BY <1>0, <1>3, <1>6, Controls
  <1>10. \A s \in Ring : mem'[s][STATION] = mem[s][STATION]
    BY <1>9, StationApart
  <1>11. TypeOK'
    BY <1>0, <1>1, <1>4, <1>5, <1>7, <1>8 DEF TypeOK
  <1>12. HandlersMatch'
    BY <1>0, <1>1, <1>2 DEF HandlersMatch
  <1>13. OnlyMeant' /\ (tidy => Fresh)'
    <2>1. \A s \in given' : mem'[s][STATION] = s + 1
      BY <1>0, <1>1, <1>2, <1>10 DEF OnlyMeant
    <2>2. ASSUME NEW s \in last'.astray, s \in given' PROVE FALSE
      <3>1. s \in Ring /\ mem[s][STATION] = pos + 1 /\ s # pos
        BY <1>7, <1>8, <2>2
      <3>2. mem[s][STATION] = s + 1
        BY <1>0, <1>1, <2>2 DEF OnlyMeant
      <3> QED
        BY <1>2, <3>1, <3>2
    <2>3. last'.mode # "position"
      BY <1>7
    <2>4. tidy' => Fresh'
      BY <1>0, <1>1, <1>10 DEF Fresh
    <2> QED
      BY <2>1, <2>2, <2>3, <2>4 DEF OnlyMeant
  <1>14. OwnWindow'
    <2>1. \A s \in Ring, k \in 0 .. FMMUS - 1 : mem'[s][FMMUx[k].ado] = mem[s][FMMUx[k].ado]
      BY <1>9, FMMUApart
    <2> QED
      BY <1>0, <1>1, <1>2, <2>1, WindowsKept
  <1>15. Order' /\ Progress'
    BY <1>1, <1>2, <1>4 DEF Order, Progress
  <1> QED
    BY <1>11, <1>12, <1>13, <1>14, <1>15 DEF IInv

\* The slaves of a tidy ring fill windows that nobody else fills.
LEMMA ExchangeInv == ASSUME IInv, Exchange PROVE IInv'
  <1>0. TypeOK /\ HandlersMatch /\ OnlyMeant /\ OwnWindow /\ (tidy => Fresh) /\ Order /\ Progress
    BY DEF IInv
  <1>1. /\ phase = "run" /\ image' = [w \in Windows |-> {s \in Ring : Fills(s, w)}]
        /\ UNCHANGED <<mem, wg05, phase, pos, step, handler, count, esm, last, given, tidy>>
    BY DEF Exchange, master
  <1>2. TypeOK'
    BY <1>0, <1>1 DEF TypeOK
  <1>3. HandlersMatch' /\ OnlyMeant' /\ (tidy => Fresh)'
    BY <1>0, <1>1 DEF HandlersMatch, OnlyMeant, Fresh
  <1>4. OwnWindow'
    <2>1. ASSUME tidy, NEW w \in Windows, NEW s \in image'[w], NEW u \in image'[w] PROVE s = u
      <3>1. s \in Ring /\ u \in Ring /\ Fills(s, w) /\ Fills(u, w)
        BY <1>1, <2>1
      <3>2. w # 0
        BY DEF Windows
      <3>3. PICK j \in 1 .. FMMUS - 1 : mem[s][FMMUx[j].ado] = w
        BY <3>1 DEF Fills
      <3>4. PICK k \in 1 .. FMMUS - 1 : mem[u][FMMUx[k].ado] = w
        BY <3>1 DEF Fills
      <3>5. handler[s] = "WG05" /\ Window(s, j) = w
        BY <1>0, <1>1, <2>1, <3>1, <3>2, <3>3 DEF OwnWindow
      <3>6. handler[u] = "WG05" /\ Window(u, k) = w
        BY <1>0, <1>1, <2>1, <3>1, <3>2, <3>4 DEF OwnWindow
      <3> QED
        BY <3>1, <3>5, <3>6, WindowsApart
    <2>2. \A s \in Ring, k \in 0 .. FMMUS - 1 : Window(s, k)' = Window(s, k)
      BY <1>1 DEF Window, Before
    <2> QED
      BY <1>0, <1>1, <2>1, <2>2 DEF OwnWindow
  <1>5. Order' /\ Progress'
    <2>1. step = 0
      BY <1>0, <1>1 DEF Order, Going, Configuring, TypeOK
    <2> QED
      BY <1>1, <2>1 DEF Order, Progress
  <1> QED
    BY <1>2, <1>3, <1>4, <1>5 DEF IInv

\* A slave that loses power loses its window and its station address with it.
LEMMA PowerCycleInv == ASSUME IInv, NEW u \in Ring, PowerCycle(u) PROVE IInv'
  <1>0. TypeOK /\ HandlersMatch /\ OnlyMeant /\ OwnWindow /\ (tidy => Fresh) /\ Order /\ Progress
    BY DEF IInv
  <1>1. /\ mem' = [mem EXCEPT ![u] = Blank] /\ given' = given \ {u}
        /\ UNCHANGED <<wg05, phase, pos, step, handler, count, esm, image, last, tidy>>
    BY DEF PowerCycle, master
  <1>2. Blank \in [Memory -> Nat] /\ Blank[STATION] = 0
        /\ \A k \in 0 .. FMMUS - 1 : Blank[FMMUx[k].ado] = 0
    BY States, StationApart, FMMUApart DEF Blank
  <1>3. TypeOK'
    BY <1>0, <1>1, <1>2 DEF TypeOK
  <1>4. \A s \in Ring : mem'[s] = IF s = u THEN Blank ELSE mem[s]
    BY <1>0, <1>1 DEF TypeOK
  <1>5. HandlersMatch'
    BY <1>0, <1>1 DEF HandlersMatch
  <1>6. OnlyMeant'
    BY <1>0, <1>1, <1>4 DEF OnlyMeant, TypeOK
  <1>7. (tidy => Fresh)'
    BY <1>0, <1>1, <1>2, <1>4 DEF Fresh
  <1>8. OwnWindow'
    <2>1. \A s \in Ring, k \in 0 .. FMMUS - 1 : Window(s, k)' = Window(s, k)
      BY <1>1 DEF Window, Before
    <2>2. \A s \in Ring, k \in 0 .. FMMUS - 1 :
            mem'[s][FMMUx[k].ado] = 0 \/ mem'[s][FMMUx[k].ado] = mem[s][FMMUx[k].ado]
      BY <1>2, <1>4
    <2> QED
      BY <1>0, <1>1, <2>1, <2>2 DEF OwnWindow
  <1>9. Order'
    BY <1>0, <1>1 DEF Order, Going, Configuring, Goal
  <1>10. Progress'
    <2>1. SUFFICES ASSUME tidy, esm[pos] = EC_State.PREOP, mem'[pos][STATION] = pos + 1,
                          NEW k \in 0 .. step - 1
                   PROVE  mem'[pos][Written(k)] = Configuration(Before(pos), Written(k))'
      BY <1>1 DEF Progress, Written
    <2>2. pos \in Ring /\ pos # u
      BY <1>0, <1>2, <1>4, <2>1 DEF TypeOK
    <2>3. Before(pos)' = Before(pos)
      BY <1>1 DEF Before
    <2>4. mem'[pos] = mem[pos]
      BY <1>4, <2>2
    <2>5. mem[pos][Written(k)] = Configuration(Before(pos), Written(k))
      BY <1>0, <2>1, <2>4 DEF Progress
    <2>6. Configuration(Before(pos), Written(k))' = Configuration(Before(pos), Written(k))
      BY <2>3 DEF Configuration, WindowOf, Written
    <2> QED
      BY <2>4, <2>5, <2>6
  <1> QED
    BY <1>3, <1>5, <1>6, <1>7, <1>8, <1>9, <1>10 DEF IInv

\* Every step preserves the invariant.
LEMMA NextInv == IInv /\ [Next]_vars => IInv'
  <1> SUFFICES ASSUME IInv, [Next]_vars PROVE IInv'
    OBVIOUS
  <1>1. ASSUME UNCHANGED vars PROVE IInv'
    <2> USE <1>1 DEF vars, master, IInv
    <2>1. TypeOK' /\ HandlersMatch'
      BY DEF TypeOK, HandlersMatch
    <2>2. OnlyMeant' /\ (tidy => Fresh)'
      BY DEF OnlyMeant, Fresh
    <2>3. OwnWindow'
      BY WindowsKept
    <2>4. Order'
      BY DEF Order, Going, Configuring, Goal
    <2>5. Progress'
      <3>1. SUFFICES ASSUME tidy, esm[pos] = EC_State.PREOP, mem[pos][STATION] = pos + 1,
                            NEW k \in 0 .. step - 1
                     PROVE  mem[pos][Written(k)] = Configuration(Before(pos), Written(k))'
        BY DEF Progress, Written
      <3>2. Before(pos)' = Before(pos)
        BY DEF Before
      <3>3. Configuration(Before(pos), Written(k))' = Configuration(Before(pos), Written(k))
        BY <3>2 DEF Configuration, WindowOf, Written
      <3>4. mem[pos][Written(k)] = Configuration(Before(pos), Written(k))
        BY <3>1 DEF Progress
      <3> QED
        BY <3>3, <3>4
    <2> QED
      BY <2>1, <2>2, <2>3, <2>4, <2>5
  <1>2. ASSUME Finished PROVE IInv'
    BY <1>1, <1>2 DEF Finished
  <1>3. Write => Going
    BY DEF Write
  <1> QED
    BY <1>1, <1>2, ScanInv, IdentifyInv, ResetFMMUsInv, ResetSyncManagersInv, PutInInitInv,
       PassOverInv, AddressInv, ConfigureInv, SetStateInv, ExchangeInv, PowerCycleInv, Turn, <1>3
       DEF Next, MasterStep

\* The invariant of the ring, for any number of slaves.
THEOREM Inv == Spec => []IInv
  BY InitInv, NextInv, PTL DEF Spec

\* Every variable keeps its type.
THEOREM TypeCorrect == Spec => []TypeOK
  <1>1. IInv => TypeOK
    BY DEF IInv
  <1> QED
    BY <1>1, Inv, PTL

\* The handlers are those of the ring, each with the product of its own slave
\* (ethercat_AL.h:135-173).
THEOREM HandlersMatchAlways == Spec => []HandlersMatch
  <1>1. IInv => HandlersMatch
    BY DEF IInv
  <1> QED
    BY <1>1, Inv, PTL

\* No slave that was given its address takes a telegram meant for another, and
\* no slave at all takes another one's position-addressed telegram.
THEOREM OnlyMeantAlways == Spec => []OnlyMeant
  <1>1. IInv => OnlyMeant
    BY DEF IInv
  <1> QED
    BY <1>1, Inv, PTL

\* On a tidy ring no two slaves fill one window of the process image.
THEOREM OwnWindowAlways == Spec => []OwnWindow
  <1>1. IInv => OwnWindow
    BY DEF IInv
  <1> QED
    BY <1>1, Inv, PTL

-----------------------------------------------------------------------------
(* Arriving in a state. *)

\* Only a confirmed command moves a handler, and its own slave has confirmed it.
LEMMA Arrives ==
  ASSUME IInv, SetState, tidy, NEW s \in Ring, esm'[s] # esm[s]
  PROVE  /\ mem'[s][STATUS] = esm'[s]
         /\ esm'[s] = EC_State.SAFEOP => Configured(s)'
  <1> DEFINE t == NPWR(pos + 1, EC_Slave_RD.AL_Control, 2 * esm[pos])
  <1>0. TypeOK /\ Fresh /\ Progress /\ IInv'
    BY SetStateInv DEF IInv
  <1>a. PICK reach \in 0..BACK : \E followers :
          /\ Transfer(t, reach, followers)
          /\ Read(mem') = 2 * esm[pos]
          /\ esm' = [esm EXCEPT ![pos] = 2 * @] /\ UNCHANGED <<phase, pos>>
    <2> HIDE DEF t
    <2> QED
      BY DEF SetState, t
  <1>1. PICK followers :
          /\ Transfer(t, reach, followers)
          /\ Read(mem') = 2 * esm[pos]
          /\ esm' = [esm EXCEPT ![pos] = 2 * @] /\ UNCHANGED <<phase, pos>>
    BY <1>a
  <1>2. Going /\ step = Writes /\ handler' = handler
    BY DEF SetState
  <1>3. pos \in Ring /\ (esm[pos] = 1 \/ esm[pos] = 2)
    BY <1>2, Turn, States
  <1>4. s = pos /\ esm'[s] = 2 * esm[pos]
    BY <1>0, <1>1, <1>3 DEF TypeOK
  <1>5. t.range = EC_Slave_RD.AL_Control /\ t.value \in Nat /\ t.writes
    BY <1>3, Telegrams
  <1> HIDE DEF t
  <1>6. \A u \in Ring, a \in Memory \ {CONTROL, STATUS} : mem'[u][a] = mem[u][a]
    BY <1>0, <1>1, <1>5, Controls
  <1>7. mem'[pos][STATION] = pos + 1 /\ Read(mem') = mem'[pos][STATUS]
    <2> DEFINE from == {u \in Ring : mem'[u][STATION] = pos + 1}
    <2>1. from \subseteq {pos}
      BY <1>0, <1>3, <1>6, StationApart DEF Fresh
    <2>2. from # {}
      BY <1>1, <1>3 DEF Read
    <2>3. from = {pos}
      BY <2>1, <2>2
    <2>4. (CHOOSE u \in from : \A v \in from : v <= u) = pos
      BY <1>3, <2>3
    <2> QED
      BY <2>2, <2>3, <2>4 DEF Read
  <1>8. ASSUME esm'[s] = EC_State.SAFEOP PROVE Configured(s)'
    <2>1. esm[pos] = EC_State.PREOP /\ step = FMMUS + SMS
      BY <1>2, <1>3, <1>4, <1>8, States DEF Writes
    <2>2. mem[pos][STATION] = pos + 1
      BY <1>3, <1>6, <1>7, StationApart
    <2>3. \A k \in 0 .. FMMUS + SMS - 1 :
            mem[pos][Written(k)] = Configuration(Before(pos), Written(k))
      BY <1>0, <2>1, <2>2 DEF Progress
    <2>4. Before(s)' = Before(pos)
      BY <1>2, <1>4 DEF Before
    <2> SUFFICES ASSUME NEW a \in Memory \ {STATION, CONTROL, STATUS}
                 PROVE  mem'[s][a] = Configuration(Before(s), a)'
      BY DEF Configured
    <2>5. PICK k \in 0 .. FMMUS + SMS - 1 : a = Written(k)
      <3>1. CASE \E j \in 0 .. FMMUS - 1 : a = 1536 + 16 * j
        <4>1. PICK j \in 0 .. FMMUS - 1 : a = 1536 + 16 * j
          BY <3>1
        <4>2. j \in 0 .. FMMUS + SMS - 1 /\ a = Written(j)
          BY <4>1, WrittenIs
        <4> QED
          BY <4>2
      <3>2. CASE \E j \in 0 .. SMS - 1 : a = 2048 + 8 * j
        <4>1. PICK j \in 0 .. SMS - 1 : a = 2048 + 8 * j
          BY <3>2
        <4>2. FMMUS + j \in 0 .. FMMUS + SMS - 1 /\ a = Written(FMMUS + j)
          BY <4>1, WrittenIs
        <4> QED
          BY <4>2
      <3>3. a \in Memory /\ a # 16 /\ a # 288 /\ a # 304
        BY Registers
      <3>4. (\E j \in 0 .. FMMUS - 1 : a = 1536 + 16 * j) \/ (\E j \in 0 .. SMS - 1 : a = 2048 + 8 * j)
        <4>1. \/ a \in {16, 288, 304}
              \/ \E j \in 0 .. FMMUS - 1 : a = 1536 + 16 * j
              \/ \E j \in 0 .. SMS - 1 : a = 2048 + 8 * j
          BY ONLY <3>3, MemoryIs
        <4> QED
          BY <3>3, <4>1
      <3> QED
        BY <3>1, <3>2, <3>4
    <2>6. Configuration(Before(s), a)' = Configuration(Before(pos), a)
      BY <2>4 DEF Configuration, WindowOf
    <2> QED
      BY <1>3, <1>4, <1>6, <2>3, <2>5, <2>6
  <1> QED
    BY <1>1, <1>4, <1>7, <1>8

\* A handler arrives in a state only when its own slave is in it, and in SAFEOP
\* only with the whole configuration, on every tidy ring.
THEOREM ArrivesConfiguredAlways == Spec => ArrivesConfigured
  <1> DEFINE Arrival ==
        tidy => \A s \in Ring : esm'[s] # esm[s] =>
          /\ mem'[s][STATUS] = esm'[s]
          /\ esm'[s] = EC_State.SAFEOP => Configured(s)'
  <1>1. IInv /\ [Next]_vars => [Arrival]_vars
    <2> SUFFICES ASSUME IInv, Next PROVE Arrival
      OBVIOUS
    <2>1. CASE SetState
      BY <2>1, Arrives
    <2>2. CASE esm' = esm
      BY <2>2
    <2>3. SetState \/ esm' = esm
      BY DEF Next, MasterStep, Scan, Identify, ResetFMMUs, ResetSyncManagers, Reset, PutInInit, PassOver, Write,
             Exchange, PowerCycle, Finished, master, vars
    <2> QED
      BY <2>1, <2>2, <2>3
  <1> QED
    BY <1>1, Inv, PTL DEF Spec, ArrivesConfigured
-----------------------------------------------------------------------------
(* The end of the start-up. *)

\* What Remaining is made of.
Parts ==
  /\ LoopsLeft \in 0..7 /\ pos \in Ring
  /\ PerSlave \in Nat /\ WritesLeft \in 0 .. PerSlave - 1

LEMMA PartsOf == IInv => Parts
  <1> SUFFICES ASSUME IInv PROVE Parts
    OBVIOUS
  <1>1. TypeOK /\ Order
    BY DEF IInv
  <1>2. LoopsLeft \in 0..7
    BY DEF LoopsLeft
  <1>3. pos \in Ring /\ step \in 0 .. FMMUS + SMS /\ FMMUS \in Nat /\ SMS \in Nat
    BY <1>1 DEF TypeOK
  <1>4. ~Going => step = 0
    BY <1>1, <1>3 DEF Order
  <1>5. ChangesLeft \in 0..2 /\ (~Going => ChangesLeft = 0) /\ (Going => ChangesLeft # 0)
    BY DEF ChangesLeft
  <1> HIDE DEF ChangesLeft
  <1>6. ChangesLeft = 0 \/ ChangesLeft = 1 \/ ChangesLeft = 2
    BY <1>5
  <1>7. WritesLeft \in 0 .. PerSlave - 1
    BY <1>3, <1>4, <1>5, <1>6 DEF WritesLeft, PerSlave
  <1> QED
    BY <1>2, <1>3, <1>7 DEF Parts, PerSlave

LEMMA PartsNext == IInv' => Parts'
  BY PartsOf, PTL

\* A slave and those behind it.
LEMMA SlavesLeft == ASSUME NEW p \in Ring PROVE N - p \in 1..N
  OBVIOUS

\* One unit of weight outweighs all that is lighter than it.
LEMMA Outweighs ==
  ASSUME NEW l \in Nat, NEW m \in Nat, m < l, NEW k \in Nat,
         NEW a \in Nat, NEW b \in Nat, b < k
  PROVE  m * k + b < l * k + a /\ m * k \in Nat /\ l * k \in Nat
  <1> DEFINE d == l - m - 1
  <1>1. d \in Nat /\ l = m + 1 + d
    OBVIOUS
  <1> HIDE DEF d
  <1>2. l * k = m * k + k + d * k
    BY <1>1
  <1>3. d * k \in Nat /\ m * k \in Nat /\ l * k \in Nat
    BY <1>1
  <1> QED
    BY <1>2, <1>3

\* The slaves of a loop with their writes weigh less than a loop.
LEMMA LoopWeighs ==
  ASSUME NEW n \in 1..N, NEW k \in Nat, NEW w \in 0 .. k - 1
  PROVE  n * k + w \in Nat /\ n * k + w < (N + 1) * k /\ (N + 1) * k \in Nat
  <1>1. n * k + w < (N + 1) * k + 0
    BY Outweighs
  <1>2. n * k \in Nat /\ (N + 1) * k \in Nat
    OBVIOUS
  <1> QED
    BY <1>1, <1>2

\* Fewer loops weigh less, whatever their slaves and writes.
LEMMA FewerLoops ==
  ASSUME NEW l \in Nat, NEW m \in Nat, m < l, NEW k \in Nat,
         NEW p \in 1..N, NEW q \in 1..N, NEW w \in 0 .. k - 1, NEW v \in 0 .. k - 1
  PROVE  m * ((N + 1) * k) + q * k + v < l * ((N + 1) * k) + p * k + w
  <1> DEFINE c == (N + 1) * k
             a == p * k + w
             b == q * k + v
  <1>1. a \in Nat /\ b \in Nat /\ b < c /\ c \in Nat
    BY LoopWeighs
  <1>2. p * k \in Nat /\ q * k \in Nat /\ w \in Nat /\ v \in Nat
    OBVIOUS
  <1>3. m * c + q * k + v = m * c + b /\ l * c + p * k + w = l * c + a
    <2>1. m * c \in Nat /\ l * c \in Nat
      <3> HIDE DEF c
      <3> QED
        BY <1>1
    <2> HIDE DEF c
    <2> QED
      BY <1>2, <2>1
  <1> HIDE DEF c, a, b
  <1>4. m * c + b < l * c + a
    BY <1>1, Outweighs
  <1>5. m * c + q * k + v < l * c + p * k + w
    BY <1>3, <1>4
  <1> QED
    BY <1>5 DEF c

\* So do fewer slaves, whatever their writes.
LEMMA FewerSlaves ==
  ASSUME NEW rest \in Nat, NEW k \in Nat, NEW p \in Nat, NEW q \in Nat, q < p,
         NEW w \in 0 .. k - 1, NEW v \in 0 .. k - 1
  PROVE  rest + q * k + v < rest + p * k + w
  <1>1. q * k + v < p * k + w /\ q * k \in Nat /\ p * k \in Nat
    BY Outweighs
  <1> QED
    BY <1>1

\* What Parts says of a step.
LEMMA PartsStep ==
  ASSUME Parts, Parts'
  PROVE  /\ PerSlave' = PerSlave /\ PerSlave \in Nat
         /\ LoopsLeft \in Nat /\ LoopsLeft' \in Nat
         /\ N - pos \in 1..N /\ N - pos' \in 1..N
         /\ WritesLeft \in 0 .. PerSlave - 1 /\ WritesLeft' \in 0 .. PerSlave - 1
  <1>1. PerSlave' = PerSlave
    BY DEF PerSlave
  <1>2. PerSlave \in Nat /\ WritesLeft \in 0 .. PerSlave - 1 /\ WritesLeft' \in 0 .. PerSlave' - 1
    BY DEF Parts
  <1>3. LoopsLeft \in Nat /\ LoopsLeft' \in Nat
    BY DEF Parts
  <1>4. N - pos \in 1..N
    <2>1. pos \in Ring
      BY DEF Parts
    <2> QED
      BY ONLY <2>1, SlavesLeft
  <1>5. N - pos' \in 1..N
    <2>1. pos' \in Ring
      BY DEF Parts
    <2> QED
      BY ONLY <2>1, SlavesLeft
  <1> HIDE DEF PerSlave
  <1> QED
    BY <1>1, <1>2, <1>3, <1>4, <1>5

\* Another loop begins.
LEMMA LoopDone ==
  ASSUME Parts, Parts', LoopsLeft' < LoopsLeft
  PROVE  Remaining' < Remaining
  <1> HIDE DEF PerSlave, LoopsLeft, WritesLeft
  <1>1. PerSlave' = PerSlave
    BY PartsStep
  <1>2. LoopsLeft' * ((N + 1) * PerSlave) + (N - pos') * PerSlave + WritesLeft'
          < LoopsLeft * ((N + 1) * PerSlave) + (N - pos) * PerSlave + WritesLeft
    BY PartsStep, FewerLoops
  <1> QED
    BY <1>1, <1>2 DEF Remaining

\* The loop goes on, with the next slave or with what is left of this one.
LEMMA LoopGoesOn ==
  ASSUME Parts, Parts', LoopsLeft' = LoopsLeft,
         \/ pos' = pos + 1
         \/ pos' = pos /\ WritesLeft' < WritesLeft
  PROVE  Remaining' < Remaining
  <1> DEFINE rest == LoopsLeft * ((N + 1) * PerSlave)
  <1>1. PerSlave' = PerSlave
    BY PartsStep
  <1>2. rest \in Nat
    <2> HIDE DEF PerSlave, LoopsLeft
    <2> QED
      BY PartsStep
  <1> HIDE DEF rest
  <1>3. CASE pos' = pos + 1
    <2>1. N - pos' < N - pos
      <3>1. pos \in Int
        BY DEF Parts
      <3> QED
        BY <1>3, <3>1
    <2>2. rest + (N - pos') * PerSlave + WritesLeft' < rest + (N - pos) * PerSlave + WritesLeft
      <3>1. N - pos \in Nat /\ N - pos' \in Nat
        BY PartsStep
      <3> QED
        BY <1>2, <2>1, <3>1, PartsStep, FewerSlaves
    <2> QED
      BY <1>1, <2>2 DEF Remaining, rest
  <1>4. CASE pos' = pos /\ WritesLeft' < WritesLeft
    <2>1. ASSUME NEW x \in Int, NEW w \in Int, NEW v \in Int, v < w PROVE rest + x + v < rest + x + w
      BY <1>2, <2>1
    <2>2. (N - pos) * PerSlave \in Int /\ WritesLeft \in Int /\ WritesLeft' \in Int
      BY PartsStep
    <2>3. rest + (N - pos) * PerSlave + WritesLeft' < rest + (N - pos) * PerSlave + WritesLeft
      BY <1>4, <2>1, <2>2
    <2> QED
      BY <1>1, <1>4, <2>3 DEF Remaining, rest
  <1> QED
    BY <1>3, <1>4

\* While the master's own variables stay, so does what it has before it.
LEMMA MasterStays ==
  ASSUME Parts, UNCHANGED master
  PROVE  Remaining' = Remaining /\ Remaining \in Int
  <1>1. Remaining' = Remaining
    BY DEF Remaining, LoopsLeft, WritesLeft, ChangesLeft, PerSlave, Going, Configuring, Goal, master
  <1>2. Remaining \in Int
    <2>1. LoopsLeft \in Int /\ N - pos \in Int /\ PerSlave \in Int /\ WritesLeft \in Int
      BY DEF Parts
    <2> HIDE DEF PerSlave
    <2> QED
      BY <2>1 DEF Remaining
  <1> QED
    BY <1>1, <1>2

\* NextSlave, and so GiveUp, goes on or begins a loop that comes later.
LEMMA SlaveDone ==
  ASSUME Parts, Parts', NEW loop, NEW following, phase = loop, NextSlave(loop, following),
         <<loop, following>> \in {<<"identify", "fmmus">>, <<"init", "preop">>,
                                 <<"preop", "safeop">>, <<"safeop", "run">>}
  PROVE  Remaining' < Remaining
  <1>1. CASE phase' = loop /\ pos' = pos + 1
    <2>1. LoopsLeft' = LoopsLeft
      BY <1>1 DEF LoopsLeft
    <2> QED
      BY <1>1, <2>1, LoopGoesOn
  <1>2. CASE phase' = following
    <2>1. LoopsLeft' < LoopsLeft
      BY <1>2 DEF LoopsLeft
    <2> QED
      BY <2>1, LoopDone
  <1> QED
    BY <1>1, <1>2 DEF NextSlave

LEMMA ChangeFails ==
  ASSUME Parts, Parts', Going, GiveUp
  PROVE  Remaining' < Remaining
  <1>1. CASE phase = "preop"
    BY <1>1, SlaveDone DEF GiveUp
  <1>2. CASE phase = "safeop"
    BY <1>2, SlaveDone DEF GiveUp
  <1> QED
    BY <1>1, <1>2 DEF Going, Configuring

\* A write that came back, or a state change that was confirmed: less is left of the slave.
LEMMA Advances ==
  ASSUME IInv, Parts, Parts', Going, UNCHANGED <<phase, pos, handler>>,
         \/ step < Writes /\ step' = step + 1 /\ esm' = esm
         \/ step = Writes /\ step' = 0 /\ esm' = [esm EXCEPT ![pos] = 2 * @]
  PROVE  Remaining' < Remaining
  <1>1. TypeOK
    BY DEF IInv
  <1>2. pos \in Ring /\ step \in 0 .. FMMUS + SMS /\ FMMUS \in Nat /\ SMS \in Nat
    BY <1>1 DEF TypeOK
  <1>3. LoopsLeft' = LoopsLeft /\ Goal' = Goal
    BY DEF LoopsLeft, Goal
  <1>4. CASE step' = step + 1 /\ esm' = esm
    <2>1. ChangesLeft' = ChangesLeft
      BY <1>3, <1>4 DEF ChangesLeft, Going, Configuring
    <2>2. ChangesLeft \in {0, 1, 2}
      BY DEF ChangesLeft
    <2> HIDE DEF ChangesLeft
    <2>3. WritesLeft' < WritesLeft
      BY <1>2, <1>4, <2>1, <2>2 DEF WritesLeft
    <2> QED
      BY <1>3, <2>3, LoopGoesOn
  <1>5. CASE step' = 0 /\ esm' = [esm EXCEPT ![pos] = 2 * @]
    <2>1. esm'[pos] = 2 * esm[pos] /\ esm[pos] \in {1, 2, 4}
      BY <1>1, <1>2, <1>5, States DEF TypeOK
    <2>2. Goal \in {2, 4} /\ esm[pos] < Goal
      BY States DEF Goal, Going
    <2>3. ChangesLeft \in {1, 2} /\ ChangesLeft' = ChangesLeft - 1
      BY <1>3, <2>1, <2>2 DEF ChangesLeft, Going, Configuring
    <2> HIDE DEF ChangesLeft
    <2>4. WritesLeft' < WritesLeft
      BY <1>2, <1>5, <2>3 DEF WritesLeft
    <2> QED
      BY <1>3, <2>4, LoopGoesOn
  <1> QED
    BY <1>4, <1>5

\* A step of the start-up that is not put_slaves_in_init's repetition.
LEMMA StepShrinks ==
  ASSUME IInv, IInv', MasterStep
  PROVE  Remaining' < Remaining \/ (phase = "init" /\ UNCHANGED master)
  <1>0. Parts /\ Parts'
    BY PartsOf, PartsNext
  <1>1. CASE Scan
    <2>1. phase = "scan" /\ phase' \in {"identify", "exit"}
      BY <1>1 DEF Scan
    <2>2. LoopsLeft' < LoopsLeft
      BY <2>1 DEF LoopsLeft
    <2> QED
      BY <1>0, <2>2, LoopDone
  <1>2. CASE Identify
    BY <1>0, <1>2, SlaveDone DEF Identify
  <1>3. CASE ResetFMMUs
    <2>1. phase = "fmmus" /\ phase' \in {"sms", "preop"}
      BY <1>3 DEF ResetFMMUs, Reset
    <2>2. LoopsLeft' < LoopsLeft
      BY <2>1 DEF LoopsLeft
    <2> QED
      BY <1>0, <2>2, LoopDone
  <1>4. CASE ResetSyncManagers
    <2>1. phase = "sms" /\ phase' \in {"init", "preop"}
      BY <1>4 DEF ResetSyncManagers, Reset
    <2>2. LoopsLeft' < LoopsLeft
      BY <2>1 DEF LoopsLeft
    <2> QED
      BY <1>0, <2>2, LoopDone
  <1>5. CASE PutInInit
    <2>1. /\ phase = "init" /\ UNCHANGED <<step, handler, count, esm>>
          /\ \/ UNCHANGED <<phase, pos>>
             \/ NextSlave("init", "preop")
             \/ phase' = "preop"
      BY <1>5 DEF PutInInit
    <2>2. CASE UNCHANGED <<phase, pos>>
      BY <2>1, <2>2 DEF master
    <2>3. CASE NextSlave("init", "preop")
      BY <1>0, <2>1, <2>3, SlaveDone
    <2>4. CASE phase' = "preop"
      <3>1. LoopsLeft' < LoopsLeft
        BY <2>1, <2>4 DEF LoopsLeft
      <3> QED
        BY <1>0, <3>1, LoopDone
    <2> QED
      BY <2>1, <2>2, <2>3, <2>4
  <1>6. CASE PassOver
    <2>1. CASE phase = "preop"
      BY <1>0, <1>6, <2>1, SlaveDone DEF PassOver
    <2>2. CASE phase = "safeop"
      BY <1>0, <1>6, <2>2, SlaveDone DEF PassOver
    <2> QED
      BY <1>6, <2>1, <2>2 DEF PassOver, Configuring
  <1>7. CASE Write
    <2>1. /\ Going /\ step < Writes /\ UNCHANGED <<handler, esm>>
          /\ \/ step' = step + 1 /\ UNCHANGED <<phase, pos>>
             \/ GiveUp
      BY <1>7 DEF Write
    <2> QED
      BY <1>0, <2>1, Advances, ChangeFails
  <1>8. CASE SetState
    <2>1. /\ Going /\ step = Writes /\ UNCHANGED handler
          /\ \/ /\ esm' = [esm EXCEPT ![pos] = 2 * @]
                /\ step' = 0 /\ UNCHANGED <<phase, pos>>
             \/ GiveUp
      BY <1>8 DEF SetState
    <2> QED
      BY <1>0, <2>1, Advances, ChangeFails
  <1> QED
    BY <1>1, <1>2, <1>3, <1>4, <1>5, <1>6, <1>7, <1>8 DEF MasterStep

\* The start-up takes at most (8 N + 7) (2 (FMMUS + SMS) + 5) steps beside those in
\* which put_slaves_in_init repeats a lost command, for every ring and every number of
\* FMMUs and sync managers (ethercat_AL.h:128-150).
THEOREM OnlyInitRepeatsAlways == Spec => OnlyInitRepeats
  <1> DEFINE Shrinks ==
        /\ Remaining' <= Remaining
        /\ MasterStep => Remaining' < Remaining \/ (phase = "init" /\ UNCHANGED master)
  <1>1. IInv /\ IInv' /\ [Next]_vars => [Shrinks]_vars
    <2> SUFFICES ASSUME IInv, IInv', Next PROVE Shrinks
      OBVIOUS
    <2>1. Parts /\ Parts'
      BY PartsOf, PartsNext
    <2>2. Remaining \in Int /\ Remaining' \in Int
      <3>1. ASSUME NEW l \in Int, NEW n \in Int, NEW k \in Int, NEW w \in Int
            PROVE  l * ((N + 1) * k) + n * k + w \in Int
        OBVIOUS
      <3>2. LoopsLeft \in Int /\ N - pos \in Int /\ PerSlave \in Int /\ WritesLeft \in Int
        BY <2>1 DEF Parts
      <3>3. LoopsLeft' \in Int /\ N - pos' \in Int /\ PerSlave \in Int /\ WritesLeft' \in Int
        BY <2>1 DEF Parts, PerSlave
      <3>4. PerSlave' = PerSlave
        BY DEF PerSlave
      <3> HIDE DEF PerSlave
      <3> QED
        BY <3>1, <3>2, <3>3, <3>4 DEF Remaining
    <2>3. MasterStep => Remaining' < Remaining \/ (phase = "init" /\ UNCHANGED master)
      BY StepShrinks
    <2>4. CASE ~MasterStep
      <3>1. UNCHANGED master
        BY <2>4 DEF Next, Exchange, Finished, PowerCycle, vars
      <3> QED
        BY <2>1, <2>2, <2>4, <3>1, MasterStays
    <2>5. CASE MasterStep
      <3>1. CASE UNCHANGED master
        BY <2>1, <2>2, <2>3, <3>1, MasterStays
      <3>2. CASE Remaining' < Remaining
        BY <2>2, <3>2
      <3> QED
        BY <2>3, <2>5, <3>1, <3>2
    <2> QED
      BY <2>4, <2>5
  <1> QED
    BY <1>1, Inv, PTL DEF Spec, OnlyInitRepeats
=============================================================================
