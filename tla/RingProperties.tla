--------------------------- MODULE RingProperties ---------------------------
(***************************************************************************)
(* What the master may rely on after it has brought up the ring.           *)
(***************************************************************************)
EXTENDS Ring

\* The type of every variable.
TypeOK ==
  /\ mem \in [Ring -> [Memory -> Nat]]
  /\ wg05 \in [Ring -> BOOLEAN]
  /\ phase \in {"scan", "identify", "fmmus", "sms", "init", "preop", "safeop", "run", "exit"}
  /\ pos \in Ring /\ step \in 0 .. FMMUS + SMS /\ count \in {0, N}
  /\ handler \in [Ring -> {"none", "WG05", "other"}]
  /\ esm \in [Ring -> {EC_State.INIT, EC_State.PREOP, EC_State.SAFEOP}]
  /\ image \in [Windows -> SUBSET Ring]
  /\ last \in [mode : {"position", "node", "broadcast"}, astray : SUBSET Ring]
  /\ given \in SUBSET Ring /\ tidy \in BOOLEAN

\* The handlers are those of the ring: as many as there are slaves, each with the
\* product of the slave at its own position, or an unknown one (ethercat_AL.h:135-150).
HandlersMatch ==
  /\ phase \notin {"scan", "exit"} => count = N
  /\ \A s \in Ring : handler[s] = "WG05" => wg05[s]

\* A telegram is taken only by the slave it is meant for.  The exception is a
\* slave with a station address from an earlier run, which reset_slaves does not
\* clear: it takes the telegrams of the slave that is given this address now.
OnlyMeant ==
  /\ \A s \in given : mem[s][STATION] = s + 1
  /\ last.mode = "position" => last.astray = {}
  /\ last.astray \cap given = {}

\* No two slaves fill the same window of the process image, and none fills a
\* window that is not its own: the status the driver reads for a slave is that
\* slave's.  It takes that the reset came back and that no slave had another
\* one's station address.
OwnWindow ==
  tidy =>
    /\ phase \in {"sms", "init", "preop", "safeop", "run"} =>
         \A s \in Ring, k \in 0 .. FMMUS - 1 :
           mem[s][FMMUx[k].ado] # 0 =>
             handler[s] = "WG05" /\ mem[s][FMMUx[k].ado] = Window(s, k)
    /\ \A w \in Windows : \A s, u \in image[w] : s = u

Configured(s) ==
  \A a \in Memory \ {STATION, CONTROL, STATUS} : mem[s][a] = Configuration(Before(s), a)

\* A handler arrives in a state only when its own slave is in it, in SAFEOP only
\* when that slave has its whole configuration: though no working counter is
\* checked, a slave that missed a write cannot confirm (ethercat_FSM.h:53-89).
ArrivesConfigured ==
  [][tidy => \A s \in Ring : esm'[s] # esm[s] =>
       /\ mem'[s][STATUS] = esm'[s]
       /\ esm'[s] = EC_State.SAFEOP => Configured(s)']_vars

-----------------------------------------------------------------------------
(* How the start-up comes to its end. *)

\* What the master has still before it: loops, slaves of this loop, state changes of
\* this slave with their writes.
LoopsLeft ==
  CASE phase = "scan" -> 7 [] phase = "identify" -> 6 [] phase = "fmmus" -> 5
    [] phase = "sms" -> 4 [] phase = "init" -> 3 [] phase = "preop" -> 2
    [] phase = "safeop" -> 1 [] OTHER -> 0

ChangesLeft == IF ~Going THEN 0 ELSE IF 2 * esm[pos] = Goal THEN 1 ELSE 2
WritesLeft == ChangesLeft * (FMMUS + SMS + 2) - step
PerSlave == 2 * (FMMUS + SMS + 2) + 1

Remaining == LoopsLeft * ((N + 1) * PerSlave) + (N - pos) * PerSlave + WritesLeft

\* Every step of the start-up brings it closer to its end, whichever telegrams are
\* lost, state changes refused and slaves without power, with one exception:
\* put_slaves_in_init, which repeats a lost command (ethercat_AL.h:133-150).
OnlyInitRepeats ==
  [][/\ Remaining' <= Remaining
     /\ MasterStep => Remaining' < Remaining \/ (phase = "init" /\ UNCHANGED master)]_vars

-----------------------------------------------------------------------------
(* What is inductive. *)

\* No handler moves and nothing is written outside the driver's own loops.
Order ==
  /\ phase \in {"scan", "identify", "fmmus", "sms", "init"} =>
       \A s \in Ring : esm[s] = EC_State.INIT
  /\ phase = "scan" => pos = 0
  /\ phase # "run" => \A w \in Windows : image[w] = {}
  /\ step > 0 => Going

\* The register of the k-th configuration write.
Written(k) == IF k < FMMUS THEN FMMUx[k].ado ELSE Sync_Managerx[k - FMMUS].ado

\* A slave that has kept its station address has every write made so far.
Progress ==
  tidy /\ esm[pos] = EC_State.PREOP /\ mem[pos][STATION] = pos + 1 =>
    \A k \in 0 .. step - 1 : mem[pos][Written(k)] = Configuration(Before(pos), Written(k))

\* The inductive invariant.
IInv ==
  /\ TypeOK /\ HandlersMatch /\ OnlyMeant /\ OwnWindow
  /\ tidy => Fresh
  /\ Order /\ Progress
=============================================================================
