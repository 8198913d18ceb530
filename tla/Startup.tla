------------------------------ MODULE Startup ------------------------------
(***************************************************************************)
(* The slaves' configuration and their EtherCAT state machines (ESM), from *)
(* getSlaveHandles to closeOperationalSlaves: what main does through the   *)
(* slave handlers before the threads start and after they have ended.      *)
(* The network and the slaves are external: a state change may be refused, *)
(* or made without its confirmation reaching the master, and a slave may   *)
(* fall back by itself.  EC_State values are those of the AL registers.    *)
(***************************************************************************)
EXTENDS Integers, FiniteSets

CONSTANTS N,             \* slaves located on the ring
          CommandSize,   \* sizeof(WG0XCommand): 8
          StatusSize     \* sizeof(WG0XStatus): 44

ASSUME StartupAssumption ==
  N \in Nat \ {0} /\ CommandSize \in Nat \ {0} /\ StatusSize \in Nat \ {0}

Ring == 0 .. N - 1
INIT == 1
PREOP == 2
SAFEOP == 4
OP == 8
States == {INIT, PREOP, SAFEOP, OP}

Slot == CommandSize + StatusSize   \* a slave's share of the process data
NULL == -1                         \* no FMMU configuration yet

VARIABLES
  wg05,            \* the slave has WG05_PRODUCT_CODE
  handles,         \* slave_handles.size(): ring positions 0 .. handles-1
  phase, todo,     \* the loop main is in, and the slaves it has not reached
  start_address,   \* counted from 0x10000
  fmmu,            \* logical address of the command FMMU; the status follows it
  cached,          \* the handler's m_esm_state
  device,          \* the slave's own AL state
  running,         \* EtherCAT_PD_Buffer's m_is_running
  report           \* what changeState last printed of a slave

config == <<wg05, handles, start_address, fmmu>>
vars == <<config, phase, todo, cached, device, running, report>>

\* wg05_slave_handles.
Targets == {s \in Ring : s < handles /\ wg05[s]}

\* EtherCAT_AL resets the slaves, but reports ready even when that failed: a
\* slave may still be in the state an earlier run left it in.
Init ==
  /\ wg05 \in [Ring -> BOOLEAN] /\ device \in [Ring -> {INIT, OP}]
  /\ handles = 0 /\ phase = "gather" /\ todo = {}
  /\ start_address = 0 /\ fmmu = [s \in Ring |-> NULL]
  /\ cached = [s \in Ring |-> INIT] /\ running = 0
  /\ report = [s \in Ring |-> [goal |-> INIT, text |-> "none"]]

-----------------------------------------------------------------------------
(* Every loop runs over its slaves in ring order. *)

Turn(s) == s \in todo /\ \A u \in todo : s <= u

\* A slave that has no handler ends getSlaveHandles early; main goes on with
\* those it has.
Gather ==
  /\ phase = "gather"
  /\ handles' \in 0..N
  /\ phase' = "configure"
  /\ todo' = {s \in Ring : s < handles' /\ wg05[s]}
  /\ UNCHANGED <<wg05, start_address, fmmu, cached, device, running, report>>

ConfigureOverlapping(s) ==   \* without line 50
  /\ phase = "configure" /\ Turn(s)
  /\ fmmu' = [fmmu EXCEPT ![s] = start_address]
  /\ start_address' = start_address + CommandSize
  /\ todo' = todo \ {s}
  /\ UNCHANGED <<wg05, handles, phase, cached, device, running, report>>

ConfigureAtStatus(s) ==   \* the two increments before the two FMMUs
  /\ phase = "configure" /\ Turn(s)
  /\ start_address' = start_address + CommandSize + StatusSize
  /\ fmmu' = [fmmu EXCEPT ![s] = start_address']
  /\ todo' = todo \ {s}
  /\ UNCHANGED <<wg05, handles, phase, cached, device, running, report>>

ConfigureUnset(s) ==   \* without line 52
  /\ phase = "configure" /\ Turn(s)
  /\ start_address' = start_address + CommandSize + StatusSize
  /\ todo' = todo \ {s}
  /\ UNCHANGED <<wg05, handles, phase, fmmu, cached, device, running, report>>

\* configureWG05fmmu: the command window, then the status window.
Configure(s) ==
  /\ phase = "configure" /\ Turn(s)
  /\ fmmu' = [fmmu EXCEPT ![s] = start_address]
  /\ start_address' = start_address + CommandSize + StatusSize
  /\ todo' = todo \ {s}
  /\ UNCHANGED <<wg05, handles, phase, cached, device, running, report>>

NextPhaseAll ==   \* slave_handles where wg05_slave_handles is meant
  /\ todo = {}
  /\ \/ phase = "configure" /\ phase' = "preop"
     \/ phase = "preop" /\ phase' = "safeop"
     \/ phase = "safeop" /\ phase' = "op"
     \/ phase = "op" /\ phase' = "run"
     \/ phase = "close" /\ phase' = "done"
  /\ todo' = IF phase' \in {"preop", "safeop", "op"} THEN 0 .. handles - 1 ELSE {}
  /\ UNCHANGED <<config, cached, device, running, report>>

\* The end of a loop, and the loop that follows it.
NextPhase ==
  /\ todo = {}
  /\ \/ phase = "configure" /\ phase' = "preop"
     \/ phase = "preop" /\ phase' = "safeop"
     \/ phase = "safeop" /\ phase' = "op"
     \/ phase = "op" /\ phase' = "run"
     \/ phase = "close" /\ phase' = "done"
  /\ todo' = IF phase' \in {"preop", "safeop", "op"} THEN Targets ELSE {}
  /\ UNCHANGED <<config, cached, device, running, report>>

-----------------------------------------------------------------------------
(* changeState and to_state. *)

Changing == phase \in {"preop", "safeop", "op", "close"}

Goal == CASE phase = "preop" -> PREOP
          [] phase = "op" -> OP
          [] OTHER -> SAFEOP

\* The slave changeState is called for; closeOperationalSlaves asks the handler
\* whether it is in OP.
Addressed(s) == Changing /\ Turn(s) /\ (phase = "close" => cached[s] = OP)

\* The next state on to_state's way: up one at a time, or from OP back to SAFEOP.
Toward(s) == IF Goal > cached[s] THEN 2 * cached[s] ELSE Goal

\* A slave goes down at will, but up one state at a time.
Accepts(s, state) == state <= 2 * device[s]

\* changeState prints "[Success]" when to_state returned false.
Report(s, success) ==
  report' = [report EXCEPT ![s] = [goal |-> Goal,
                                   text |-> IF success THEN "[Fail]" ELSE "[Success]"]]

ConfirmedUncounted(s) ==   \* start_input_update without EtherCAT_PD_Buffer::start
  /\ Addressed(s) /\ Accepts(s, Toward(s))
  /\ device' = [device EXCEPT ![s] = Toward(s)]
  /\ cached' = [cached EXCEPT ![s] = Toward(s)]
  /\ IF Toward(s) = Goal THEN Report(s, TRUE) /\ todo' = todo \ {s}
                         ELSE UNCHANGED <<report, todo>>
  /\ UNCHANGED <<config, phase, running>>

\* set_state: the slave made the change and said so; process data is started
\* with each arrival in SAFEOP.  to_state goes on until the goal is reached.
Confirmed(s) ==
  /\ Addressed(s) /\ Accepts(s, Toward(s))
  /\ device' = [device EXCEPT ![s] = Toward(s)]
  /\ cached' = [cached EXCEPT ![s] = Toward(s)]
  /\ running' = IF cached[s] = PREOP THEN running + 1 ELSE running
  /\ IF Toward(s) = Goal THEN Report(s, TRUE) /\ todo' = todo \ {s}
                         ELSE UNCHANGED <<report, todo>>
  /\ UNCHANGED <<config, phase>>

UnconfirmedSilent(s) ==   \* a failed set_state that is taken for a success
  /\ Addressed(s)
  /\ \/ UNCHANGED device
     \/ Accepts(s, Toward(s)) /\ device' = [device EXCEPT ![s] = Toward(s)]
  /\ Report(s, TRUE) /\ todo' = todo \ {s}
  /\ UNCHANGED <<config, phase, cached, running>>

UnconfirmedAgain(s) ==   \* a failed state change that is tried for ever
  /\ Addressed(s)
  /\ \/ UNCHANGED device
     \/ Accepts(s, Toward(s)) /\ device' = [device EXCEPT ![s] = Toward(s)]
  /\ Report(s, FALSE)
  /\ UNCHANGED <<config, phase, todo, cached, running>>

\* All tries of set_state passed without a confirmation, though the slave may
\* have made the change; to_state gives up and the loop goes on.
Unconfirmed(s) ==
  /\ Addressed(s)
  /\ \/ UNCHANGED device
     \/ Accepts(s, Toward(s)) /\ device' = [device EXCEPT ![s] = Toward(s)]
  /\ Report(s, FALSE) /\ todo' = todo \ {s}
  /\ UNCHANGED <<config, phase, cached, running>>

-----------------------------------------------------------------------------
(* The end of the run. *)

\* The operator stops and the threads have ended.
Close ==
  /\ phase = "run"
  /\ phase' = "close" /\ todo' = 0 .. handles - 1
  /\ UNCHANGED <<config, cached, device, running, report>>

PassOverStays(s) ==   \* the loop does not go on with the next slave
  /\ phase = "close" /\ Turn(s) /\ cached[s] # OP
  /\ UNCHANGED <<config, phase, todo, cached, device, running, report>>

\* A slave whose handler is not in OP is passed over.
PassOver(s) ==
  /\ phase = "close" /\ Turn(s) /\ cached[s] # OP
  /\ todo' = todo \ {s}
  /\ UNCHANGED <<config, phase, cached, device, running, report>>

FallNoticed(s) ==   \* the handler's state follows the slave's
  /\ \E state \in States : state < device[s] /\ device' = [device EXCEPT ![s] = state]
  /\ cached' = [cached EXCEPT ![s] = IF s \in Targets THEN device'[s] ELSE @]
  /\ UNCHANGED <<config, phase, todo, running, report>>

\* A slave leaves its state by itself: a watchdog, an error or a power failure.
Fall(s) ==
  /\ \E state \in States : state < device[s] /\ device' = [device EXCEPT ![s] = state]
  /\ UNCHANGED <<config, phase, todo, cached, running, report>>

Finished == phase = "done" /\ UNCHANGED vars

MainStep ==
  \/ Gather \/ NextPhase \/ Close
  \/ \E s \in Ring : Configure(s) \/ Confirmed(s) \/ Unconfirmed(s) \/ PassOver(s)

Next == MainStep \/ (\E s \in Ring : Fall(s)) \/ Finished

Spec == Init /\ [][Next]_vars
=============================================================================
