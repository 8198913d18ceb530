------------------------- MODULE StartupProperties -------------------------
(* What configuring the slaves and driving their state machines must        *)
(* achieve; StartupProofs proves the invariants for every ring.             *)
EXTENDS Startup

\* The type of every variable.
TypeOK ==
  /\ wg05 \in [Ring -> BOOLEAN] /\ handles \in 0..N
  /\ phase \in {"gather", "configure", "preop", "safeop", "op", "run", "close", "done"}
  /\ todo \in SUBSET {s \in Ring : s < handles}
  /\ start_address \in Nat /\ fmmu \in [Ring -> Nat \cup {NULL}]
  /\ cached \in [Ring -> States] /\ device \in [Ring -> States]
  /\ running \in Nat
  /\ report \in [Ring -> [goal : States, text : {"none", "[Success]", "[Fail]"}]]

\* The windows of two slaves never overlap, and all of them lie inside the
\* process image of setMasterBuffer (wg05.cpp:27-50 against :152).
WindowsDisjoint ==
  \A s, u \in Ring : s < u /\ fmmu[s] # NULL /\ fmmu[u] # NULL
    => fmmu[s] + Slot <= fmmu[u]

WindowsInImage == \A s \in Ring : fmmu[s] # NULL => fmmu[s] + Slot <= Slot * N

LayoutSound == WindowsDisjoint /\ WindowsInImage

\* packCommand writes the command of slave number s at Slot * s; that is where
\* its FMMU reads it as long as no other kind of slave comes before s on the
\* ring (wg05.cpp:215-249 against :27).
PackedWhereRead ==
  \A s \in Targets : fmmu[s] # NULL /\ (\A u \in 0..s : wg05[u]) => fmmu[s] = Slot * s

\* "slaves must be configured (fmmu & pd) before changing state" (wg05.cpp:116):
\* a slave past PREOP has its windows, whatever was refused or lost on the way.
ConfiguredBeforeSafeop ==
  \A s \in Ring : cached[s] \in {SAFEOP, OP} => s \in Targets /\ fmmu[s] # NULL

\* Process data is exchanged on behalf of exactly the slaves whose handlers are
\* in SAFEOP or OP: no start is missed or counted twice, although a later loop
\* may make up for a state change an earlier one failed to make.
Started == {s \in Ring : cached[s] \in {SAFEOP, OP}}
RunningMatches == running = Cardinality(Started)

\* A configured slave is left in OP, by the shutdown or by a failed start-up,
\* only if one of its state changes was not confirmed: then the text of
\* changeState is the only trace of it (master_driver.cpp:246, :256-264).
LeftInOpUnconfirmed ==
  phase = "done" => \A s \in Targets : device[s] = OP => report[s].text = "[Success]"

-----------------------------------------------------------------------------
(* The inductive invariant. *)

\* Until the loops over the state machines, the windows are laid out in ring
\* order, each at most where a ring of WG05 slaves alone would have it.
Layout ==
  /\ phase = "gather" => handles = 0 /\ start_address = 0
  /\ \A s \in Ring : fmmu[s] # NULL =>
       s \in Targets /\ fmmu[s] + Slot <= start_address /\ fmmu[s] <= Slot * s
  /\ \A s \in Targets : fmmu[s] = NULL => phase = "configure" /\ s \in todo
  /\ phase = "configure" => \A s \in todo :
       /\ s \in Targets /\ fmmu[s] = NULL
       /\ start_address <= Slot * s
       /\ \A u \in Targets : s < u => u \in todo
       /\ Turn(s) /\ (\A u \in 0..s : wg05[u]) => start_address = Slot * s

\* The loops raise the handlers' states one loop at a time.
Raising ==
  /\ phase \in {"gather", "configure"} => \A s \in Ring : cached[s] = INIT
  /\ phase = "preop" => \A s \in Ring : cached[s] <= PREOP
  /\ phase = "safeop" => \A s \in Ring : cached[s] <= SAFEOP
  /\ phase \in {"preop", "safeop", "op"} =>
       \A s \in todo : s \in Targets /\ cached[s] < Goal
  /\ \A s \in Ring : cached[s] # INIT => s \in Targets

\* Why a slave may be in OP.
InOp ==
  /\ \A s \in Targets : device[s] = OP =>
       \/ report[s].text = "[Success]" \/ cached[s] = OP
       \/ phase \in {"gather", "configure"}
       \/ phase = "preop" /\ s \in todo
  /\ phase \in {"close", "done"} => \A s \in Targets :
       cached[s] = OP => s \in todo \/ report[s].text = "[Success]"
  /\ phase \in {"gather", "run", "done"} => todo = {}

IInv ==
  /\ TypeOK /\ Layout /\ Raising /\ InOp
  /\ WindowsDisjoint /\ PackedWhereRead /\ RunningMatches

-----------------------------------------------------------------------------
\* What main still has before it: loops, slaves of this loop, and state changes of
\* these slaves.
LoopsLeft ==
  CASE phase = "gather" -> 7 [] phase = "configure" -> 6 [] phase = "preop" -> 5
    [] phase = "safeop" -> 4 [] phase = "op" -> 3 [] phase = "run" -> 2
    [] phase = "close" -> 1 [] phase = "done" -> 0

ChangesLeft == {c \in todo \X States : cached[c[1]] < c[2] /\ c[2] <= Goal}

Work == LoopsLeft * (5 * N + 1) + Cardinality(todo) + Cardinality(ChangesLeft)

\* Every step of main brings it closer to its end, whether a state change is
\* confirmed, refused or lost, and no slave that falls back by itself gives it more
\* to do: the loops over the slaves, and to_state's own loop inside them, cannot go on
\* for ever (wg05.cpp:21-66, 106-163, master_driver.cpp:241-264).
WorkShrinks == [][Work' <= Work /\ (MainStep => Work' < Work)]_vars

\* Start-up and shutdown end, whatever the slaves refuse.
StartupEnds == <>(phase = "run")
ShutdownEnds == phase = "close" ~> phase = "done"

LiveSpec == Spec /\ WF_vars(MainStep)

-----------------------------------------------------------------------------
(* What the code says of itself and does not do. *)

\* changeState prints "[Success]" (master_driver.cpp:247) when the state was
\* reached: to_state, as set_state, returns "true if succeeded" (ethercat_FSM.h:84).
SuccessIsSuccess ==
  \A s \in Ring : report[s].text = "[Success]" => cached[s] = report[s].goal

\* "Target Slave: %d" (main.cpp:127): the slave number packCommand compares with
\* target_slave names the slave that receives the command.
TargetReceives ==
  \A s \in Targets : fmmu[s] # NULL => fmmu[s] = Slot * s
=============================================================================
