--------------------------- MODULE StartupProofs ---------------------------
(***************************************************************************)
(* The invariants of Startup hold for every ring, every mixture of slaves  *)
(* and every size of the command and the status.                           *)
(***************************************************************************)
EXTENDS StartupProperties, FiniteSetTheorems, TLAPS

USE StartupAssumption DEF Ring, INIT, PREOP, SAFEOP, OP, NULL

\* A slot is not empty.
LEMMA SlotType == Slot \in Nat \ {0}
  BY DEF Slot

\* A slot ends where the next one begins, at the latest.
LEMMA SlotMultiples ==
  ASSUME NEW s \in Nat, NEW u \in Nat, s < u
  PROVE  /\ Slot * s \in Nat /\ Slot * u \in Nat
         /\ Slot * s + Slot <= Slot * u
         /\ Slot * s + Slot = Slot * (s + 1)
  <1> DEFINE d == u - s - 1
  <1>1. d \in Nat /\ u = s + 1 + d
    OBVIOUS
  <1>2. ASSUME NEW a \in Nat, NEW b \in Nat PROVE a * b \in Nat
    BY <1>2
  <1>3. Slot * u = Slot * s + Slot + Slot * d
    BY <1>1, SlotType
  <1> QED
    BY <1>1, <1>2, <1>3, SlotType

\* The slaves that exchange process data can be counted.
LEMMA StartedFinite ==
  TypeOK => IsFiniteSet(Started) /\ Cardinality(Started) \in Nat
  <1> SUFFICES ASSUME TypeOK PROVE IsFiniteSet(Started) /\ Cardinality(Started) \in Nat
    OBVIOUS
  <1>1. IsFiniteSet(0 .. N - 1)
    BY FS_Interval
  <1>2. Started \subseteq 0 .. N - 1
    BY DEF Started
  <1> QED
    BY <1>1, <1>2, FS_Subset, FS_CardinalityType

\* The invariant holds when the master has found the slaves.
LEMMA InitInv == Init => IInv
  <1> SUFFICES ASSUME Init PROVE IInv
    OBVIOUS
  <1> USE DEF Init
  <1>1. TypeOK
    BY DEF TypeOK, States
  <1>2. Layout /\ WindowsDisjoint /\ PackedWhereRead
    BY DEF Layout, WindowsDisjoint, PackedWhereRead, Targets
  <1>3. Raising /\ InOp
    BY DEF Raising, InOp, Targets
  <1>4. RunningMatches
    <2>1. Started = {}
      BY DEF Started
    <2> QED
      BY <2>1, FS_EmptySet DEF RunningMatches
  <1> QED
    BY <1>1, <1>2, <1>3, <1>4 DEF IInv

\* OP is the highest state.
LEMMA OpHighest ==
  ASSUME NEW a \in States, NEW b \in States, a < b PROVE a # OP
  BY DEF States

\* The states are apart.
LEMMA Ladder ==
  ASSUME NEW a \in States
  PROVE  /\ a <= INIT => a < PREOP
         /\ a <= PREOP => a < SAFEOP
         /\ a <= SAFEOP => a < OP
         /\ a < SAFEOP => a <= SAFEOP
         /\ a < PREOP => a <= PREOP
  BY DEF States

\* A sum below a sum.
LEMMA Below ==
  ASSUME NEW a \in Int, NEW b \in Int, NEW c \in Int, NEW d \in Int, a <= b, b + d <= c
  PROVE  a + d <= c
  OBVIOUS

-----------------------------------------------------------------------------
(* What a step leaves alone. *)

\* The steps of the state machines, and of the slaves, do not touch the layout.
LEMMA LayoutKept ==
  ASSUME Layout, WindowsDisjoint, PackedWhereRead, UNCHANGED config,
         phase' = "configure" => phase = "configure" /\ todo' = todo,
         phase = "configure" => phase' = "configure" \/ todo = {},
         phase' # "gather"
  PROVE  Layout' /\ WindowsDisjoint' /\ PackedWhereRead'
  BY DEF config, Layout, WindowsDisjoint, PackedWhereRead, Targets, Turn

\* A step that leaves the counter and the started slaves alone keeps them equal.
LEMMA RunningKept ==
  ASSUME RunningMatches, running' = running, Started' = Started
  PROVE  RunningMatches'
  BY DEF RunningMatches

-----------------------------------------------------------------------------
\* What a state change aims at: in the three loops of setMasterBuffer one state
\* up, and never past the goal; at the shutdown from OP to SAFEOP.
Climbs(s) ==
  /\ phase \in {"preop", "safeop", "op"} /\ cached[s] \in {INIT, PREOP, SAFEOP}
  /\ Toward(s) = 2 * cached[s] /\ Toward(s) <= Goal

Returns(s) ==
  phase = "close" /\ cached[s] = OP /\ Toward(s) = SAFEOP /\ Goal = SAFEOP

\* A state change only concerns a configured slave, in one of the two ways.
LEMMA HopEffect ==
  ASSUME TypeOK, Raising, NEW s \in Ring, Addressed(s)
  PROVE  /\ s \in Targets /\ s \in todo
         /\ Toward(s) \in States /\ Goal \in States
         /\ Climbs(s) \/ Returns(s)
  <1>1. s \in todo /\ phase \in {"preop", "safeop", "op", "close"}
    BY DEF Addressed, Turn, Changing
  <1>2. cached[s] \in {1, 2, 4, 8}
    BY DEF TypeOK, States
  <1>3. CASE phase = "close"
    <2>1. cached[s] = OP /\ Goal = SAFEOP
      BY <1>3 DEF Addressed, Goal
    <2>2. Toward(s) = SAFEOP
      BY <2>1 DEF Toward
    <2>3. s \in Targets
      BY <2>1 DEF Raising
    <2> QED
      BY <1>1, <1>3, <2>1, <2>2, <2>3 DEF Returns, States
  <1>4. CASE phase # "close"
    <2>1. s \in Targets /\ cached[s] < Goal
      BY <1>1, <1>4 DEF Raising
    <2>2. Goal = CASE phase = "preop" -> 2 [] phase = "op" -> 8 [] OTHER -> 4
      BY DEF Goal
    <2>3. Goal \in {2, 4, 8}
      BY <2>2
    <2>4. Toward(s) = 2 * cached[s]
      BY <1>2, <2>1, <2>3 DEF Toward
    <2>5. /\ cached[s] \in {1, 2, 4} /\ 2 * cached[s] <= Goal /\ 2 * cached[s] \in {2, 4, 8}
      BY <1>2, <2>1, <2>3
    <2> QED
      BY <1>1, <1>4, <2>1, <2>3, <2>4, <2>5 DEF Climbs, States
  <1> QED
    BY <1>3, <1>4

\* Every step preserves the invariant.
LEMMA NextInv == IInv /\ [Next]_vars => IInv'
  <1> SUFFICES ASSUME IInv, [Next]_vars PROVE IInv'
    OBVIOUS
  <1> USE DEF IInv, TypeOK
  <1>0. TypeOK
    OBVIOUS
  <1>1. CASE Gather
    <2> USE <1>1 DEF Gather
    <2>1. TypeOK'
      OBVIOUS
    <2>2. \A s \in Ring : fmmu[s] = NULL /\ fmmu'[s] = NULL
      <3>1. handles = 0
        BY DEF Layout
      <3>2. \A s \in Ring : s \notin Targets
        BY <3>1 DEF Targets
      <3> QED
        BY <3>2 DEF Layout
    <2>3. ASSUME NEW s \in Ring PROVE Slot * s \in Nat
      BY <2>3, SlotType, SlotMultiples
    <2>4. ASSUME NEW s \in todo', Turn(s)', \A u \in 0..s : wg05'[u] PROVE s = 0
      BY <2>4, 0 \in todo' DEF Turn
    <2>5. todo' = Targets' /\ start_address' = 0 /\ Slot * 0 = 0
      BY SlotType DEF Targets, Layout
    <2>6. Layout'
      <3>1. \A s \in todo' : start_address' <= Slot * s
        BY <2>3, <2>5
      <3>2. \A s \in todo' : Turn(s)' /\ (\A u \in 0..s : wg05'[u])
                             => start_address' = Slot * s
        BY <2>4, <2>5
      <3> QED
        BY <2>2, <2>5, <3>1, <3>2 DEF Layout
    <2>7. WindowsDisjoint' /\ PackedWhereRead'
      BY <2>2 DEF WindowsDisjoint, PackedWhereRead, Targets
    <2>8. Raising' /\ InOp'
      BY DEF Raising, InOp, Targets
    <2>9. RunningMatches'
      BY RunningKept DEF Started
    <2> QED
      BY <2>1, <2>6, <2>7, <2>8, <2>9
  <1>2. CASE NextPhase
    <2> USE <1>2 DEF NextPhase
    <2>1. TypeOK'
      BY DEF config, Targets
    <2>2. Layout' /\ WindowsDisjoint' /\ PackedWhereRead'
      BY LayoutKept
    <2>3. Targets' = Targets /\ todo' \in SUBSET Targets
      BY DEF config, Targets
    <2>4. Raising'
      <3>1. \A s \in Ring : cached[s] \in {1, 2, 4, 8}
        BY DEF States
      <3>2. CASE phase' = "preop"
        <4>1. Goal' = PREOP
          BY <3>2 DEF Goal
        <4>2. phase = "configure"
          BY <3>2
        <4>3. \A s \in Ring : cached[s] <= INIT
          BY <3>1, <4>2 DEF Raising
        <4>4. \A s \in Ring : cached[s] < PREOP
          BY <4>3, Ladder
        <4> QED
          BY <2>3, <3>2, <4>1, <4>4, Ladder DEF Raising, Targets
      <3>3. CASE phase' = "safeop"
        <4>1. Goal' = SAFEOP
          BY <3>3 DEF Goal
        <4>2. phase = "preop"
          BY <3>3
        <4>3. \A s \in Ring : cached[s] <= PREOP
          BY <3>1, <4>2 DEF Raising
        <4>4. \A s \in Ring : cached[s] < SAFEOP
          BY <4>3, Ladder
        <4> QED
          BY <2>3, <3>3, <4>1, <4>4, Ladder DEF Raising, Targets
      <3>4. CASE phase' = "op"
        <4>1. Goal' = OP
          BY <3>4 DEF Goal
        <4>2. phase = "safeop"
          BY <3>4
        <4>3. \A s \in Ring : cached[s] <= SAFEOP
          BY <3>1, <4>2 DEF Raising
        <4>4. \A s \in Ring : cached[s] < OP
          BY <4>3, Ladder
        <4> QED
          BY <2>3, <3>4, <4>1, <4>4, Ladder DEF Raising, Targets
      <3>5. CASE phase' \in {"run", "done"}
        BY <2>3, <3>5 DEF Raising
      <3> QED
        BY <3>2, <3>3, <3>4, <3>5
    <2>5. InOp'
      BY <2>3 DEF InOp
    <2>6. RunningMatches'
      BY RunningKept DEF Started
    <2> QED
      BY <2>1, <2>2, <2>4, <2>5, <2>6
  <1>3. CASE Close
    <2> USE <1>3 DEF Close
    <2>1. TypeOK'
      BY DEF config
    <2>2. Layout' /\ WindowsDisjoint' /\ PackedWhereRead'
      BY LayoutKept
    <2>3. Targets' = Targets /\ Targets \subseteq todo'
      BY DEF config, Targets
    <2>4. Raising' /\ InOp'
      BY <2>3 DEF Raising, InOp
    <2>5. RunningMatches'
      BY RunningKept DEF Started
    <2> QED
      BY <2>1, <2>2, <2>4, <2>5
  <1>4. ASSUME NEW s \in Ring, Configure(s) PROVE IInv'
    <2> USE <1>4 DEF Configure
    <2> DEFINE next == start_address + Slot
    <2>1. /\ s \in todo /\ s \in Targets /\ Targets' = Targets /\ phase = "configure"
          /\ todo' = todo \ {s} /\ start_address' = next
          /\ fmmu[s] = NULL /\ fmmu' = [fmmu EXCEPT ![s] = start_address]
          /\ start_address <= Slot * s
      BY DEF Turn, Targets, Layout, Slot
    <2>2. TypeOK'
      BY <2>1, SlotType
    <2>3. \A u \in Targets : fmmu[u] # NULL => u < s
      BY <2>1 DEF Layout, Turn, Targets
    <2>4. \A u \in Targets : s < u => u \in todo' /\ fmmu[u] = NULL
      <3>1. \A u \in Targets : s < u => u \in todo /\ u # s
        BY <2>1 DEF Layout, Targets
      <3> QED
        BY <2>1, <3>1 DEF Layout
    <2>5. ASSUME NEW u \in todo'
          PROVE  next <= Slot * u /\ (Turn(u)' /\ (\A v \in 0..u : wg05'[v]) => next = Slot * u)
      <3>1. u \in Targets /\ s < u
        BY <2>1 DEF Layout, Turn, Targets
      <3>2. s \in Nat /\ u \in Nat /\ Slot * s + Slot <= Slot * u /\ Slot * s \in Nat
              /\ Slot * u \in Nat
        BY <3>1, SlotMultiples DEF Targets
      <3>3. next <= Slot * u
        <4>1. start_address \in Int /\ start_address <= Slot * s
          BY <2>1
        <4> HIDE DEF TypeOK
        <4> QED
          BY <3>2, <4>1, SlotType, Below
      <3>4. ASSUME Turn(u)', \A v \in 0..u : wg05'[v] PROVE next = Slot * u
        <4>1. s + 1 \in Targets
          BY <3>1, <3>2, <3>4 DEF Targets
        <4>2. s + 1 \in todo' /\ u <= s + 1
          BY <2>4, <3>2, <3>4, <4>1 DEF Turn
        <4>3. \A v \in 0..s : wg05[v]
          BY <3>1, <3>2, <3>4
        <4>4. start_address = Slot * s
          BY <2>1, <4>3 DEF Layout
        <4>5. u = s + 1
          BY <3>1, <3>2, <4>2
        <4> QED
          BY <3>1, <3>2, <4>4, <4>5, SlotMultiples
      <3> QED
        BY <3>3, <3>4
    <2>6. Layout'
      <3>1. ASSUME NEW u \in Ring, fmmu'[u] # NULL
            PROVE  u \in Targets /\ fmmu'[u] + Slot <= next /\ fmmu'[u] <= Slot * u
        <4>1. CASE u = s
          <5>1. fmmu'[u] = start_address /\ s \in Nat
            BY <2>1, <4>1 DEF Targets
          <5> QED
            BY <2>1, <4>1, <5>1, SlotType
        <4>2. CASE u # s
          <5>1. fmmu'[u] = fmmu[u] /\ fmmu[u] \in Nat /\ fmmu[u] # NULL
            BY <2>1, <3>1, <4>2
          <5>2. u \in Targets /\ fmmu[u] + Slot <= start_address /\ fmmu[u] <= Slot * u
            BY <5>1 DEF Layout
          <5> QED
            BY <5>1, <5>2, SlotType
        <4> QED
          BY <4>1, <4>2
      <3>2. ASSUME NEW u \in Targets, fmmu'[u] = NULL PROVE u \in todo'
        BY <2>1, <3>2 DEF Layout, Targets
      <3>3. ASSUME NEW u \in todo'
            PROVE  /\ u \in Targets /\ fmmu'[u] = NULL
                   /\ \A v \in Targets : u < v => v \in todo'
        BY <2>1, <2>4 DEF Layout, Turn, Targets
      <3>4. ASSUME NEW u \in todo'
            PROVE  /\ start_address' <= Slot * u
                   /\ Turn(u)' /\ (\A v \in 0..u : wg05'[v]) => start_address' = Slot * u
        BY <2>1, <2>5
      <3>5. phase' = "configure" /\ start_address' = next
        BY <2>1
      <3> HIDE DEF TypeOK, next, Configure
      <3> QED
        BY <2>1, <3>1, <3>2, <3>3, <3>4, <3>5 DEF Layout
    <2>7. WindowsDisjoint'
      BY <2>1, <2>3, <2>4 DEF WindowsDisjoint, Layout
    <2>8. PackedWhereRead'
      <3>1. ASSUME NEW u \in Targets, fmmu'[u] # NULL, \A v \in 0..u : wg05[v]
            PROVE  fmmu'[u] = Slot * u
        <4>1. CASE u = s
          <5>1. fmmu'[u] = start_address
            BY <2>1, <4>1 DEF Targets
          <5>2. Turn(s)
            OBVIOUS
          <5> QED
            BY <2>1, <3>1, <4>1, <5>1, <5>2 DEF Layout
        <4>2. CASE u # s
          <5>1. fmmu'[u] = fmmu[u]
            BY <2>1, <4>2 DEF Targets
          <5> QED
            BY <3>1, <5>1 DEF PackedWhereRead
        <4> QED
          BY <4>1, <4>2
      <3> QED
        BY <2>1, <3>1 DEF PackedWhereRead
    <2>9. Raising' /\ InOp'
      BY <2>1 DEF Raising, InOp
    <2>10. RunningMatches'
      BY RunningKept DEF Started
    <2> QED
      BY <2>2, <2>6, <2>7, <2>8, <2>9, <2>10
  <1>5. ASSUME NEW s \in Ring, Confirmed(s) PROVE IInv'
    <2>1. /\ device' = [device EXCEPT ![s] = Toward(s)]
          /\ cached' = [cached EXCEPT ![s] = Toward(s)]
          /\ running' = IF cached[s] = PREOP THEN running + 1 ELSE running
          /\ IF Toward(s) = Goal THEN Report(s, TRUE) /\ todo' = todo \ {s}
                                 ELSE UNCHANGED <<report, todo>>
          /\ UNCHANGED <<config, phase>>
      BY <1>5 DEF Confirmed
    <2>2. /\ s \in Targets /\ s \in todo
          /\ Toward(s) \in States /\ Goal \in States
          /\ Climbs(s) \/ Returns(s)
      BY <1>5, HopEffect DEF Confirmed
    <2>3. Goal' = Goal /\ Targets' = Targets
      BY <2>1 DEF config, Goal, Targets
    <2>4. TypeOK'
      <3>1. report' \in [Ring -> [goal : States, text : {"none", "[Success]", "[Fail]"}]]
        <4>1. \/ report' = report
              \/ report' = [report EXCEPT ![s] = [goal |-> Goal, text |-> "[Fail]"]]
          BY <2>1 DEF Report
        <4>2. [goal |-> Goal, text |-> "[Fail]"]
                \in [goal : States, text : {"none", "[Success]", "[Fail]"}]
          BY <2>2
        <4>3. report \in [Ring -> [goal : States, text : {"none", "[Success]", "[Fail]"}]]
          OBVIOUS
        <4> HIDE DEF TypeOK, IInv
        <4> QED
          BY <4>1, <4>2, <4>3
      <3>2. cached' \in [Ring -> States] /\ device' \in [Ring -> States] /\ running' \in Nat
        BY <2>1, <2>2
      <3>3. todo' \in SUBSET {u \in Ring : u < handles}
        BY <2>1
      <3> QED
        BY <2>1, <3>1, <3>2, <3>3 DEF config
    <2>5. Layout' /\ WindowsDisjoint' /\ PackedWhereRead'
      <3>1. phase' # "configure" /\ phase' # "gather" /\ phase # "configure"
        BY <2>1, <2>2 DEF Climbs, Returns
      <3> QED
        BY <2>1, <3>1, LayoutKept
    <2>6. todo' \subseteq todo /\ (s \in todo' => Toward(s) # Goal)
      BY <2>1
    <2>7. Raising'
      <3>1. CASE Returns(s)
        BY <2>1, <2>2, <2>3, <2>6, <3>1 DEF Raising, Returns
      <3>2. CASE Climbs(s)
        <4>1. \A u \in todo' : u \in Targets' /\ cached'[u] < Goal'
          <5>1. \A u \in todo : u \in Targets /\ cached[u] < Goal
            BY <3>2 DEF Raising, Climbs
          <5>2. s \in todo' => Toward(s) < Goal
            BY <2>2, <2>6, <3>2 DEF Climbs, States
          <5> QED
            BY <2>1, <2>3, <2>6, <5>1, <5>2
        <4>2. phase = "preop" => Toward(s) <= PREOP
          BY <3>2 DEF Climbs, Goal
        <4>3. phase = "safeop" => Toward(s) <= SAFEOP
          BY <3>2 DEF Climbs, Goal
        <4>4. phase \notin {"gather", "configure"} /\ phase' = phase
          BY <2>1, <3>2 DEF Climbs
        <4> QED
          BY <2>1, <2>2, <2>3, <4>1, <4>2, <4>3, <4>4 DEF Raising
      <3> QED
        BY <2>2, <3>1, <3>2
    <2>8. InOp'
      <3>1. \A u \in Ring \ {s} : /\ device'[u] = device[u] /\ cached'[u] = cached[u]
                                 /\ report'[u] = report[u] /\ (u \in todo <=> u \in todo')
        BY <2>1 DEF Report
      <3>2. device'[s] = cached'[s] /\ phase' = phase
        BY <2>1
      <3>3. phase = "close" => cached'[s] # OP
        BY <2>1, <2>2 DEF Climbs, Returns
      <3>4. phase \in {"preop", "safeop", "op", "close"}
        BY <2>2 DEF Climbs, Returns
      <3>5. Targets \subseteq Ring
        BY DEF Targets
      <3> HIDE DEF TypeOK
      <3> QED
        BY <2>3, <3>1, <3>2, <3>3, <3>4, <3>5 DEF InOp
    <2>9. RunningMatches'
      <3>1. CASE cached[s] = PREOP
        <4>1. Toward(s) = SAFEOP
          BY <2>2, <3>1 DEF Climbs, Returns
        <4>2. s \notin Started /\ Started' = Started \cup {s}
          BY <2>1, <3>1, <4>1 DEF Started
        <4>3. Cardinality(Started') = Cardinality(Started) + 1
          BY <1>0, <4>2, StartedFinite, FS_AddElement
        <4> QED
          BY <2>1, <3>1, <4>3 DEF RunningMatches
      <3>2. CASE cached[s] # PREOP
        <4>1. cached[s] \in {SAFEOP, OP} <=> Toward(s) \in {SAFEOP, OP}
          BY <2>2, <3>2 DEF Climbs, Returns, States
        <4>2. Started' = Started
          BY <2>1, <4>1 DEF Started
        <4> QED
          BY <2>1, <3>2, <4>2, RunningKept
      <3> QED
        BY <3>1, <3>2
    <2> QED
      BY <2>4, <2>5, <2>7, <2>8, <2>9
  <1>6. ASSUME NEW s \in Ring, Unconfirmed(s) PROVE IInv'
    <2>1. /\ \/ UNCHANGED device
             \/ device' = [device EXCEPT ![s] = Toward(s)]
          /\ report' = [report EXCEPT ![s] = [goal |-> Goal, text |-> "[Success]"]]
          /\ todo' = todo \ {s}
          /\ UNCHANGED <<config, phase, cached, running>>
      BY <1>6 DEF Unconfirmed, Report
    <2>2. /\ s \in Targets /\ s \in todo
          /\ Toward(s) \in States /\ Goal \in States
          /\ Climbs(s) \/ Returns(s)
      BY <1>6, HopEffect DEF Unconfirmed
    <2>3. Goal' = Goal /\ Targets' = Targets
      BY <2>1 DEF config, Goal, Targets
    <2>4. TypeOK'
      BY <2>1, <2>2 DEF config
    <2>5. Layout' /\ WindowsDisjoint' /\ PackedWhereRead'
      <3>1. phase' # "configure" /\ phase' # "gather" /\ phase # "configure"
        BY <2>1, <2>2 DEF Climbs, Returns
      <3> QED
        BY <2>1, <3>1, LayoutKept
    <2>6. Raising'
      BY <2>1, <2>3 DEF Raising
    <2>7. InOp'
      <3>1. \A u \in Ring \ {s} : /\ device'[u] = device[u]
                                 /\ report'[u] = report[u] /\ (u \in todo <=> u \in todo')
        BY <2>1
      <3>2. report'[s].text = "[Success]" /\ phase' = phase /\ cached' = cached
        BY <2>1
      <3>3. phase \notin {"gather", "run", "done"} /\ Targets \subseteq Ring
        BY <2>2 DEF Climbs, Returns, Targets
      <3> HIDE DEF TypeOK
      <3> QED
        BY <2>3, <3>1, <3>2, <3>3 DEF InOp
    <2>8. RunningMatches'
      BY <2>1, RunningKept DEF Started
    <2> QED
      BY <2>4, <2>5, <2>6, <2>7, <2>8
  <1>7. ASSUME NEW s \in Ring, PassOver(s) PROVE IInv'
    <2> USE <1>7 DEF PassOver
    <2>1. TypeOK'
      BY DEF config
    <2>2. Layout' /\ WindowsDisjoint' /\ PackedWhereRead'
      BY LayoutKept
    <2>3. Raising' /\ InOp'
      BY DEF Raising, InOp, config, Targets
    <2>4. RunningMatches'
      BY RunningKept DEF Started
    <2> QED
      BY <2>1, <2>2, <2>3, <2>4
  <1>8. ASSUME NEW s \in Ring, Fall(s) PROVE IInv'
    <2>1. PICK state \in States : state < device[s] /\ device' = [device EXCEPT ![s] = state]
      BY <1>8 DEF Fall
    <2>2. UNCHANGED <<config, phase, todo, cached, running, report>>
      BY <1>8 DEF Fall
    <2>3. TypeOK'
      BY <2>1, <2>2 DEF config
    <2>4. Layout' /\ WindowsDisjoint' /\ PackedWhereRead'
      BY <2>2 DEF config, Layout, WindowsDisjoint, PackedWhereRead, Targets, Turn
    <2>5. Raising'
      BY <2>2 DEF Raising, config, Targets, Goal
    <2>6. \A u \in Ring : device'[u] = OP => device[u] = OP
      <3>1. state # OP
        BY <2>1, OpHighest
      <3> QED
        BY <2>1, <3>1
    <2>7. InOp'
      BY <2>2, <2>6 DEF InOp, config, Targets
    <2>8. RunningMatches'
      BY <2>2, RunningKept DEF Started
    <2> QED
      BY <2>3, <2>4, <2>5, <2>7, <2>8
  <1>9. CASE UNCHANGED vars
    BY <1>9 DEF vars, config, Layout, Raising, InOp, WindowsDisjoint, PackedWhereRead,
      RunningMatches, Started, Targets, Turn, Goal
  <1> QED
    BY <1>1, <1>2, <1>3, <1>4, <1>5, <1>6, <1>7, <1>8, <1>9
       DEF Next, MainStep, Finished

-----------------------------------------------------------------------------
(* The results. *)

\* The invariant holds in every reachable state.
THEOREM Invariance == Spec => []IInv
  <1>1. Init => IInv
    BY InitInv
  <1>2. IInv /\ [Next]_vars => IInv'
    BY NextInv
  <1> QED
    BY <1>1, <1>2, PTL DEF Spec

\* The windows of different slaves are disjoint and lie in the process image,
\* for every ring and every size of command and status (wg05.cpp:27-50, :152).
THEOREM LayoutIsSound == Spec => []LayoutSound
  <1>1. IInv => WindowsDisjoint
    BY DEF IInv
  <1>2. IInv => WindowsInImage
    <2> SUFFICES ASSUME IInv, NEW s \in Ring, fmmu[s] # NULL
                 PROVE  fmmu[s] + Slot <= Slot * N
      BY DEF WindowsInImage
    <2>1. fmmu[s] <= Slot * s /\ fmmu[s] \in Nat
      BY DEF IInv, TypeOK, Layout
    <2>2. Slot * s \in Nat /\ Slot * N \in Nat /\ Slot * s + Slot <= Slot * N
      BY SlotMultiples
    <2> QED
      BY <2>1, <2>2, SlotType, Below
  <1> QED
    BY <1>1, <1>2, Invariance, PTL DEF LayoutSound

\* On a ring that starts with WG05 slaves the command of each of them is packed
\* where its FMMU reads it (wg05.cpp:215-249 against :27).
THEOREM PackingIsSound == Spec => []PackedWhereRead
  <1>1. IInv => PackedWhereRead
    BY DEF IInv
  <1> QED
    BY <1>1, Invariance, PTL

\* A slave past PREOP has its windows (wg05.cpp:116).
THEOREM ConfiguredFirst == Spec => []ConfiguredBeforeSafeop
  <1>1. IInv => ConfiguredBeforeSafeop
    <2> SUFFICES ASSUME IInv, NEW s \in Ring, cached[s] \in {SAFEOP, OP}
                 PROVE  s \in Targets /\ fmmu[s] # NULL
      BY DEF ConfiguredBeforeSafeop
    <2>1. s \in Targets /\ phase # "configure"
      BY DEF IInv, Raising
    <2> QED
      BY <2>1 DEF IInv, Layout
  <1> QED
    BY <1>1, Invariance, PTL

\* m_is_running counts the handlers in SAFEOP or OP.
THEOREM RunningIsExact == Spec => []RunningMatches
  <1>1. IInv => RunningMatches
    BY DEF IInv
  <1> QED
    BY <1>1, Invariance, PTL

\* Only a slave with an unconfirmed state change is left in OP
\* (master_driver.cpp:256-264).
THEOREM ClosedUnlessUnconfirmed == Spec => []LeftInOpUnconfirmed
  <1>1. IInv => LeftInOpUnconfirmed
    BY DEF IInv, InOp, LeftInOpUnconfirmed
  <1> QED
    BY <1>1, Invariance, PTL

\* Every variable keeps its type.
THEOREM TypeCorrect == Spec => []TypeOK
  BY Invariance, PTL DEF IInv
-----------------------------------------------------------------------------
(* The loops end. *)

\* Slaves and state changes can be counted; of a loop there are at most 5 N.
LEMMA Countable ==
  ASSUME NEW S \in SUBSET Ring, NEW C \in SUBSET (S \X States)
  PROVE  /\ IsFiniteSet(S) /\ Cardinality(S) \in Nat
         /\ IsFiniteSet(C) /\ Cardinality(C) \in Nat
         /\ Cardinality(S) + Cardinality(C) <= 5 * N
<1>1. IsFiniteSet(Ring) /\ Cardinality(Ring) = N
  BY FS_Interval DEF Ring
<1> HIDE DEF Ring
<1>2. IsFiniteSet(S) /\ Cardinality(S) \in Nat /\ Cardinality(S) <= N
  BY <1>1, FS_Subset, FS_CardinalityType
<1>3. IsFiniteSet(States) /\ Cardinality(States) \in Nat /\ Cardinality(States) <= 4
  <2> DEFINE AtMost(T, n) == IsFiniteSet(T) /\ Cardinality(T) <= n
  <2>1. ASSUME NEW T, NEW n \in Nat, AtMost(T, n), NEW x PROVE AtMost(T \cup {x}, n + 1)
    <3>1. Cardinality(T) \in Nat
      BY <2>1, FS_CardinalityType
    <3>2. /\ IsFiniteSet(T \cup {x})
          /\ Cardinality(T \cup {x}) = IF x \in T THEN Cardinality(T) ELSE Cardinality(T) + 1
      BY <2>1, FS_AddElement
    <3> QED
      BY <2>1, <3>1, <3>2
  <2>2. AtMost({}, 0)
    BY FS_EmptySet
  <2> DEFINE A == {} \cup {1}
             B == A \cup {2}
             D == B \cup {4}
             E == D \cup {8}
  <2>3. States = E
    BY DEF States
  <2> HIDE DEF A, B, D, E, AtMost
  <2>4. AtMost(A, 1)
    <3>1. AtMost({} \cup {1}, 0 + 1)
      BY <2>1, <2>2
    <3> QED
      BY <3>1, 1 = 0 + 1 DEF A
  <2>5. AtMost(B, 2)
    <3>1. AtMost(A \cup {2}, 1 + 1)
      BY <2>1, <2>4
    <3> QED
      BY <3>1, 2 = 1 + 1 DEF B
  <2>6. AtMost(D, 3)
    <3>1. AtMost(B \cup {4}, 2 + 1)
      BY <2>1, <2>5
    <3> QED
      BY <3>1, 3 = 2 + 1 DEF D
  <2>7. AtMost(E, 4)
    <3>1. AtMost(D \cup {8}, 3 + 1)
      BY <2>1, <2>6
    <3> QED
      BY <3>1, 4 = 3 + 1 DEF E
  <2> QED
    BY <2>3, <2>7, FS_CardinalityType DEF AtMost
<1>4. IsFiniteSet(S \X States) /\ Cardinality(S \X States) = Cardinality(S) * Cardinality(States)
  BY <1>2, <1>3, FS_Product
<1>5. /\ IsFiniteSet(C) /\ Cardinality(C) \in Nat
      /\ Cardinality(C) <= Cardinality(S) * Cardinality(States)
  BY <1>4, FS_Subset, FS_CardinalityType
<1>6. ASSUME NEW a \in Nat, NEW b \in Nat, a <= N, b <= 4 PROVE a * b \in Nat /\ a * b <= 4 * N
  <2>1. b \in {0, 1, 2, 3, 4}
    BY <1>6
  <2> QED
    BY <1>6, <2>1
<1>7. /\ Cardinality(S) * Cardinality(States) \in Nat
      /\ Cardinality(S) * Cardinality(States) <= 4 * N
  BY <1>2, <1>3, <1>6
<1> QED
  BY <1>2, <1>5, <1>7

\* What is left to do is a natural number.
LEMMA WorkType ==
  ASSUME TypeOK
  PROVE  /\ IsFiniteSet(todo) /\ Cardinality(todo) \in Nat
         /\ IsFiniteSet(ChangesLeft) /\ Cardinality(ChangesLeft) \in Nat
         /\ Cardinality(todo) + Cardinality(ChangesLeft) <= 5 * N
         /\ LoopsLeft \in 0..7 /\ LoopsLeft * (5 * N + 1) \in Nat /\ Work \in Nat
<1>1. todo \in SUBSET Ring /\ ChangesLeft \in SUBSET (todo \X States)
  BY DEF TypeOK, ChangesLeft
<1>2. LoopsLeft \in 0..7
  BY DEF TypeOK, LoopsLeft
<1>3. LoopsLeft * (5 * N + 1) \in Nat
  BY <1>2
<1> QED
  BY <1>1, <1>2, <1>3, Countable DEF Work

\* The same after a step.
LEMMA WorkTypeNext ==
  ASSUME TypeOK'
  PROVE  /\ Cardinality(todo') \in Nat /\ Cardinality(ChangesLeft') \in Nat
         /\ Cardinality(todo') + Cardinality(ChangesLeft') <= 5 * N
         /\ Work' \in Nat
<1>1. todo' \in SUBSET Ring /\ ChangesLeft' \in SUBSET (todo' \X States)
  BY DEF TypeOK, ChangesLeft
<1> DEFINE l == LoopsLeft'
<1>2. l \in 0..7
  BY DEF TypeOK, LoopsLeft
<1>3. Work' = l * (5 * N + 1) + Cardinality(todo') + Cardinality(ChangesLeft')
  BY DEF Work
<1> HIDE DEF l
<1>4. l * (5 * N + 1) \in Nat
  BY <1>2
<1>5. /\ Cardinality(todo') \in Nat /\ Cardinality(ChangesLeft') \in Nat
      /\ Cardinality(todo') + Cardinality(ChangesLeft') <= 5 * N
  BY <1>1, Countable
<1> QED
  BY <1>3, <1>4, <1>5

\* A loop that has ended counts more than all that the next one brings.
LEMMA LoopEnds ==
  ASSUME TypeOK, TypeOK', LoopsLeft' = LoopsLeft - 1
  PROVE  Work' < Work
<1> DEFINE a == Cardinality(todo) + Cardinality(ChangesLeft)
           b == Cardinality(todo') + Cardinality(ChangesLeft')
           l == LoopsLeft
<1>1. a \in Nat /\ l \in 0..7
  BY WorkType
<1>2. b \in Nat /\ b <= 5 * N
  BY WorkTypeNext
<1>3. Work = l * (5 * N + 1) + a
  BY WorkType DEF Work
<1>4. Work' = (l - 1) * (5 * N + 1) + b
  <2>1. Cardinality(todo') \in Nat /\ Cardinality(ChangesLeft') \in Nat
    BY WorkTypeNext
  <2> QED
    BY <1>1, <2>1 DEF Work
<1> HIDE DEF a, b, l
<1>5. (l - 1) * (5 * N + 1) = l * (5 * N + 1) - (5 * N + 1)
  BY <1>1
<1>6. l * (5 * N + 1) \in Nat
  BY <1>1
<1> QED
  BY <1>1, <1>2, <1>3, <1>4, <1>5, <1>6

\* A slave that is done with, or a state change of it, counts.
LEMMA SlaveDone ==
  ASSUME TypeOK, phase' = phase, NEW s \in todo, todo' = todo \ {s},
         \A u \in Ring : u # s => cached'[u] = cached[u]
  PROVE  Work' < Work
<1>1. LoopsLeft' = LoopsLeft /\ Goal' = Goal
  BY DEF LoopsLeft, Goal
<1>2. ChangesLeft' \in SUBSET ChangesLeft
  <2>1. todo \subseteq Ring
    BY DEF TypeOK
  <2> QED
    BY <1>1, <2>1 DEF ChangesLeft
<1>3. Cardinality(todo') = Cardinality(todo) - 1
  BY WorkType, FS_RemoveElement
<1>4. Cardinality(ChangesLeft') <= Cardinality(ChangesLeft) /\ Cardinality(ChangesLeft') \in Nat
  BY <1>2, WorkType, FS_Subset, FS_CardinalityType
<1> QED
  BY <1>1, <1>3, <1>4, WorkType DEF Work

LEMMA ChangeDone ==
  ASSUME TypeOK, UNCHANGED <<phase, todo>>, NEW s \in todo,
         Toward(s) # Goal, cached' = [cached EXCEPT ![s] = Toward(s)]
  PROVE  Work' < Work
<1>1. LoopsLeft' = LoopsLeft /\ Goal' = Goal
  BY DEF LoopsLeft, Goal
<1> DEFINE c == <<s, Toward(s)>>
<1>2. s \in Ring /\ \A u \in todo : cached[u] \in {1, 2, 4, 8}
  BY DEF TypeOK, States
<1>3. Goal \in {2, 4, 8}
  BY DEF Goal
<1>4. Toward(s) \in States /\ cached[s] < Toward(s) /\ Toward(s) <= Goal
  BY <1>2, <1>3 DEF Toward, States
<1>5. c \in ChangesLeft
  BY <1>4 DEF ChangesLeft
<1>6. ChangesLeft' \in SUBSET (ChangesLeft \ {c})
  <2>1. \A u \in todo : cached'[u] = IF u = s THEN Toward(s) ELSE cached[u]
    BY <1>2 DEF TypeOK
  <2>2. ASSUME NEW u \in todo, NEW state \in States, cached'[u] < state, state <= Goal
        PROVE  cached[u] < state /\ <<u, state>> # c
    <3>1. state \in {1, 2, 4, 8} /\ Toward(s) \in {1, 2, 4, 8}
      BY <1>4 DEF States
    <3> QED
      BY <1>2, <1>4, <2>1, <2>2, <3>1
  <2> HIDE DEF c
  <2> QED
    BY <1>1, <2>2 DEF ChangesLeft
<1> HIDE DEF c
<1>7. IsFiniteSet(ChangesLeft \ {c}) /\ Cardinality(ChangesLeft \ {c}) = Cardinality(ChangesLeft) - 1
  BY <1>5, WorkType, FS_RemoveElement
<1>8. Cardinality(ChangesLeft') <= Cardinality(ChangesLeft) - 1 /\ Cardinality(ChangesLeft') \in Nat
  BY <1>6, <1>7, FS_Subset, FS_CardinalityType
<1> QED
  BY <1>1, <1>8, WorkType DEF Work

\* Every step of main leaves it less to do, for every ring and whatever the slaves
\* refuse: from the start to the end main takes at most 7 (5 N + 1) steps
\* (master_driver.cpp:241-264).
THEOREM WorkAlwaysShrinks == Spec => WorkShrinks
<1>1. ASSUME TypeOK, TypeOK', [Next]_vars
      PROVE  Work' <= Work /\ (MainStep => Work' < Work)
  <2>1. Work \in Nat
    BY <1>1, WorkType
  <2>2. Work' \in Nat
    BY <1>1, WorkTypeNext
  <2>3. CASE MainStep
    <3>1. ASSUME Gather PROVE Work' < Work
      <4>1. LoopsLeft' = LoopsLeft - 1
        BY <3>1 DEF Gather, LoopsLeft
      <4> QED
        BY <1>1, <4>1, LoopEnds
    <3>2. ASSUME NextPhase PROVE Work' < Work
      <4>1. LoopsLeft' = LoopsLeft - 1
        BY <3>2 DEF NextPhase, LoopsLeft
      <4> QED
        BY <1>1, <4>1, LoopEnds
    <3>3. ASSUME Close PROVE Work' < Work
      <4>1. LoopsLeft' = LoopsLeft - 1
        BY <3>3 DEF Close, LoopsLeft
      <4> QED
        BY <1>1, <4>1, LoopEnds
    <3>4. ASSUME NEW s \in Ring, Configure(s) \/ Unconfirmed(s) \/ PassOver(s)
          PROVE  Work' < Work
      <4>1. s \in todo /\ todo' = todo \ {s} /\ phase' = phase /\ cached' = cached
        BY <3>4 DEF Configure, Unconfirmed, PassOver, Addressed, Turn
      <4> QED
        BY <1>1, <4>1, SlaveDone
    <3>5. ASSUME NEW s \in Ring, Confirmed(s) PROVE Work' < Work
      <4>1. s \in todo /\ phase' = phase /\ cached' = [cached EXCEPT ![s] = Toward(s)]
        BY <3>5 DEF Confirmed, Addressed, Turn
      <4>2. CASE Toward(s) = Goal
        <5>1. todo' = todo \ {s}
          BY <3>5, <4>2 DEF Confirmed
        <5>2. \A u \in Ring : u # s => cached'[u] = cached[u]
          BY <1>1, <4>1 DEF TypeOK
        <5> QED
          BY <1>1, <4>1, <5>1, <5>2, SlaveDone
      <4>3. CASE Toward(s) # Goal
        <5>1. todo' = todo
          BY <3>5, <4>3 DEF Confirmed
        <5> QED
          BY <1>1, <4>1, <4>3, <5>1, ChangeDone
      <4> QED
        BY <4>2, <4>3
    <3>6. Work' < Work
      BY <2>3, <3>1, <3>2, <3>3, <3>4, <3>5 DEF MainStep
    <3> QED
      BY <2>1, <2>2, <3>6
  <2>4. CASE UNCHANGED <<phase, todo, cached>>
    <3>1. Work' = Work
      BY <2>4 DEF Work, LoopsLeft, ChangesLeft, Goal
    <3>2. ~MainStep
      <4>1. CASE MainStep
        BY <2>1, <2>2, <2>3, <3>1, <4>1
      <4> QED
        BY <4>1
    <3> QED
      BY <2>1, <3>1, <3>2
  <2> QED
    BY <1>1, <2>3, <2>4 DEF Next, Fall, Finished, vars
<1>2. Spec => []TypeOK
  BY TypeCorrect
<1> QED
  BY <1>1, <1>2, PTL DEF Spec, WorkShrinks
=============================================================================
