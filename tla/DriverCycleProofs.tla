------------------------- MODULE DriverCycleProofs -------------------------
(***************************************************************************)
(* The invariants of DriverCycle hold for every number of tries and every  *)
(* saturation age.                                                         *)
(***************************************************************************)
EXTENDS DriverCycleProperties, TLAPS

\* The constants' assumption, and the grouping of variables and labels.
USE DriverAssumption DEF Halves, Never, Older, Ages, RtInside, MonInside,
                         pointers, threads, monitor

\* The invariant holds when main has configured the slaves.
LEMMA InitInv == Init => IInv
  <1> SUFFICES ASSUME Init PROVE IInv
    OBVIOUS
  <1>1. run \in BOOLEAN /\ attached \in BOOLEAN /\ filled \in BOOLEAN /\ monInit \in BOOLEAN
    BY Zenon DEF Init
  <1>2. TypeOK
    BY <1>1 DEF Init, TypeOK
  <1>3. LockInv /\ HalvesDistinct /\ NoUninitialisedCompare /\ Parity
    BY DEF Init, LockInv, HalvesDistinct, NoUninitialisedCompare, Parity
  <1>4. Started /\ Backup /\ ShutdownOrder
    BY DEF Init, Started, Backup, ShutdownOrder
  <1> QED
    BY <1>2, <1>3, <1>4 DEF IInv

\* One try changes the target's status in A, and gives the slave A's command.
LEMMA ExchangeEffect ==
  ASSUME TypeOK, NEW success \in BOOLEAN, Exchange(success)
  PROVE  /\ half' \in [Halves -> [cmd : Ages, status : Ages]]
         /\ \A h \in Halves : half'[h].cmd = half[h].cmd
         /\ device' \in Ages
         /\ success /\ attached => device' = half["A"].cmd
  BY DEF TypeOK, Exchange, ExchangeHalf

\* A step preserves the invariant.  Only Pack, the tries and Swap touch what
\* CommandLag is about; they are proved conjunct by conjunct.
LEMMA NextInv == IInv /\ [Next]_vars => IInv'
  <1> SUFFICES ASSUME IInv, [Next]_vars PROVE IInv'
    OBVIOUS
  <1> USE DEF IInv, TypeOK
  <1>1. CASE SlaveLost
    <2>1. attached' \in BOOLEAN
      BY <1>1, Zenon DEF SlaveLost
    <2>2. TypeOK'
      BY <1>1, <2>1 DEF SlaveLost
    <2>3. (LockInv /\ HalvesDistinct /\ NoUninitialisedCompare)'
      BY <1>1 DEF SlaveLost, LockInv, Started, HalvesDistinct, NoUninitialisedCompare
    <2>4. (Parity /\ Started /\ Backup /\ ShutdownOrder)'
      BY <1>1 DEF SlaveLost, LockInv, Parity, Started, Backup, ShutdownOrder
    <2> QED
      BY <2>2, <2>3, <2>4
  <1>2. CASE Start
    BY <1>2 DEF Start, StartThreads, LockInv, HalvesDistinct, NoUninitialisedCompare,
      Parity, Started, Backup, ShutdownOrder
  <1>3. CASE StartEmpty
    <2>1. run' \in BOOLEAN
      BY <1>3, Zenon DEF StartEmpty, StartThreads
    <2>2. TypeOK'
      BY <1>3, <2>1 DEF StartEmpty, StartThreads
    <2>3. (LockInv /\ HalvesDistinct /\ NoUninitialisedCompare)'
      BY <1>3 DEF StartEmpty, StartThreads, LockInv, Started, HalvesDistinct, NoUninitialisedCompare
    <2>4. (Parity /\ Started /\ Backup /\ ShutdownOrder)'
      BY <1>3 DEF StartEmpty, StartThreads, LockInv, Parity, Started, Backup, ShutdownOrder
    <2> QED
      BY <2>2, <2>3, <2>4
  <1>4. CASE Stop
    <2>1. run' \in BOOLEAN
      BY <1>4, Zenon DEF Stop
    <2>2. TypeOK'
      BY <1>4, <2>1 DEF Stop
    <2>3. (LockInv /\ HalvesDistinct /\ NoUninitialisedCompare)'
      BY <1>4 DEF Stop, LockInv, Started, HalvesDistinct, NoUninitialisedCompare
    <2>4. (Parity /\ Started /\ Backup /\ ShutdownOrder)'
      BY <1>4 DEF Stop, LockInv, Parity, Started, Backup, ShutdownOrder
    <2> QED
      BY <2>2, <2>3, <2>4
  <1>5. CASE Join
    BY <1>5 DEF Join, LockInv, HalvesDistinct, NoUninitialisedCompare,
      Parity, Started, Backup, ShutdownOrder
  <1>6. CASE Close
    <2>1. attached' \in BOOLEAN
      BY <1>6, Zenon DEF Close
    <2>2. TypeOK'
      BY <1>6, <2>1 DEF Close
    <2>3. (LockInv /\ HalvesDistinct /\ NoUninitialisedCompare)'
      BY <1>6 DEF Close, LockInv, Started, HalvesDistinct, NoUninitialisedCompare
    <2>4. (Parity /\ Started /\ Backup /\ ShutdownOrder)'
      BY <1>6 DEF Close, LockInv, Parity, Started, Backup, ShutdownOrder
    <2> QED
      BY <2>2, <2>3, <2>4
  <1>7. CASE RtCheck
    BY <1>7 DEF RtCheck, LockInv, HalvesDistinct, NoUninitialisedCompare,
      Parity, Started, Backup, ShutdownOrder
  <1>8. CASE RtLock
    BY <1>8 DEF RtLock, LockInv, HalvesDistinct, NoUninitialisedCompare,
      Parity, Started, Backup, ShutdownOrder
  <1>9. CASE RtOob
    BY <1>9 DEF RtOob, LockInv, HalvesDistinct, NoUninitialisedCompare,
      Parity, Started, Backup, ShutdownOrder
  <1>10. CASE MonCheck
    BY <1>10 DEF MonCheck, LockInv, HalvesDistinct, NoUninitialisedCompare,
      Parity, Started, Backup, ShutdownOrder
  <1>11. CASE Peek
    BY <1>11 DEF Peek, LockInv, HalvesDistinct, NoUninitialisedCompare,
      Parity, Started, Backup, ShutdownOrder
  <1>12. CASE MonLock("compare_lock", "compare")
    BY <1>12 DEF MonLock, LockInv, HalvesDistinct, NoUninitialisedCompare,
      Parity, Started, Backup, ShutdownOrder
  <1>13. CASE Compare
    BY <1>13 DEF Compare, LockInv, HalvesDistinct, NoUninitialisedCompare,
      Parity, Started, Backup, ShutdownOrder
  <1>14. CASE TestPrev
    BY <1>14 DEF TestPrev, LockInv, HalvesDistinct, NoUninitialisedCompare,
      Parity, Started, Backup, ShutdownOrder
  <1>15. CASE MonLock("copy_lock", "copy")
    BY <1>15 DEF MonLock, LockInv, HalvesDistinct, NoUninitialisedCompare,
      Parity, Started, Backup, ShutdownOrder
  <1>16. CASE Copy
    BY <1>16 DEF Copy, LockInv, HalvesDistinct, NoUninitialisedCompare,
      Parity, Started, Backup, ShutdownOrder
  <1>17. CASE StartupTry
    <2>1. PICK success \in BOOLEAN :
            /\ Exchange(success)
            /\ Turn(success, UNCHANGED main, main' = "start", main' = "start")
      BY <1>17 DEF StartupTry
    <2>2. /\ main = "exchange" /\ main' \in {"exchange", "start"} /\ try' \in 0..(PdTries - 1)
          /\ UNCHANGED <<attached, this, prev, lock, run, rt, mon, peek, filled, monInit>>
      BY <1>17, <2>1 DEF StartupTry, Turn
    <2>3. TypeOK'
      BY <2>1, <2>2, ExchangeEffect
    <2>4. (LockInv /\ HalvesDistinct /\ NoUninitialisedCompare)'
      BY <2>2 DEF LockInv, Started, HalvesDistinct, NoUninitialisedCompare
    <2>5. (Parity /\ Started /\ Backup /\ ShutdownOrder)'
      BY <2>2 DEF Parity, Started, Backup, ShutdownOrder
    <2> QED
      BY <2>3, <2>4, <2>5
  <1>18. CASE RtTry
    <2>1. PICK success \in BOOLEAN :
            /\ IF this = "NULL" THEN UNCHANGED <<half, device>> ELSE Exchange(success)
            /\ Turn(success, UNCHANGED rt, rt' = "swap_ok", rt' = "oob")
      BY <1>18 DEF RtTry
    <2>2. /\ rt = "exchange" /\ rt' \in {"exchange", "swap_ok", "oob"}
          /\ rt' = "swap_ok" => success
          /\ try' \in 0..(PdTries - 1)
          /\ UNCHANGED <<attached, this, prev, lock, run, main, mon, peek, filled, monInit>>
      BY <1>18, <2>1 DEF RtTry, Turn
    <2>3. /\ half' \in [Halves -> [cmd : Ages, status : Ages]] /\ device' \in Ages
          /\ half'["A"].cmd = half["A"].cmd
          /\ success /\ attached /\ this # "NULL" => device' = half["A"].cmd
      BY <2>1, ExchangeEffect
    <2>4. TypeOK'
      BY <2>2, <2>3
    <2>5. (LockInv /\ HalvesDistinct /\ NoUninitialisedCompare)'
      BY <2>2 DEF LockInv, HalvesDistinct, NoUninitialisedCompare
    <2>6. (Parity /\ Started /\ Backup /\ ShutdownOrder)'
      BY <2>2, <2>3 DEF Parity, Started, Backup, ShutdownOrder
    <2> QED
      BY <2>4, <2>5, <2>6
  <1>19. CASE Pack
    <2>1. /\ rt = "pack" /\ rt' = "exchange"
          /\ UNCHANGED <<attached, try, this, prev, lock, run, main, mon, peek, filled, monInit>>
      BY <1>19 DEF Pack
    <2>2. half' \in [Halves -> [cmd : Ages, status : Ages]] /\ device' \in Ages
      BY <1>19 DEF Pack
    <2>3. half'["A"].cmd = IF this = "A" THEN 0 ELSE Older(half["A"].cmd)
      BY <1>19 DEF Pack
    <2>4. TypeOK'
      BY <2>1, <2>2
    <2>5. (LockInv /\ HalvesDistinct /\ NoUninitialisedCompare)'
      BY <2>1 DEF LockInv, HalvesDistinct, NoUninitialisedCompare
    <2>6. (Parity /\ Started /\ Backup /\ ShutdownOrder)'
      BY <2>1, <2>3 DEF Parity, Started, Backup, ShutdownOrder
    <2> QED
      BY <2>4, <2>5, <2>6
  <1>20. CASE Swap
    <2>1. TypeOK'
      BY <1>20 DEF Swap
    <2>2. LockInv' /\ HalvesDistinct' /\ NoUninitialisedCompare'
      BY <1>20 DEF Swap, Swapping, LockInv, HalvesDistinct, NoUninitialisedCompare
    <2>3. Parity'
      BY <1>20 DEF Swap, Swapping, HalvesDistinct, Parity
    <2>4. Started' /\ Backup' /\ ShutdownOrder'
      BY <1>20 DEF Swap, Swapping, Started, Backup, ShutdownOrder
    <2> QED
      BY <2>1, <2>2, <2>3, <2>4
  <1>21. CASE UNCHANGED vars
    BY <1>21 DEF vars, LockInv, HalvesDistinct, NoUninitialisedCompare,
      Parity, Started, Backup, ShutdownOrder
  <1> QED
    BY <1>1, <1>2, <1>3, <1>4, <1>5, <1>6, <1>7, <1>8, <1>9, <1>10, <1>11, <1>12, <1>13, <1>14, <1>15, <1>16, <1>17, <1>18, <1>19, <1>20, <1>21
       DEF Next, Main, RealTime, Monitor, Finished

\* The invariant holds in every reachable state, for every number of tries.
THEOREM Invariance == Spec => []IInv
  BY InitInv, NextInv, PTL DEF Spec

\* No step of the monitor overlaps a cycle of the real-time thread.
THEOREM NeverTorn == Spec => []NoTornRead
  <1>1. IInv => NoTornRead
    BY DEF IInv, LockInv, NoTornRead
  <1> QED
    BY <1>1, Invariance, PTL

\* The pointers never meet, however many cycles run.
THEOREM HalvesStayDistinct == Spec => []HalvesDistinct
  BY Invariance, PTL DEF IInv

\* The monitor compares its copy only when it has one, and only with a half.
THEOREM BackupIsInitialised == Spec => []NoUninitialisedCompare
  BY Invariance, PTL DEF IInv

\* The slave obeys a command at most one cycle old after a successful exchange.
THEOREM CommandsLagOneCycle == Spec => []CommandLag
  <1>1. IInv => CommandLag
    BY DEF IInv, Parity, CommandLag
  <1> QED
    BY <1>1, Invariance, PTL

\* The slaves are closed only after both threads have ended.
THEOREM ClosedInOrder == Spec => []ShutdownOrder
  BY Invariance, PTL DEF IInv

\* Every variable keeps its type.
THEOREM TypeCorrect == Spec => []TypeOK
  BY Invariance, PTL DEF IInv

-----------------------------------------------------------------------------
(* The way down. *)

\* The threads are told: after the stop the flag stays down.
Told == Stopped => ~run

LEMMA ToldNext == Told /\ [Next]_vars => Told'
<1> USE DEF Told, Stopped
<1>1. ASSUME Told, Main PROVE Told'
  BY <1>1 DEF Main, StartupTry, Start, StartEmpty, StartThreads, Stop, Join, Close, Turn
<1>2. ASSUME Told, RealTime PROVE Told'
  BY <1>2 DEF RealTime, RtCheck, RtLock, Pack, RtTry, RtOob, Swap
<1>3. ASSUME Told, Monitor PROVE Told'
  BY <1>3 DEF Monitor, MonCheck, Peek, MonLock, Compare, TestPrev, Copy
<1>4. ASSUME Told, SlaveLost \/ UNCHANGED vars PROVE Told'
  BY <1>4 DEF SlaveLost, vars
<1> QED
  BY <1>1, <1>2, <1>3, <1>4 DEF Next, Finished

\* A sum is less when one of its parts is and no other one is more.  (`<=` is stated
\* beside `<`, as it is this form in which the steps below know the other parts.)
LEMMA SumLess ==
  ASSUME NEW a \in Nat, NEW b \in Nat, NEW c \in Nat, NEW d \in Nat,
         NEW p \in Nat, NEW q \in Nat, NEW r \in Nat, NEW s \in Nat,
         p <= a, q <= b, r <= c, s <= d, p < a \/ q < b \/ r < c \/ s < d
  PROVE  p + q + r + s < a + b + c + d
  OBVIOUS

\* Every step after the stop makes the rest shorter.
LEMMA LeftShrinks ==
  ASSUME IInv, IInv', Told, Stopped, Next, ~UNCHANGED vars
  PROVE  Left' < Left
<1> DEFINE a == IF attached THEN 1 ELSE 0
<1>0. /\ RtLeft \in Nat /\ MonLeft \in Nat /\ MainLeft \in Nat /\ a \in Nat
      /\ RtLeft' \in Nat /\ MonLeft' \in Nat /\ MainLeft' \in Nat /\ a' \in Nat
  <2>1. RtLeft \in Nat /\ MonLeft \in Nat /\ MainLeft \in Nat
    BY DEF IInv, TypeOK, RtLeft, MonLeft, MainLeft
  <2>2. RtLeft' \in Nat /\ MonLeft' \in Nat /\ MainLeft' \in Nat
    BY DEF IInv, TypeOK, RtLeft, MonLeft, MainLeft
  <2> QED
    BY <2>1, <2>2
<1>1. Left = RtLeft + MonLeft + MainLeft + a /\ Left' = RtLeft' + MonLeft' + MainLeft' + a'
  BY DEF Left
<1> HIDE DEF a
<1>2. CASE Join \/ Close
  <2>0. UNCHANGED <<rt, mon, try>>
    BY <1>2 DEF Join, Close
  <2>1. MainLeft' <= MainLeft /\ MainLeft' < MainLeft
    <3>1. \/ main = "join" /\ main' = "close"
          \/ main = "close" /\ main' = "done"
      BY <1>2 DEF Join, Close
    <3>2. (main = "join" => MainLeft = 2) /\ (main = "close" => MainLeft = 1)
      BY DEF MainLeft
    <3>3. (main' = "close" => MainLeft' = 1) /\ (main' = "done" => MainLeft' = 0)
      BY DEF MainLeft
    <3> QED
      BY <3>1, <3>2, <3>3
  <2>2. a' <= a
    <3>1. attached' => attached
      BY <1>2 DEF Join, Close
    <3> QED
      BY <3>1 DEF a
  <2>3. RtLeft' <= RtLeft /\ MonLeft' <= MonLeft
    BY <1>0, <2>0 DEF RtLeft, MonLeft
  <2> QED
    <3>1. RtLeft' + MonLeft' + MainLeft' + a' < RtLeft + MonLeft + MainLeft + a
      BY <1>0, <2>1, <2>2, <2>3, SumLess
    <3> QED
      BY <1>1, <3>1
<1>3. CASE RealTime
  <2>1. UNCHANGED <<main, mon, attached>>
    BY <1>3 DEF RealTime, RtCheck, RtLock, Pack, RtTry, RtOob, Swap
  <2>2. RtLeft' <= RtLeft /\ RtLeft' < RtLeft
    <3>1. try \in 0 .. PdTries - 1 /\ try' \in 0 .. PdTries - 1
      BY DEF IInv, TypeOK
    <3>2. ~run
      BY DEF Told
    <3>3. CASE RtCheck \/ RtLock \/ Pack \/ RtOob \/ Swap
      BY <3>1, <3>2, <3>3 DEF RtCheck, RtLock, Pack, RtOob, Swap, Swapping, RtLeft
    <3>4. CASE RtTry
      <4>1. PICK success \in BOOLEAN : Turn(success, UNCHANGED rt, rt' = "swap_ok", rt' = "oob")
        BY <3>4 DEF RtTry
      <4>2. \/ rt' = "swap_ok" \/ rt' = "oob"
            \/ rt' = "exchange" /\ try' = try + 1
        BY <3>4, <4>1 DEF RtTry, Turn
      <4> QED
        BY <3>1, <3>4, <4>2 DEF RtTry, RtLeft
    <3> QED
      BY <1>3, <3>3, <3>4 DEF RealTime
  <2>3. MainLeft' <= MainLeft /\ MonLeft' <= MonLeft /\ a' <= a
    BY <1>0, <2>1 DEF MainLeft, MonLeft, a
  <2> QED
    <3>1. RtLeft' + MonLeft' + MainLeft' + a' < RtLeft + MonLeft + MainLeft + a
      BY <1>0, <2>2, <2>3, SumLess
    <3> QED
      BY <1>1, <3>1
<1>4. CASE Monitor
  <2>1. UNCHANGED <<main, rt, try, attached>>
    BY <1>4 DEF Monitor, MonCheck, Peek, MonLock, Compare, TestPrev, Copy
  <2>2. MonLeft' <= MonLeft /\ MonLeft' < MonLeft
    <3>1. ~run
      BY DEF Told
    <3> QED
      BY <1>4, <3>1 DEF Monitor, MonCheck, Peek, MonLock, Compare, TestPrev, Copy, MonLeft
  <2>3. MainLeft' <= MainLeft /\ RtLeft' <= RtLeft /\ a' <= a
    BY <1>0, <2>1 DEF MainLeft, RtLeft, a
  <2> QED
    <3>1. RtLeft' + MonLeft' + MainLeft' + a' < RtLeft + MonLeft + MainLeft + a
      BY <1>0, <2>2, <2>3, SumLess
    <3> QED
      BY <1>1, <3>1
<1>5. CASE SlaveLost
  <2>1. attached /\ ~attached' /\ UNCHANGED <<main, rt, mon, try>>
    BY <1>5 DEF SlaveLost
  <2>2. a = 1 /\ a' = 0 /\ MainLeft' = MainLeft /\ RtLeft' = RtLeft /\ MonLeft' = MonLeft
    BY <2>1 DEF MainLeft, RtLeft, MonLeft, a
  <2> QED
    <3>1. RtLeft' + MonLeft' + MainLeft' + a' < RtLeft + MonLeft + MainLeft + a
      BY <1>0, <2>2, SumLess
    <3> QED
      BY <1>1, <3>1
<1>6. ~(StartupTry \/ Start \/ StartEmpty \/ Stop)
  BY DEF StartupTry, Start, StartEmpty, Stop, Stopped
<1> QED
  BY <1>2, <1>3, <1>4, <1>5, <1>6 DEF Next, Main, Finished

\* After the operator's stop the program takes at most PdTries + 15 more steps, of
\* all threads together, for every number of tries (main.cpp:31, :58, :143-146).
THEOREM AlwaysWindsDown == Spec => WindsDown
<1>1. Init => Told
  BY DEF Init, Told, Stopped
<1>2. IInv /\ IInv' /\ Told /\ [Next]_vars => [Stopped => Left' < Left]_vars
  BY LeftShrinks
<1> QED
  BY <1>1, <1>2, ToldNext, Invariance, PTL DEF Spec, WindsDown
=============================================================================
