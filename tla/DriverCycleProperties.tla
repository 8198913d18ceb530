----------------------- MODULE DriverCycleProperties -----------------------
(* What the driver's threads must guarantee; DriverCycleProofs proves the   *)
(* invariants for every number of tries.                                    *)
EXTENDS DriverCycle

Ages == 0..Never
RtInside == {"pack", "exchange", "oob", "swap_ok", "swap_failed"}
MonInside == {"compare", "copy"}

\* The type of every variable.
TypeOK ==
  /\ half \in [Halves -> [cmd : Ages, status : Ages]]
  /\ this \in Halves \cup {"NULL"} /\ prev \in Halves \cup {"NULL"}
  /\ device \in Ages /\ attached \in BOOLEAN
  /\ lock \in {"rt", "mon", "none"} /\ run \in BOOLEAN
  /\ main \in {"exchange", "start", "operate", "join", "close", "done"}
  /\ rt \in {"off", "check", "lock", "exit"} \cup RtInside
  /\ mon \in {"off", "check", "peek", "compare_lock", "test", "copy_lock", "exit"} \cup MonInside
  /\ try \in 0..(PdTries - 1)
  /\ peek \in Halves \cup {"NULL"} /\ filled \in BOOLEAN /\ monInit \in BOOLEAN

\* mutex_buffer_access is held exactly by the thread between its lock and unlock.
LockInv ==
  /\ lock = "rt" <=> rt \in RtInside
  /\ lock = "mon" <=> mon \in MonInside

\* The monitor never reads a half while the real-time thread packs, exchanges
\* or swaps (wg05.cpp:294-309 against 327-352 and 359-361).
NoTornRead == ~(rt \in RtInside /\ mon \in MonInside)

\* Once the threads run, this_buffer_ and prev_buffer_ are the two different
\* halves, or both NULL: no sequence of swaps makes them meet, so packing never
\* overwrites the half the monitor is shown (wg05.cpp:305-307).
HalvesDistinct ==
  rt # "off" => \/ {this, prev} = Halves
                \/ this = "NULL" /\ prev = "NULL"

\* monitor_backup comes from new[] uninitialised: it is compared only after it
\* was filled, and only with a half that exists (wg05.cpp:315-340).
NoUninitialisedCompare ==
  mon \in {"compare_lock", "compare"} => filled /\ peek # "NULL"

\* After a successful exchange the slave obeys a command packed in this cycle
\* or in the one before, never an older one: exactly, this cycle's when
\* this_buffer_ is Master_Buffer_ and the previous cycle's otherwise.
CommandLag ==
  rt = "swap_ok" /\ attached /\ this # "NULL"
    => device = IF this = "A" THEN 0 ELSE 1

\* Main takes the slaves out of OP only when no thread can exchange process
\* data or hold the buffers any more (main.cpp:143-151).
ShutdownOrder ==
  main \in {"close", "done"} => rt = "exit" /\ mon = "exit" /\ lock = "none"

\* The inductive invariant: which half holds the last command packed, and that
\* a successful exchange leaves the slave with Master_Buffer_'s command.
Parity ==
  /\ this = "B" /\ rt \in {"check", "lock", "pack"} => half["A"].cmd = 0
  /\ rt \in RtInside \ {"pack"} /\ this # "NULL"
       => half["A"].cmd = IF this = "A" THEN 0 ELSE 1
  /\ rt = "swap_ok" /\ attached /\ this # "NULL" => device = half["A"].cmd

Started ==
  /\ main \in {"exchange", "start"} <=> rt = "off"
  /\ rt = "off" <=> mon = "off"
  /\ rt = "off" => this = "NULL" /\ prev = "NULL"

Backup == monInit => filled

IInv ==
  /\ TypeOK /\ LockInv /\ HalvesDistinct /\ NoUninitialisedCompare
  /\ Parity /\ Started /\ Backup /\ ShutdownOrder

-----------------------------------------------------------------------------
\* What each thread has still to do once the operator has stopped.
RtLeft ==
  CASE rt = "lock" -> PdTries + 5 [] rt = "pack" -> PdTries + 4
    [] rt = "exchange" -> PdTries + 3 - try [] rt = "oob" -> 3
    [] rt = "swap_ok" -> 2 [] rt = "swap_failed" -> 2 [] rt = "check" -> 1 [] OTHER -> 0

MonLeft ==
  CASE mon = "peek" -> 7 [] mon = "compare_lock" -> 6 [] mon = "compare" -> 5
    [] mon = "test" -> 4 [] mon = "copy_lock" -> 3 [] mon = "copy" -> 2
    [] mon = "check" -> 1 [] OTHER -> 0

MainLeft == CASE main = "join" -> 2 [] main = "close" -> 1 [] OTHER -> 0

Left == RtLeft + MonLeft + MainLeft + (IF attached THEN 1 ELSE 0)

Stopped == main \in {"join", "close", "done"}

\* From the operator's stop on every step of any thread brings the program closer to
\* its end, wherever the stop finds the other threads and whatever the exchanges
\* yield: no thread begins another cycle once it has seen the flag, and neither waits
\* for something the other one does again and again (main.cpp:31, :58, :143-146).
WindsDown == [][Stopped => Left' < Left]_vars

-----------------------------------------------------------------------------
(* Liveness.  Every thread runs on; RT and monitor get a mutex that is free   *)
(* again and again: the monitor comes back at once in the second half of a    *)
(* second (its timed wait then fails), but it sleeps in every first half.     *)
(* The operator need not stop, nor a slave be lost.                           *)

Fairness ==
  /\ WF_vars(StartupTry \/ Start \/ Join \/ Close)
  /\ WF_vars(RealTime) /\ SF_vars(RtLock)
  /\ WF_vars(Monitor)
  /\ SF_vars(MonLock("compare_lock", "compare")) /\ SF_vars(MonLock("copy_lock", "copy"))

LiveSpec == Spec /\ Fairness

\* The operator's stop ends both threads and closes the slaves.
StopCompletes == main = "join" ~> main = "done"

\* The monitor never keeps the real-time thread out of its cycle.
CyclesGoOn == rt = "lock" ~> rt = "check"

-----------------------------------------------------------------------------
(* What the code says of itself and does not do. *)

\* wg05.cpp:161: "prev_buffer should contain valid status data when update
\* function is first used".
PrevValidAtFirstUpdate ==
  rt # "off" /\ prev = "B" /\ attached => half[prev].status # Never

\* master_driver.cpp:229: "Try multiple times to get proccess data to device":
\* when update's txandrx_PD(..., this_buffer_, ...) has succeeded, the command
\* just packed has reached the slave.
PackedCommandDelivered ==
  rt = "swap_ok" /\ attached /\ this # "NULL" => device = 0
=============================================================================
