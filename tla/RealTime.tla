------------------------------ MODULE RealTime ------------------------------
(***************************************************************************)
(* The two timed loops of main.cpp, realTimeLoop and monitorChanges, with  *)
(* the commands that packCommand writes while the operator types.  A loop  *)
(* reads the clock, waits for a deadline with pthread_cond_timedwait, and  *)
(* works.  Nobody signals its condition: the wait ends at the deadline, at *)
(* once when the deadline is no valid time, or spuriously.  The loops      *)
(* share nothing but the clock, so they are looked at one at a time:       *)
(* `loop` says which.                                                      *)
(***************************************************************************)
EXTENDS Integers

CONSTANTS SECOND,             \* a second, in ticks of the clock
          RT_LOOP_WAIT_TIME, MONITOR_LOOP_WAIT_TIME,
          MaxTime,            \* bound of the model: the last tick
          N,                  \* slaves
          DefaultTarget,      \* target_slave before the operator's choice: 13
          Amplitudes,         \* the amplitudes the operator may enter
          SineSteps           \* the sine is looked at in steps: SineSteps + 1 values

ASSUME RealTimeAssumption ==
  /\ SECOND \in Nat \ {0} /\ MaxTime \in Nat /\ N \in Nat /\ DefaultTarget \in Nat
  /\ RT_LOOP_WAIT_TIME \in 1 .. SECOND - 1 /\ MONITOR_LOOP_WAIT_TIME \in 1 .. SECOND - 1
  /\ Amplitudes \subseteq Nat \ {0} /\ SineSteps \in Nat \ {0}

Slaves == 0 .. N - 1

VARIABLES
  loop,              \* "realTimeLoop" or "monitorChanges"
  clock,
  at,                \* where the loop is
  now, timer,        \* the last reading, and timer_interrupt
  run,               \* __RUN_THREADS__
  i, this, command,  \* packCommand: the slave, the half, both halves' commands
  target_slave, current_amplitude,
  operator,          \* what main asks for
  ended, waited,     \* history: when the last wait ended, and if at its deadline
  last, lastButOne,  \* history: when the two waits before it ended
  targets, entered   \* history: targets and amplitudes while the image was packed

time == <<clock, now, timer, ended, waited, last, lastButOne>>
packing == <<i, this, command>>
asked == <<run, target_slave, current_amplitude, operator>>
vars == <<loop, at, time, packing, asked, targets, entered>>

-----------------------------------------------------------------------------
(* The contents of a command.  A byte is the set of its bits that are 1. *)

Bits(n) == {k \in 0..15 : (n \div 2^k) % 2 = 1}
Byte(bits, k) == {b - 8 * k : b \in bits \cap (8 * k .. 8 * k + 7)}
Xor(a, b) == (a \cup b) \ (a \cap b)

rotateRight8(in) == {(b + 7) % 8 : b \in in}

computeChecksum(data, length) ==
  LET checksum[n \in 0 .. length] ==
        IF n = 0 THEN Bits(66)   \* 0x42
        ELSE Xor(rotateRight8(checksum[n - 1]), data[n])
  IN checksum[length]

\* Conversion of an int to int16_t.
Int16(n) == ((n + 32768) % 65536) - 32768

\* The bytes of a WG0XCommand: mode_, digital_out_, programmed_pwm,
\* programmed_current_, pad_, checksum_.
WG0XCommand(mode, current, checksum) ==
  <<Bits(mode), {}, {}, {}, Byte(Bits(current % 65536), 0), Byte(Bits(current % 65536), 1),
    {}, checksum>>

MODE_ENABLE == 1
MODE_CURRENT == 2
Off == [mode |-> 0, current |-> 0, checksum |-> {}]

Commanding(current) ==
  LET mode == MODE_ENABLE + MODE_CURRENT
  IN [mode |-> mode, current |-> Int16(current),
      checksum |-> rotateRight8(computeChecksum(WG0XCommand(mode, Int16(current), {}), 7))]

-----------------------------------------------------------------------------
(* The clock and the deadlines. *)

WaitTime == IF loop = "realTimeLoop" THEN RT_LOOP_WAIT_TIME ELSE MONITOR_LOOP_WAIT_TIME

\* timer_interrupt for a reading: the seconds of the reading, and the rest of it
\* with the waiting time added, which may exceed a second.
Deadline(reading) == [tv_sec |-> reading \div SECOND, tv_nsec |-> (reading % SECOND) + WaitTime]

Due(t) == t.tv_sec * SECOND + t.tv_nsec
Valid(t) == t.tv_nsec < SECOND        \* else pthread_cond_timedwait fails with EINVAL

Init ==
  /\ loop \in {"realTimeLoop", "monitorChanges"} /\ clock = 0 /\ run = TRUE
  /\ at = IF loop = "realTimeLoop" THEN "start" ELSE "top"
  /\ now = 0 /\ timer = Deadline(0)
  /\ ended = 0 - WaitTime /\ last = ended /\ lastButOne = ended /\ waited = FALSE
  /\ i = 0 /\ this = 0 /\ command = [h \in 0..1 |-> [s \in Slaves |-> Off]]
  /\ target_slave = DefaultTarget /\ current_amplitude = 10 /\ operator = "slave"
  /\ targets = {} /\ entered = {}

Tick ==
  /\ clock < MaxTime /\ clock' = clock + 1
  /\ UNCHANGED <<loop, at, now, timer, ended, waited, last, lastButOne, packing, asked,
                 targets, entered>>

\* realTimeLoop before its loop.
Start ==
  /\ at = "start" /\ at' = "top"
  /\ now' = clock /\ timer' = Deadline(clock)
  /\ UNCHANGED <<loop, clock, ended, waited, last, lastButOne, packing, asked, targets, entered>>

TopStale ==   \* the clock is not read again
  /\ at = "top" /\ at' = IF run THEN "wait" ELSE "exit"
  /\ timer' = IF run /\ loop = "monitorChanges" THEN Deadline(now) ELSE timer
  /\ UNCHANGED <<loop, clock, now, ended, waited, last, lastButOne, packing, asked, targets, entered>>

\* The head of the loop.  monitorChanges waits from this reading, realTimeLoop
\* from the reading of the turn before.
Top ==
  /\ at = "top" /\ at' = IF run THEN "wait" ELSE "exit"
  /\ now' = IF run THEN clock ELSE now
  /\ timer' = IF run /\ loop = "monitorChanges" THEN Deadline(clock) ELSE timer
  /\ UNCHANGED <<loop, clock, ended, waited, last, lastButOne, packing, asked, targets, entered>>

Wait ==
  /\ at = "wait" /\ at' = "work"
  /\ waited' = (Valid(timer) /\ clock >= Due(timer))
  /\ ended' = clock /\ last' = ended /\ lastButOne' = last
  /\ timer' = IF loop = "realTimeLoop" THEN Deadline(now) ELSE timer
  /\ i' = 0 /\ targets' = {target_slave} /\ entered' = {current_amplitude}
  /\ UNCHANGED <<loop, clock, now, this, command, asked>>

-----------------------------------------------------------------------------
(* The work: update packs the commands of all slaves and exchanges them. *)

Packs == at = "work" /\ loop = "realTimeLoop"
Packed == Packs /\ i = N

\* The sine, shifted and scaled, lies between nothing and the amplitude.
Currents == {(current_amplitude * k) \div SineSteps : k \in 0 .. SineSteps}

PackOver ==   \* without the memset
  /\ Packs /\ i < N /\ i' = i + 1
  /\ \E current \in Currents :
       command' = IF i = target_slave THEN [command EXCEPT ![this][i] = Commanding(current)]
                                      ELSE command
  /\ UNCHANGED <<loop, at, time, this, asked, targets, entered>>

\* One turn of packCommand's loop.
Pack ==
  /\ Packs /\ i < N /\ i' = i + 1
  /\ \E current \in Currents :
       command' = [command EXCEPT ![this][i] =
                     IF i = target_slave THEN Commanding(current) ELSE Off]
  /\ UNCHANGED <<loop, at, time, this, asked, targets, entered>>

\* The image is exchanged and the halves are swapped; or monitorChanges has run.
Worked ==
  /\ at = "work" /\ (Packs => Packed) /\ at' = "top"
  /\ this' = IF Packs THEN 1 - this ELSE this
  /\ UNCHANGED <<loop, time, i, command, asked, targets, entered>>

-----------------------------------------------------------------------------
(* The operator, at any time. *)

\* Any number is taken, N for all those that no slave has; what is no number leaves
\* the target as it is.
Choose ==
  /\ operator = "slave" /\ operator' = "amplitude"
  /\ \E s \in 0..N \cup {target_slave} : target_slave' = s /\ targets' = targets \cup {s}
  /\ UNCHANGED <<loop, at, time, packing, run, current_amplitude, entered>>

Enter ==
  /\ operator = "amplitude"
  /\ \E a \in Amplitudes : current_amplitude' = a /\ entered' = entered \cup {a}
  /\ UNCHANGED <<loop, at, time, packing, run, target_slave, operator, targets>>

\* An amplitude that is not positive ends the program.
Stop ==
  /\ operator = "amplitude" /\ operator' = "done" /\ run' = FALSE
  /\ UNCHANGED <<loop, at, time, packing, target_slave, current_amplitude, targets, entered>>

Finished == at = "exit" /\ operator = "done" /\ UNCHANGED vars

Next ==
  \/ Tick \/ Start \/ Top \/ Wait \/ Pack \/ Worked
  \/ Choose \/ Enter \/ Stop \/ Finished

Spec == Init /\ [][Next]_vars
=============================================================================
