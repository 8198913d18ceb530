# PR2 EtherCAT driver without ROS: TLA+ models and proofs

This directory is the verification development of the driver in `src/driver`,
its main program `src/test/main.cpp`, the out-of-band channel in
`src/ethercat_hardware` and the parts of the EtherCAT master library `src/eml` that
they run on. TLC checks the models on small instances, TLAPS proves
the safety properties for every value of the constants. Paths below are relative
to the repository root; `main.cpp` is `src/test/main.cpp`.

1. [The system](#1-the-system)
2. [Modules](#2-modules)
3. [Runs](#3-runs)
4. [Fairness](#4-fairness)
5. [Proofs](#5-proofs)
6. [What the models found](#6-what-the-models-found)
7. [What is not modelled](#7-what-is-not-modelled)
8. [Left to do](#8-left-to-do)

## 1. The system

A PC drives the motor boards (WG05, WG06, ...) of a PR2 over EtherCAT. The
boards form a ring; one Ethernet frame passes all of them and comes back. The
program finds the boards, gives each a window of a *process image* of 52 bytes a
board (an 8 byte command, a 44 byte status), takes them to the state OP and then
exchanges the image in a fixed cycle from a real-time thread, while a monitor
thread prints what changes and main reads amplitudes from the operator.

| Component | State | Operations | Interacts with |
|---|---|---|---|
| `EthercatOobCom` (`ethercat_com.cpp`) | `mutex_`, two condition variables, `state_`, `frame_`, `handle_` | `txandrx`, `txandrx_once` (any thread), `tx` (real-time thread) | netif (`tx`, `rx`), driver cycle |
| Driver cycle (`wg05.cpp`, `master_driver.cpp`) | the two halves of the image, `this_buffer_`, `prev_buffer_`, `mutex_buffer_access`, `monitor_backup`, `monitor_delta_init` | `setMasterBuffer`, `update`, `packCommand`, `txandrx_PD`, `monitorChanges` | channel, `EtherCAT_Master`, main |
| Main program (`main.cpp`) | `__RUN_THREADS__`, `current_amplitude`, `target_slave` | start-up, two threads, operator loop, join, shutdown | everything |
| Slave configuration (`wg05.cpp`, `master_driver.cpp`) | `slave_handles`, `wg05_slave_handles`, the running logical address | `getSlaveHandles`, `configureWG05slaves`, `changeState`, `closeOperationalSlaves` | slave handlers |
| Slave handler and state machine (`eml/include/al`, `dll`) | `m_esm_state` of a handler, AL registers of a slave | `to_state`, `set_state`, `start_input_update` | slaves, process data buffer |
| Process data buffer, master | `m_is_running`, the chunks | `txandrx`, `start`, `stop` | data link layer |
| Application layer (`eml/include/al`) | `m_num_slaves`, the handlers | `scan_slaves`, `read_SII`, `reset_slaves`, `put_slaves_in_init` | data link layer, slaves |
| Slaves on the ring (external) | the registers of `ethercat_slave_memory.h` | take telegrams by position, station address, broadcast or FMMU | master |
| netif, data link layer, telegrams | table of packets, buffers, count of unclaimed packets, input thread | `tx`, `rx`, `rx_nowait`, `drop`, `txandrx` | kernel socket |
| Command encoding (`wg05.cpp`) | none | `packCommand`, `computeChecksum`, `rotateRight8` | driver cycle |
| Timers (`main.cpp`) | a deadline per thread | the timed waits | driver cycle |

`src/eml` has headers and the binary `lib/libeml.so`, no source. `Netif`,
`SlaveMemory` and `Ring` follow the headers and, for the order of the steps and the
paths of failure, the machine code of the functions they declare; their definitions
name the lines of the headers: of the declaration of the function, or of the field or
class that it works on. What no code of the repository does (a slave that leaves its
state or loses its power, the registers of an earlier run) is marked external. The slaves themselves are external: what they do with
a telegram is what the EtherCAT addressing modes say.

### What is hard

* **Three threads, two locks.** The channel's callers wait on two condition
  variables; the real-time thread must never wait for them, so it only tries the
  lock and signals once. The monitor looks at `prev_buffer_` outside the lock and
  again inside it.
* **Two halves that change roles.** `update` swaps `this_buffer_` and
  `prev_buffer_` after each cycle, but only the first half is ever exchanged.
* **Partial failure.** Every step of the start-up may fail for one slave and the
  program goes on: a state change is refused, or made without the confirmation
  arriving; slave handlers cannot be had; the first exchange fails 20 times.
* **Retries.** Ten tries in `txandrx`, twenty in `txandrx_PD`, each of which may
  have had its effect on the slave although it failed for the master.
* **A shared table with limits.** 128 slots, 16 buffers, at most 15 unclaimed
  packets, for all users of the wire and the input thread together, while replies
  are lost, come twice, late, out of order or damaged.
* **Telegrams nobody checks.** A frame may be lost after some of the slaves have
  taken it; it comes back the same whether a slave took it or none, and the working
  counter, which would tell, is never looked at. Slaves keep registers of an earlier
  run, or lose them.
* **Deadlines of stale readings**, in a `tv_nsec` that may exceed a second, and an
  operator who changes the target in the middle of a cycle.
* **Protocols with external code.** Each packet given to netif must be claimed
  once; a slave must have FMMUs before SAFEOP; each arrival in SAFEOP starts the
  process data once.

### What makes each component correct

* *Channel*: the frame that is sent is the frame of the caller that waits, its
  packet is claimed exactly once, no wake-up is lost, a call returns TRUE only for
  an answered transmission of its own frame, and an offered frame is answered.
* *Driver cycle*: no torn reads, halves that stay distinct, no comparison with an
  uninitialised backup, commands of bounded age, an orderly and certain shutdown,
  a cycle that is never kept from going on.
* *Configuration and state machines*: disjoint windows inside the image, commands
  packed where they are read, no slave in SAFEOP without windows, process data
  running for exactly the slaves in SAFEOP or OP, no slave left in OP without a
  trace, loops that end.
* *netif*: each buffer and each unclaimed packet is accounted for, the input thread
  always finds a buffer, a reply is given to the packet it answers, a handle is good
  until it is given back, a full table empties.
* *Ring*: handlers match the slaves at their positions, a telegram is taken by the
  slave it is meant for and no other one, no slave fills another one's window, a
  handler reaches SAFEOP only with its slave wholly configured.
* *Timers and commands*: the loop never works twice without a waiting time in
  between, no command but the target's, valid checksums.

## 2. Modules

| Module | Models | Theorems |
|---|---|---|
| `EthercatCom` | the promise of the interface class `EthercatCom` (abstract) | |
| `OobCom`, `OobComProperties` | `EthercatOobCom`: callers, mutex, condition variables, real-time `tx` | `OobComProofs` |
| `DriverCycle`, `DriverCycleProperties` | main, real-time thread, monitor thread over the two halves | `DriverCycleProofs` |
| `DriverOob` | the real-time cycle calling `tx()` of `OobCom` where `txandrx_PD` does | `DriverOobProofs` |
| `Startup`, `StartupProperties` | configuration, state changes, shutdown over the ring | `StartupProofs` |
| `FrameExchange` | what netif promises the callers of `tx` and `rx` (abstract) | |
| `Netif`, `NetifProperties` | `struct netif`: table, buffers, input thread, callers, wire | `NetifProofs` |
| `SlaveMemory` | the table of registers, the addresses, the telegrams | |
| `Ring`, `RingProperties` | the application layer's init and the configuration of the slaves, telegram by telegram (extends `SlaveMemory`) | `RingProofs` |
| `RealTime`, `RealTimeProperties` | the timed loops of `main.cpp`, `packCommand`, the operator | `RealTimeProofs` |
| `MC*` | the same modules with the constants of the `.cfg` | |

`OobCom` implements `EthercatCom` through the refinement mapping `Phase`;
`DriverOob` extends `OobCom` and is built of its steps, with `TryLock` and `Tx`
where the driver has them, so that it keeps what `OobCom` keeps; `Netif` implements
`FrameExchange` through `Requested`, the number of the packet a caller has out.

**OobCom.** `state`, `frame`, `handle`, `mutex` are the fields of the class. A
caller is identified with its frame; `pc` says at which blocking point it is:
about to lock, asleep on `share_cond_` or `busy_cond_`, woken and in need of the
mutex, testing a predicate, or in `ni_->rx` with the mutex held. One action is
what a thread does between two such points: `Offer` writes the frame and falls
asleep on `busy_cond_` in one step, as the code does under one hold of the mutex.
`Finish` is the rest of `txandrx_once` after `ni_->rx` together with the turn of
`txandrx`'s loop. A condition variable wakes any sleeper, and sleepers may wake
without a signal. `wire` is what netif keeps for the channel: a successful
`ni_->tx` adds a packet under an unused handle, `rx` removes it.

**DriverCycle.** `half` keeps of each half how many cycles ago its command was
packed and its status received (for the target slave); `device` is the age of the
command that the slave obeys. `Exchange` is one try of `txandrx_PD`: the command
may be latched and the status received although the try counts as failed.
`Turn` is the retry loop. `rt` and `mon` stand between the locking, packing,
exchanging and swapping steps; `peek` is the monitor's copy of the pointer it read
before locking. `attached` says whether the slave takes part in the exchange at
all, for the library does not check the working counter. `StartEmpty` is the
early return of `setMasterBuffer`.

**DriverOob.** `cycle` is the real-time thread: waiting, exchanging, trying the
lock, inside `tx()`. A failed trylock ends the call. `StepsLeft` says how many steps a
caller can take, while a frame waits to be sent, before it sleeps: three from outside
the call, none once it is asleep or in `ni_->rx`.

**Startup.** `phase` is the loop main is in and `todo` the slaves this loop has
still to reach, in ring order. `Confirmed` and `Unconfirmed` are one hop of
`to_state`: the handler's cached state moves only with the confirmation, the
slave's own state may move without. `Confirmed` from PREOP counts the start of the
process data. `Fall` lets a slave leave its state by itself. `report` is the text
`changeState` printed last.

**Netif.** `pkt_list`, `buf_list`, `next_pkt_index`, `unclaimed` and `sent` (the
`tx_seqnum`, not wrapped; what is compared is `% SEQ`) are the fields of the struct.
A caller is identified with its frame. `Send`, `Collect`, `Await`, `GiveUp` are what
`tx` and `rx` do under one hold of `txandrx_mut`; between `Await` and the reply or the
timeout the mutex is free. `received` is history: the packet whose reply `rx` handed
over last, which is what `FrameExchange` makes a promise about. Frames 1 to `Chunks` are process data: sent in order until
one fails, collected in the reverse order. `wire` holds every packet ever sent, and
`Arrive` may take any of them at any time, again, and damaged; packets that never
arrive are lost. The one thing asked of the wire is a lifetime: a packet does not come
back after `SEQ` (65536) younger ones have been sent, which is half a minute of cycles.

**SlaveMemory** has the registers as records of address and size, and a telegram as
a record of how it addresses, what range, and what it writes. `MCRing` has TLC
evaluate that no two registers of the table overlap, and which registers the three
telegrams touch that cover more than one.

**Ring.** `mem` is the registers of each slave that the start-up touches; `phase`
is the loop the master is in, `pos` the slave whose turn it is, `step` the next of the
configuration writes on the way to a state. Each action is one call of `txandrx` (or
of a loop of them with a fixed value), and `reach` says how far its frame got: slaves
before `reach` have taken it, and it is lost unless `reach = BACK`. An FMMU register
holds the number of its window of the process image, and 0 when disabled; a
slave follows a change of state or refuses it. A slave starts blank, or with the
registers that an earlier run gave it, at any position in the ring of then.
`PowerCycle` empties a slave's registers at any time. `given` and `tidy` are
history: which slaves were given their station address in this run, and whether the
reset came back on a ring without foreign station addresses.

**RealTime.** `loop` says which of the two loops is looked at. `Top`, `Wait`,
`Worked` are the steps of a turn; `Tick` lets any time pass between any two of them.
A deadline is kept as `tv_sec` and `tv_nsec`, and a wait for an invalid one ends at
once. `Pack` is one turn of `packCommand`'s loop, between which `Choose` and `Enter`
change target and amplitude. Bytes are sets of bits, so that the checksum is
computed as in the code. The sine, shifted and scaled, takes any of `SineSteps + 1`
values between nothing and the amplitude, of which the current is the integer part.

## 3. Runs

| Run | Shows | States |
|---|---|---|
| `oob` | frames handed over intact, packets claimed, wake-ups delivered, offers answered, `EthercatCom` implemented | 199 000 |
| `driver` | no torn read, distinct halves, initialised backup, commands at most one cycle old, orderly and certain shutdown that every step brings closer, cycles go on | 22 000 |
| `driver_oob` | an offered frame comes closer to being sent with each step of a caller, the cycle never waits for a caller, offers are answered while exchanges fail | 14 000 |
| `startup` | windows disjoint and inside the image, packing agrees with the FMMUs on a ring of WG05 only, configured before SAFEOP, the count of started slaves is exact, slaves left in OP are explained, every step of main leaves it less to do, both loops end | 122 000 |
| `netif` | packets and buffers accounted for, own replies, good handles, a full table drains and empties, `FrameExchange` implemented | 221 000 |
| `ring` | handlers match, telegrams taken only by the slave that is meant, own windows, SAFEOP only when configured, each step of the start-up but one repetition brings it closer to its end | 30 000 |
| `timers` | the pace the deadlines keep, the commands in the image | 6 335 000 |
| `driver_prev`, `driver_deliver`, `driver_oob_starved`, `startup_report`, `startup_target` | a statement of the code about itself that it does not keep (section 6) | |

`oob`, `driver` and `startup` check the inductive invariant `IInv` of their
proof as well, and `IInv` contains the type invariant; those of `Netif` and `Ring` were
model-checked in the same way before they were proved. TLC looks for deadlocks in every run; `Finished` is the allowed end.

### Bounds

* `oob`: three callers: one on the channel, one woken for it, and one that comes in
  between or sleeps on. This is the least that shows a stolen wake-up with a third
  party still asleep. Two handles, one more than can ever be in use at once, so
  that a stale handle differs from the current one. `MaxTries` 2 instead of 10: a
  call then fails, is retried, and fails for good.
* `driver_oob`: two callers: one has the offer that waits, the other comes in and
  takes the mutex from the real-time thread, finds the channel taken and sleeps.
* `driver`: `PdTries` 3 instead of 20: a first, a middle and a last try. `Old` 2:
  ages of 0, 1 and 2 or more cycles; no property distinguishes older ones, and no
  counter but the ages is capped.
* `startup`: three slaves, each a WG05 or not: a ring that starts with another
  kind, has it in the middle, or at the end. Sizes 8 and 44 as in `wg05.h`. A slave
  starts in INIT or in OP: `EtherCAT_AL` resets the slaves, but is ready even when
  the reset failed. Every prefix of the ring may be what `getSlaveHandles` returns.
* `netif`: two chunks and two other callers over three slots and three buffers, so
  that at most two packets are unclaimed: process data finds the table full between
  its chunks, and every slot is used again while its last packet may still come
  back. Four packets (`MaxSent`, the only cap) with three sequence numbers: the numbers
  wrap around, and the first and the fourth packet agree in slot and number. Five
  packets with four numbers were checked too (501 000 states).
* `ring`: two slaves, the least with one that is meant and one that is not, each WG05
  or not and left over from either position; two FMMUs and four sync managers as the
  driver has them. There is no cap; every lost frame, refusal and loss of power is
  possible at every step. Three slaves without sync managers were checked too
  (3 million states).
* `timers`: a second of four ticks, waiting times of one and two ticks as 900 us
  and 500 ms are less than and half of a second; readings fall into the last waiting
  time of a second, where the deadline is invalid, and before it. Eight ticks
  (`MaxTime`): four turns of the monitor, as `Paced` looks back over three waits. Two
  slaves, one of which is the target from the start; the operator chooses either or a
  number that no slave has; one amplitude that does not
  fit into 16 bits beside the initial one that does. `SineSteps` 1: of the sine TLC
  takes the two extremes, the theorem every value.

## 4. Fairness

* *Threads run on* (weak fairness of each thread's own steps). `ni_->rx` has a
  timeout, so a caller inside it comes out. In `driver_oob`,
  `RtNeverWaits` assumes only the real-time thread's own progress: it must go on although
  a caller stays in `ni_->rx` for ever.
* *A mutex that is free again and again is obtained* (strong fairness of
  `Acquire`, `RtLock`, `MonLock`). The real-time thread holds the channel's mutex
  for microseconds of a cycle and only tries it. A default pthread mutex is not
  fair, but starvation needs a thread that comes back within the wake-up latency
  for ever. The monitor does so in the second half of each second, when its
  deadline has a `tv_nsec` out of range and the timed wait fails (`main.cpp:62`);
  in each first half it sleeps, and the real-time thread gets the mutex. The real-time
  thread waits in every second cycle at least, except for the last millisecond
  of a second (`main.cpp:43-46`), and the monitor gets it then.
* *Wake-ups without a signal come to an end* (a temporal assumption in `Fairness`
  of `OobComProperties`). POSIX permits them without promising anything; with endless ones
  the mutex could be busy at each trylock.
* In `OobComProperties` the real-time thread calls `tx()` again and again. That
  is an assumption about the driver, and `DriverOob` shows what it takes:
  exchanges that keep failing (`OfferAnsweredIfPdFails`); without them
  `OfferedFrameIsSent` is violated.
* In `NetifProperties` each caller goes on: whoever has sent collects or gives up, as
  `ethercat_dll.h:65` demands, and the wait in `rx` times out; process data is
  exchanged again. Nothing is assumed of the wire or of the input thread, so that
  `Recovers` holds although every reply is lost.
* Nothing is assumed of the operator (`Stop`), of `SlaveLost`, of `Fall`, or of the
  outcome of an exchange or state change.

## 5. Proofs

`tlapm` checks each `*Proofs` module. The assumptions are the `ASSUME`s of the
models: names that differ, handles that are natural numbers, at least one try,
positive sizes, at least one slave, at least one chunk and one buffer, no more
buffers than slots, at most 65535 slaves and 16 FMMUs and sync managers each, waiting
times below a second, at least one step of the sine, positive amplitudes.

What is proved of progress. Liveness itself is out of the provers' reach (below), but
the arguments for it have a part that is safety: a natural number that every step
of the program in question makes smaller, whatever its surroundings do. These
ranks are stated as action properties, which TLC checks in the runs and TLAPS
proves for every value of the constants: `Work` (start-up and shutdown), `Left`
(the end after the stop), `StepsLeft` (a frame
offered to the real-time thread), `ToDrain` (a full table), `Remaining` (the telegrams of the
start-up). What is left to fairness is that
the program takes its steps at all.

**OobComProofs.** `IInv` adds to the type invariant: the mutex is held by the
caller that is inside it (`MutexInv`), a caller occupies the channel iff the
channel is busy with its frame (`FrameHandover`), a busy channel is some caller's
(`OccupiedBySomeone`), a reply is collected only after a send (`ReplyAfterSend`),
`wire` is exactly the current handle's packet, and the two halves of
`NoLostWakeup`. None of them is inductive alone: that `Finish` leaves nothing on
the wire needs that the frame is the finishing caller's; that the wake-up it sends
arrives needs that nobody else occupies the channel. `Invariance` has a step for
each action. `Refinement` maps each step to a step of `EthercatCom` or a stutter
and gives `Spec => Com!Spec` for every set of callers, every `Handles` and
`MaxTries`; `HandoverIsSafe`, `PacketsAreClaimed`, `WakeupsArrive` are the
invariants of the run.

**DriverCycleProofs.** `IInv` adds who holds the lock, that threads and pointers
start together (`Started`), that the backup is filled before it is compared
(`Backup`), and `Parity`: which half has the latest command. `CommandLag` is about
the end of a successful exchange; it needs to be known from the end of one cycle
to the packing of the next that Master_Buffer_ has the last command iff
`this_buffer_` is the second half. `Invariance`, `NeverTorn`, `HalvesStayDistinct`,
`BackupIsInitialised`, `CommandsLagOneCycle`, `ClosedInOrder` hold for every
number of tries and every `Old`.

`AlwaysWindsDown` is the rank `Left`: once the operator has stopped, every step of any
thread, and even the loss of the slave, decreases it. It needs that the threads are
told before main joins them (`Told`): a thread at the head of its loop then leaves it.
So the program ends after at most `PdTries` + 15 steps, wherever the stop finds the
other threads; `StopCompletes` adds only that the mutex is obtained.

**DriverOobProofs.** The steps of `DriverOob` are steps of `OobCom` by its
definition (the lemma `CycleIsOobCom`); so `ChannelInvariance` carries the channel's
invariant over to it, and `CycleImplementsEthercatCom` the promise of the interface
class. `TxHoldsLock`: the mutex is the real-time thread's exactly while it is inside
`tx()`, so nothing there can be refused to it; this is the safety part of
`RtNeverWaits`. `OfferAlwaysComesCloser` is the safety part of
`OfferAnsweredIfPdFails`. While a frame waits to be sent, the channel's invariant says
that the one caller which occupies the channel is asleep on `busy_cond_`, about to
contend for the mutex again, or testing; a caller in `ni_->rx` would be one that
collects, and nothing has been sent. So each of its steps, and each one of a caller that
comes in, is one of three that end in sleep (`CallerComesCloser`), and a trylock that
fails meets a caller in one of the two tests (`BusyMeetsTest`): never one that waits for
the network.

**StartupProofs.** `IInv` adds the layout (windows below the running address, in
ring order, and none beyond `Slot * s`), how far each loop has raised the cached
states (`Raising`), and why a slave may be in OP (`InOp`). `RunningMatches` counts
with `Cardinality` and uses the library's theorems on finite sets.
`LayoutIsSound`, `PackingIsSound`, `ConfiguredFirst`, `RunningIsExact` and
`ClosedUnlessUnconfirmed` hold for every ring and every pair of sizes.

`WorkAlwaysShrinks` is the rank `Work`: the loops main has still to begin, weighted
with 5N + 1, the slaves that the current loop has still to reach, and the pairs of such
a slave and a state that its handler has still to pass. A confirmation takes a pair away, a failure the
slave, the end of a loop one unit of the weight, under which everything the next
loop starts with fits (`LoopEnds`). So main takes at most 7(5N + 1) steps, whatever
is refused or lost; the code has no retry here that could repeat (`to_state` gives up
at the first failure).

**NetifProofs.** `IInv` adds to the properties that no packet on the wire is newer
than the one its slot stands for (`NewestInSlot`), which with the lifetime makes equal
wrapped numbers equal packets, and that process data has packets out for exactly the
chunks it has sent and not collected (`ChunksOut`). The count of unclaimed packets is a
cardinality; that a buffer is always free (`NeverStarved`) follows from it by counting:
buffers in use inject into the outstanding packets. The theorems hold for every size
of the tables, `MAX_UNCLAIMED_PACKETS` being one less than the buffers.

`Refinement` maps each step to a step of `FrameExchange` or a stutter. That a request
respects the limit of the abstract module is counting once more: callers with a packet
out inject into the outstanding slots by their handles (`OutFits`). That `rx` hands
over the reply to the caller's own packet needs `OwnReply` and `HandleHonoured`
together. `RepliesUnsharedAlways` is proved of `FrameExchange` (`UnsharedStep`) and
carried over: no two callers are ever handed the reply to the same packet.
`DrainsAlways` has two parts. A full table has a caller that can go on
(`FullMovesOn`): process data that is not collecting has a chunk left (`LastCollects`),
which tx refuses, and that turns it to collecting; so it never waits for its own
packets to go away. And each step of a caller that leaves the table full decreases
`ToDrain`; what the input thread does, or any reply that never comes, does not raise
it.

**RingProofs.** `Position` is the arithmetic of the addresses: modulo 65536 exactly
one slave of the ring sees adp 0. The registers are handled by lemmas that say which
of them a telegram covers. `IInv` adds the order of the phases (`Order`), that a slave
which has kept its station address has every write of the current series (`Progress`),
and that addresses stay the slaves' own on a clean ring (`Fresh`). `OwnWindow` rests on the
windows of different WG05 being disjoint, which is again counting (`Before`).
`ArrivesConfigured` is an action property: a handler's confirmation is read from the
station address, which only its own slave has, and which a slave that lost power no
longer has; so `Progress` applies.

`OnlyInitRepeatsAlways` is the rank `Remaining`: loops, slaves of the loop, and the
writes and state changes of the slave, each unit weighing more than everything lighter
(`Parts`, `FewerLoops`, `FewerSlaves`). Whatever is lost, refused, read wrong or without
power, the master takes at most (8N + 7)(2(FMMUS + SMS) + 5) steps, beside the
repetitions of a lost command in `put_slaves_in_init`, which the action property
excepts and nothing bounds. `IInv` is needed for the master never being in the middle of
the writes of a slave that it passes over (`Order`).

**RealTimeProofs.** `Timed` says that the deadline is that of a reading and not older
than the wait before the last. `DueAfter` and `InvalidDue` are the arithmetic of
deadlines with an overflowing `tv_nsec`. `CommandedAlways` says for every ring, every
amplitude and every value of the sine what the image holds when it has been packed:
`PackedSoFar` is the same of the slaves the loop has passed. `Scaled` bounds the
current before it is converted to 16 bits. `DamageDetected` is about
the checksum alone: if one byte of a command is damaged the sum over the command
changes. The recursion over the bytes is unfolded for the eight that a
command has, and each step is injective in the sum and in the byte.

**Only model-checked.** The overlaps in the table of registers, the invalid checksum of
an all-zero command (both evaluated by TLC as assumptions of `MCRing` and
`MCRealTime`), and liveness under fairness (`OfferIsAnswered`,
`StopCompletes`, `CyclesGoOn`, `RtNeverWaits`, `OfferAnsweredIfPdFails`,
`StartupEnds`, `ShutdownEnds`, `Recovers`) and the counterexamples of section 6: temporal
properties under fairness need ENABLED, which the installed provers do not
reason about. What a recursive definition computes for every input needs induction
theorems with an operator parameter, which they cannot instantiate either.

## 6. What the models found

* `driver_deliver`: `txandrx_PD` ignores its parameter `buffer` and exchanges
  `Master_Buffer_` (`master_driver.cpp:233`). Every second cycle sends the command
  of the cycle before, and the second half never gets a status from a slave.
  `CommandLag` states what holds instead: one cycle, never more, after a success.
* `driver_prev`: the result of the start-up exchange is ignored
  (`wg05.cpp:156`), so `prev_buffer_` may start with zeros although the comment at
  `wg05.cpp:161` says it contains valid status data.
* `driver_oob_starved`: `tx()` is called only when the process data exchange has
  failed (`master_driver.cpp:235`): on a healthy network a caller of the channel
  sleeps for ever, against the comment at `ethercat_com.cpp:160`.
* `startup_report`: `changeState` reads the result of `to_state` the wrong way
  round (`master_driver.cpp:246`).
* `startup_target`: commands are laid out by ring position, FMMUs by position
  among the WG05 slaves (`wg05.cpp:249`, `:27`). With another kind of slave ahead
  the two differ.

Further observations, which the models show without contradicting a statement of
the code:

* netif counts a packet whose reply `framebuild` rejects as unclaimed for good. After
  15 such replies nothing is sent any more until the program restarts (`lost` in
  `Netif`; `Recovers` states the exception).
* `reset_slaves` does not clear the station addresses (`ethercat_AL.h:142`): on a ring
  that was changed since the last run without a power cycle a slave may take the
  configuration of another one (`OnlyMeant` states the exception, `OwnWindow` assumes
  there is no such slave). On the other hand the `@todo` at `ethercat_AL.h:137` is out of date:
  two slaves of the same product and revision get different addresses.
* `isReady()` is true although `init` failed, so the driver may configure slaves that
  were never reset (`ethercat_AL.h:118`).
* The working counter is never looked at. `ArrivesConfigured` holds all the same,
  because the last step of each way to a state reads the slave's state at an address
  that a slave has lost when it lost its configuration.
* The library writes FMMUs and sync managers on the way from PREOP to SAFEOP
  (`start_input_update`, `ethercat_FSM.h:62`); the comments at
  `ethercat_slave_conf.h:161` and `:185` have the FMMUs "written when going to preop".
  `Ring` follows the library; no property depends on it, as `ArrivesConfigured` speaks
  of the arrival in SAFEOP, before which they must have been written either way.
* `realTimeLoop` computes its deadline from a reading before the wait: it may work
  twice in a waiting time of 900 us, but not three times where the
  deadlines are valid. In the last waiting time of
  every second (for `monitorChanges`: half of the time) the deadline is no valid time
  and the wait returns at once.
* An amplitude above 32767 is converted to a negative current. A change of the target
  in the middle of a cycle may command no slave, or two, in that cycle.
* The command of a slave that is not the target is all zeros. By the code's own
  algorithm its checksum is not valid.

## 7. What is not modelled

* The bytes of frames, telegrams and registers: a telegram is modelled by what it
  does. BRD, APRW, NPRW, ARMW, LRD and LWR telegrams are declared and never sent.
* Router and mailbox: the driver gives no slave a mailbox configuration.
* The ways down to PREOP and INIT of the state machine: never asked for.
* Printing: `slaveInfo`, `pdInfo`, `fmmuInfo`, `mbxInfo`, `unpackCommand`.
* `initializeECatMaster` before the application layer: a straight line of socket
  calls that exits at the first failure.
* `WGMailbox`, `WGEeprom`, `EthercatDevice`: declared, not implemented, not used.
* Logging, lists and byte order helpers under `eml/include/ethercat`.
* That a `double` or an `int` shared without a lock is torn: on the machines the
  binary library is built for both are written in one piece.
* A copy of `__RUN_THREADS__` kept in a register, which an `int` shared without a lock
  would allow: both loops call functions the compiler cannot see through, and read it
  afresh in each turn.
* A change of a slave's state in pieces: in `Ring` the write to AL control, the reading
  of AL status and its ten repetitions are one step (`SetState`). A loss of power
  between them leaves what a change without confirmation and a loss of power after it
  leave, and both are steps of `Ring`.
* A failing pthread initialisation in the constructor of `EthercatOobCom`.

## 8. Left to do

* `OobCom` and `DriverCycle` on top of `FrameExchange` instead of their own small
  picture of netif.
* `DriverOob` joined to `DriverCycle`'s exchange, and `Startup` to `Ring`.
* Encodings of registers and telegrams into bytes, should their source become
  available.
