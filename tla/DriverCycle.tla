---------------------------- MODULE DriverCycle ----------------------------
(***************************************************************************)
(* The three threads of the driver once the slaves are configured: main    *)
(* (start-up exchange, threads, operator, shutdown), the real-time thread  *)
(* (update) and the monitor thread (monitorChanges).                       *)
(*                                                                         *)
(* Master_Buffer_ is "A", the second half of the allocation "B"; update    *)
(* swaps this_buffer_ and prev_buffer_ between them.  Of the bytes of a    *)
(* half two things are kept, for the target slave: how many cycles ago its *)
(* command was packed and its status was received.  Ages saturate at Old;  *)
(* Never marks the zeros of memset.                                        *)
(***************************************************************************)
EXTENDS Naturals

CONSTANTS PdTries,   \* tries of txandrx_PD: 20, and max_pd_retries_
          Old        \* the age at which the model stops counting cycles

ASSUME DriverAssumption == PdTries \in Nat \ {0} /\ Old \in Nat \ {0, 1}

Halves == {"A", "B"}
Never == Old + 1
Older(n) == IF n < Old THEN n + 1 ELSE n

VARIABLES
  half,            \* the two halves of the allocation
  this, prev,      \* this_buffer_, prev_buffer_: a half, or "NULL"
  device,          \* age of the command the target slave obeys
  attached,        \* the slave takes part in the process data exchange
  lock,            \* owner of mutex_buffer_access
  run,             \* __RUN_THREADS__
  main, rt, mon,   \* where each thread is
  try,             \* failed tries of the txandrx_PD in progress
  peek,            \* monitorChanges' local prev_buffer
  filled,          \* monitor_backup has been written
  monInit          \* monitor_delta_init

pointers == <<this, prev>>
threads == <<lock, run, main, rt>>
monitor == <<mon, peek, filled, monInit>>
vars == <<half, device, attached, try, pointers, threads, monitor>>

Init ==
  /\ half = [h \in Halves |-> [cmd |-> Never, status |-> Never]]
  /\ this = "NULL" /\ prev = "NULL" /\ device = Never
  /\ attached \in BOOLEAN
  /\ lock = "none" /\ run = FALSE
  /\ main = "exchange" /\ rt = "off" /\ mon = "off"
  /\ try = 0 /\ peek = "NULL" /\ filled = FALSE /\ monInit = FALSE

-----------------------------------------------------------------------------
(* Process data.  One try of em->txandrx_PD carries half h to the slave       *)
(* (latched) and its status back into h (received): both on success, neither  *)
(* or the first on failure, or both for the part of a long exchange that got  *)
(* through.  A slave that is not attached is passed over; the return value    *)
(* does not tell.                                                             *)

ExchangeHalf(h, success) ==
  \E latched, received \in BOOLEAN :
    /\ (received => latched) /\ (success => received)
    /\ device' = IF attached /\ latched THEN half[h].cmd ELSE device
    /\ half' = IF attached /\ received THEN [half EXCEPT ![h].status = 0] ELSE half

\* The parameter `buffer` of txandrx_PD honoured.
ExchangeThis(success) == ExchangeHalf(IF this = "NULL" THEN "A" ELSE this, success)

\* txandrx_PD exchanges Master_Buffer_, whatever its parameter `buffer` says.
Exchange(success) == ExchangeHalf("A", success)

\* One turn of txandrx_PD's loop: the next turn, or the end of the loop.
Turn(success, again, ok, failed) ==
  /\ try' = IF success \/ try + 1 = PdTries THEN 0 ELSE try + 1
  /\ IF success THEN ok ELSE IF try + 1 = PdTries THEN failed ELSE again

\* The slave may leave OP, or the ring, by itself at any time.
SlaveLost ==
  /\ attached /\ attached' = FALSE
  /\ UNCHANGED <<half, device, try, pointers, threads, monitor>>

-----------------------------------------------------------------------------
(* main *)

\* setMasterBuffer: 20 tries on the zeroed buffer, the result ignored.  tx()
\* after the last failure finds nothing to send: nobody uses the channel yet.
StartupTry ==
  /\ main = "exchange"
  /\ \E success \in BOOLEAN :
       /\ Exchange(success)
       /\ Turn(success, UNCHANGED main, main' = "start", main' = "start")
  /\ UNCHANGED <<attached, pointers, lock, run, rt, monitor>>

StartThreads ==
  /\ run' = TRUE /\ rt' = "check" /\ mon' = "check" /\ main' = "operate"
  /\ UNCHANGED <<attached, try, device, lock, peek, filled, monInit>>

StartOverlapping ==   \* without the offset of line 159
  /\ main = "start" /\ this' = "A" /\ prev' = "A"
  /\ UNCHANGED half /\ StartThreads

\* The pointers are set and prev_buffer_ is given this_buffer_'s contents.
Start ==
  /\ main = "start" /\ this' = "A" /\ prev' = "B"
  /\ half' = [half EXCEPT !["B"] = half["A"]]
  /\ StartThreads

\* setMasterBuffer's early return: no slave handle, no buffer, threads all the same.
StartEmpty ==
  /\ main = "exchange" /\ try = 0
  /\ UNCHANGED <<half, pointers>> /\ StartThreads

StopUntold ==   \* without line 143
  /\ main = "operate" /\ main' = "join"
  /\ UNCHANGED <<half, device, attached, try, pointers, lock, run, rt, monitor>>

\* The operator enters an amplitude that is not positive.
Stop ==
  /\ main = "operate" /\ run' = FALSE /\ main' = "join"
  /\ UNCHANGED <<half, device, attached, try, pointers, lock, rt, monitor>>

JoinMonitorOnly ==   \* without the pthread_join of line 145
  /\ main = "join" /\ mon = "exit" /\ main' = "close"
  /\ UNCHANGED <<half, device, attached, try, pointers, lock, run, rt, monitor>>

Join ==
  /\ main = "join" /\ rt = "exit" /\ mon = "exit" /\ main' = "close"
  /\ UNCHANGED <<half, device, attached, try, pointers, lock, run, rt, monitor>>

\* closeOperationalSlaves takes the slaves out of OP, and main returns.
Close ==
  /\ main = "close" /\ main' = "done" /\ attached' \in {attached, FALSE}
  /\ UNCHANGED <<half, device, try, pointers, lock, run, rt, monitor>>

-----------------------------------------------------------------------------
(* The real-time thread: realTimeLoop and update. *)

\* The flag is read, then the timed wait returns, then update wants the lock.
RtCheck ==
  /\ rt = "check" /\ rt' = IF run THEN "lock" ELSE "exit"
  /\ UNCHANGED <<half, device, attached, try, pointers, lock, run, main, monitor>>

RtLockFree ==   \* update without its mutex
  /\ rt = "lock" /\ rt' = "pack" /\ lock' = IF lock = "none" THEN "rt" ELSE lock
  /\ UNCHANGED <<half, device, attached, try, pointers, run, main, monitor>>

RtLock ==
  /\ rt = "lock" /\ lock = "none" /\ lock' = "rt" /\ rt' = "pack"
  /\ UNCHANGED <<half, device, attached, try, pointers, run, main, monitor>>

\* packCommand writes this cycle's command into this_buffer_; everything else
\* is one cycle older.
Pack ==
  /\ rt = "pack" /\ rt' = "exchange"
  /\ half' = [h \in Halves |-> [cmd |-> IF h = this THEN 0 ELSE Older(half[h].cmd),
                                status |-> Older(half[h].status)]]
  /\ device' = Older(device)
  /\ UNCHANGED <<attached, try, pointers, lock, run, main, monitor>>

\* With NULL buffers zero bytes are exchanged.
RtTry ==
  /\ rt = "exchange"
  /\ \E success \in BOOLEAN :
       /\ IF this = "NULL" THEN UNCHANGED <<half, device>> ELSE Exchange(success)
       /\ Turn(success, UNCHANGED rt, rt' = "swap_ok", rt' = "oob")
  /\ UNCHANGED <<attached, pointers, lock, run, main, monitor>>

\* oob_com_->tx(): module OobCom; it never blocks.
RtOob ==
  /\ rt = "oob" /\ rt' = "swap_failed"
  /\ UNCHANGED <<half, device, attached, try, pointers, lock, run, main, monitor>>

Swapping == rt \in {"swap_ok", "swap_failed"}

SwapLost ==   \* prev_buffer_ = this_buffer_ after the assignment of line 306
  /\ Swapping /\ this' = prev /\ UNCHANGED prev
  /\ lock' = "none" /\ rt' = "check"
  /\ UNCHANGED <<half, device, attached, try, run, main, monitor>>

\* The halves change roles whether or not the exchange succeeded.
Swap ==
  /\ Swapping /\ this' = prev /\ prev' = this
  /\ lock' = "none" /\ rt' = "check"
  /\ UNCHANGED <<half, device, attached, try, run, main, monitor>>

-----------------------------------------------------------------------------
(* The monitor thread. *)

MonCheckOnce ==   \* the flag kept from the first turn
  /\ mon = "check" /\ mon' = "peek"
  /\ UNCHANGED <<half, device, attached, try, pointers, threads, peek, filled, monInit>>

MonCheck ==
  /\ mon = "check" /\ mon' = IF run THEN "peek" ELSE "exit"
  /\ UNCHANGED <<half, device, attached, try, pointers, threads, peek, filled, monInit>>

PeekAlways ==   \* line 318 without monitor_delta_init
  /\ mon = "peek" /\ mon' = IF prev = "NULL" THEN "test" ELSE "compare_lock"
  /\ peek' = prev
  /\ UNCHANGED <<half, device, attached, try, pointers, threads, filled, monInit>>

\* prev_buffer_ is read before the lock is taken.
Peek ==
  /\ mon = "peek"
  /\ IF monInit /\ prev # "NULL"
       THEN mon' = "compare_lock" /\ peek' = prev
       ELSE mon' = "test" /\ UNCHANGED peek
  /\ UNCHANGED <<half, device, attached, try, pointers, threads, filled, monInit>>

MonLock(from, to) ==
  /\ mon = from /\ lock = "none" /\ lock' = "mon" /\ mon' = to
  /\ UNCHANGED <<half, device, attached, try, pointers, run, main, rt,
                 peek, filled, monInit>>

\* The half at `peek` is compared with monitor_backup, and differences printed.
Compare ==
  /\ mon = "compare" /\ mon' = "test" /\ lock' = "none"
  /\ UNCHANGED <<half, device, attached, try, pointers, run, main, rt,
                 peek, filled, monInit>>

TestPrev ==
  /\ mon = "test" /\ mon' = IF prev = "NULL" THEN "check" ELSE "copy_lock"
  /\ UNCHANGED <<half, device, attached, try, pointers, threads, peek, filled, monInit>>

CopyHolding ==   \* without the unlock of line 361
  /\ mon = "copy" /\ mon' = "check"
  /\ filled' = TRUE /\ monInit' = TRUE
  /\ UNCHANGED <<half, device, attached, try, pointers, threads, peek>>

\* monitor_backup is filled from prev_buffer_, read again under the lock.
Copy ==
  /\ mon = "copy" /\ mon' = "check" /\ lock' = "none"
  /\ filled' = TRUE /\ monInit' = TRUE
  /\ UNCHANGED <<half, device, attached, try, pointers, run, main, rt, peek>>

-----------------------------------------------------------------------------
Main == StartupTry \/ Start \/ StartEmpty \/ Stop \/ Join \/ Close
RealTime == RtCheck \/ RtLock \/ Pack \/ RtTry \/ RtOob \/ Swap
Monitor ==
  \/ MonCheck \/ Peek \/ MonLock("compare_lock", "compare") \/ Compare
  \/ TestPrev \/ MonLock("copy_lock", "copy") \/ Copy

Finished == main = "done" /\ UNCHANGED vars

Next == Main \/ RealTime \/ Monitor \/ SlaveLost \/ Finished

Spec == Init /\ [][Next]_vars
=============================================================================
