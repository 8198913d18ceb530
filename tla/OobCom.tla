------------------------------- MODULE OobCom -------------------------------
(***************************************************************************)
(* EthercatOobCom: any thread may call txandrx(frame); the frame is handed *)
(* through frame_/state_/handle_ to the real-time thread, which alone      *)
(* calls ni_->tx (in tx()), and the caller then collects the reply with    *)
(* ni_->rx.  mutex_ guards the three fields, share_cond_ queues callers    *)
(* for the channel, busy_cond_ wakes the caller whose frame was sent.      *)
(* A caller is identified with the frame it passes.  A step is what a      *)
(* thread does between two acquisitions of the mutex, so every blocking    *)
(* point of the code is a state here.  lock() can only fail with EDEADLK   *)
(* (the mutex is ERRORCHECK): MutexInv shows that case unreachable.        *)
(***************************************************************************)
EXTENDS Integers

CONSTANTS Callers,   \* threads calling txandrx
          RT,        \* the real-time thread, which calls tx()
          NONE,      \* no thread, or a NULL frame
          Handles,   \* handles ni_->tx may return
          MaxTries   \* MAX_TRIES of txandrx

ASSUME OobAssumption ==
  /\ RT \notin Callers /\ NONE \notin Callers \cup {RT}
  /\ Handles \subseteq Nat
  /\ MaxTries \in Nat \ {0}

VARIABLES state, frame, handle,   \* state_, frame_, handle_
          mutex,                  \* owner of mutex_
          pc,                     \* where each caller is
          tries, result,          \* txandrx's loop counter; what its last call returned
          wire                    \* <<handle, frame>> of packets netif keeps for this channel

vars == <<state, frame, handle, mutex, pc, tries, result, wire>>

\* Blocked on a condition variable; woken and in need of the mutex.
Waiting == {"share_wait", "busy_wait"}
Contending == {"lock", "share_woken", "busy_woken"}
\* Testing the predicate of a wait loop, and blocked in ni_->rx: inside the mutex.
Inside == {"share_test", "busy_test", "rx"}

Init ==
  /\ state = "IDLE" /\ frame = NONE /\ handle = -1 /\ mutex = NONE /\ wire = {}
  /\ pc = [t \in Callers |-> "out"]
  /\ tries = [t \in Callers |-> 0]
  /\ result = [t \in Callers |-> "none"]

Goto(t, l) == pc' = [pc EXCEPT ![t] = l]

\* pthread_cond_signal: with waiters, one of them (any) now contends for the
\* mutex; t is the signalling caller, moved to label l in the same step.
SignalShare(t, l) ==
  LET sleepers == {u \in Callers : pc[u] = "share_wait"} IN
  \/ sleepers = {} /\ Goto(t, l)
  \/ \E u \in sleepers : pc' = [pc EXCEPT ![u] = "share_woken", ![t] = l]

SignalBusy ==
  LET sleepers == {u \in Callers : pc[u] = "busy_wait"} IN
  \/ sleepers = {} /\ UNCHANGED pc
  \/ \E u \in sleepers : Goto(u, "busy_woken")

-----------------------------------------------------------------------------
(* The callers. *)

Call(t) ==
  /\ pc[t] = "out"
  /\ Goto(t, "lock")
  /\ tries' = [tries EXCEPT ![t] = 0]
  /\ UNCHANGED <<state, frame, handle, mutex, result, wire>>

Acquire(t) ==
  /\ pc[t] \in Contending /\ mutex = NONE
  /\ mutex' = t
  /\ Goto(t, IF pc[t] = "busy_woken" THEN "busy_test" ELSE "share_test")
  /\ UNCHANGED <<state, frame, handle, tries, result, wire>>

\* POSIX lets pthread_cond_wait return without a signal.
SpuriousWakeup(t) ==
  /\ \/ pc[t] = "share_wait" /\ Goto(t, "share_woken")
     \/ pc[t] = "busy_wait" /\ Goto(t, "busy_woken")
  /\ UNCHANGED <<state, frame, handle, mutex, tries, result, wire>>

AwaitChannelSpinning(t) ==   \* unlocked and locked again instead of asleep
  /\ pc[t] = "share_test" /\ state # "IDLE"
  /\ Goto(t, "lock") /\ mutex' = NONE
  /\ UNCHANGED <<state, frame, handle, tries, result, wire>>

AwaitChannel(t) ==
  /\ pc[t] = "share_test" /\ state # "IDLE"
  /\ Goto(t, "share_wait") /\ mutex' = NONE
  /\ UNCHANGED <<state, frame, handle, tries, result, wire>>

OfferAnyway(t) ==   \* the wait of line 154 as an if: no second test after a wake-up
  /\ pc[t] = "share_test"
  /\ frame' = t /\ state' = "READY_TO_SEND"
  /\ Goto(t, "busy_wait") /\ mutex' = NONE
  /\ UNCHANGED <<handle, tries, result, wire>>

Offer(t) ==
  /\ pc[t] = "share_test" /\ state = "IDLE"
  /\ frame' = t /\ state' = "READY_TO_SEND"
  /\ Goto(t, "busy_wait") /\ mutex' = NONE
  /\ UNCHANGED <<handle, tries, result, wire>>

AwaitSent(t) ==
  /\ pc[t] = "busy_test" /\ state # "WAITING_TO_RECV"
  /\ Goto(t, "busy_wait") /\ mutex' = NONE
  /\ UNCHANGED <<state, frame, handle, tries, result, wire>>

ReceiveUntested(t) ==   \* the wait of line 161 without its loop
  /\ pc[t] = "busy_test"
  /\ Goto(t, "rx")
  /\ UNCHANGED <<state, frame, handle, mutex, tries, result, wire>>

Receive(t) ==
  /\ pc[t] = "busy_test" /\ state = "WAITING_TO_RECV"
  /\ Goto(t, "rx")
  /\ UNCHANGED <<state, frame, handle, mutex, tries, result, wire>>

\* txandrx: a success or the last failure ends the call, another failure retries.
Retry(t, success, next) ==
  /\ tries' = IF success THEN tries ELSE [tries EXCEPT ![t] = @ + 1]
  /\ next = IF success \/ tries[t] + 1 = MaxTries THEN "out" ELSE "lock"
  /\ result' = IF next = "lock" THEN result
               ELSE [result EXCEPT ![t] = IF success THEN "true" ELSE "false"]

\* ni_->rx claims the packet of handle_ and returns whether its reply came;
\* without a handle there is nothing to claim and the attempt has failed.
Claim(success) ==
  /\ success => handle >= 0
  /\ wire' = {p \in wire : p[1] # handle}

FinishSilently(t) ==   \* without the signal of line 175
  /\ pc[t] = "rx"
  /\ \E success \in BOOLEAN, next \in {"out", "lock"} :
       Claim(success) /\ Retry(t, success, next) /\ Goto(t, next)
  /\ state' = "IDLE" /\ handle' = -1 /\ mutex' = NONE
  /\ UNCHANGED frame

FinishOptimistic(t) ==   \* success without asking whether there was a handle
  /\ pc[t] = "rx"
  /\ \E next \in {"out", "lock"} : Retry(t, TRUE, next) /\ SignalShare(t, next)
  /\ wire' = {}
  /\ state' = "IDLE" /\ handle' = -1 /\ mutex' = NONE
  /\ UNCHANGED frame

Finish(t) ==
  /\ pc[t] = "rx"
  /\ \E success \in BOOLEAN, next \in {"out", "lock"} :
       Claim(success) /\ Retry(t, success, next) /\ SignalShare(t, next)
  /\ state' = "IDLE" /\ handle' = -1 /\ mutex' = NONE
  /\ UNCHANGED frame

-----------------------------------------------------------------------------
(* tx(), called by the real-time thread.  A failed trylock returns at once: *)
(* a stuttering step.                                                       *)

TryLock ==
  /\ mutex = NONE
  /\ mutex' = RT
  /\ UNCHANGED <<state, frame, handle, pc, tries, result, wire>>

\* ni_->tx fails (-1) or leaves a packet, under a fresh handle, for rx to claim.
SendFrame ==
  /\ \/ handle' = -1 /\ UNCHANGED wire
     \/ \E h \in Handles :
          /\ \A p \in wire : p[1] # h
          /\ handle' = h /\ wire' = wire \cup {<<h, frame>>}
  /\ state' = "WAITING_TO_RECV"
  /\ UNCHANGED <<frame, tries, result>>

SendMute ==   \* without the signal of line 204
  /\ mutex = RT /\ state = "READY_TO_SEND"
  /\ SendFrame /\ UNCHANGED pc /\ mutex' = NONE

SendAgain ==   \* without the test of line 199
  /\ mutex = RT /\ state # "IDLE"
  /\ SendFrame /\ SignalBusy /\ mutex' = NONE

Send ==
  /\ mutex = RT /\ state = "READY_TO_SEND"
  /\ SendFrame /\ SignalBusy /\ mutex' = NONE

NothingToSend ==
  /\ mutex = RT /\ state # "READY_TO_SEND"
  /\ mutex' = NONE
  /\ UNCHANGED <<state, frame, handle, pc, tries, result, wire>>

Tx == Send \/ NothingToSend

Caller(t) ==
  \/ Call(t) \/ Acquire(t) \/ AwaitChannel(t) \/ Offer(t)
  \/ AwaitSent(t) \/ Receive(t) \/ Finish(t)

Next ==
  \/ \E t \in Callers : Caller(t) \/ SpuriousWakeup(t)
  \/ TryLock
  \/ Tx

Spec == Init /\ [][Next]_vars
=============================================================================
