-------------------------- MODULE OobComProperties --------------------------
(***************************************************************************)
(* What EthercatOobCom must guarantee, and the inductive invariant behind  *)
(* it.  OobComProofs proves the invariants for every set of callers.       *)
(***************************************************************************)
EXTENDS OobCom

\* The type of every variable.
TypeOK ==
  /\ state \in {"IDLE", "READY_TO_SEND", "WAITING_TO_RECV"}
  /\ frame \in Callers \cup {NONE}
  /\ handle \in Handles \cup {-1}
  /\ mutex \in Callers \cup {RT, NONE}
  /\ pc \in [Callers -> {"out"} \cup Waiting \cup Contending \cup Inside]
  /\ tries \in [Callers -> 0..MaxTries]
  /\ result \in [Callers -> {"none", "true", "false"}]
  /\ wire \in SUBSET (Handles \X Callers)

\* The mutex is held exactly by the caller that is inside it, so no thread
\* ever locks it twice and lock() never fails (ethercat_com.cpp:150).
MutexInv == \A t \in Callers : pc[t] \in Inside <=> mutex = t

\* Between its offer and its reply a caller occupies the channel.
Occupies(t) == pc[t] \in {"busy_wait", "busy_woken", "busy_test", "rx"}

\* At most one caller occupies the channel, exactly while it is not IDLE, and
\* frame_ is still that caller's frame when it collects the reply and when the
\* real-time thread sends it: the assertions of ethercat_com.cpp:173 and :201.
FrameHandover ==
  \A t \in Callers : Occupies(t) <=> state # "IDLE" /\ frame = t

OccupiedBySomeone == state # "IDLE" => frame \in Callers

\* A reply is awaited only after the real-time thread has sent the frame.
ReplyAfterSend == \A t \in Callers : pc[t] = "rx" => state = "WAITING_TO_RECV"

\* Every successful ni_->tx is followed by the rx of the same packet, as
\* netif requires: the channel never leaves a packet behind in netif's table,
\* and never forgets or overwrites the handle of one (ethercat_com.cpp:166-170).
EveryPacketClaimed ==
  /\ wire = IF handle = -1 THEN {} ELSE {<<handle, frame>>}
  /\ handle # -1 => state = "WAITING_TO_RECV"

\* No wake-up is lost.  When the channel is free and callers sleep on
\* share_cond_, one of them has been woken or another caller is about to test
\* the channel; and the caller whose frame has been sent is not asleep.
NoLostWakeup ==
  /\ state = "IDLE" /\ (\E t \in Callers : pc[t] = "share_wait")
       => \E t \in Callers : pc[t] \in {"share_woken", "share_test"}
  /\ \A t \in Callers : state = "WAITING_TO_RECV" => pc[t] # "busy_wait"

\* A call in progress has a try left, so txandrx's loop never runs past MAX_TRIES.
TryLeft == \A t \in Callers : pc[t] # "out" => tries[t] < MaxTries

\* The inductive invariant.
IInv ==
  /\ TypeOK /\ MutexInv /\ FrameHandover /\ OccupiedBySomeone
  /\ TryLeft /\ ReplyAfterSend /\ EveryPacketClaimed /\ NoLostWakeup

-----------------------------------------------------------------------------
(* Refinement: the channel implements the interface EthercatCom. *)

Phase == [t \in Callers |->
            IF pc[t] = "out" THEN "idle"
            ELSE IF frame = t /\ handle # -1 THEN "sent" ELSE "open"]

Com == INSTANCE EthercatCom WITH phase <- Phase

\* A call returns TRUE only for a transmission of its own frame that was
\* answered, and FALSE only after MaxTries failed attempts (ethercat_com.cpp:182-191).
ImplementsEthercatCom == Com!Spec

-----------------------------------------------------------------------------
(* Liveness.  A thread inside the mutex runs on (ni_->rx has a timeout); a   *)
(* thread that wants the mutex gets it if it is free again and again (the    *)
(* real-time thread holds it for microseconds of each cycle); the real-time  *)
(* thread calls tx() again and again; wake-ups without a signal are rare.    *)

Fairness ==
  /\ \A t \in Callers :
       /\ WF_vars(AwaitChannel(t) \/ Offer(t) \/ AwaitSent(t) \/ Receive(t) \/ Finish(t))
       /\ SF_vars(Acquire(t))
  /\ WF_vars(TryLock) /\ WF_vars(Tx)
  /\ <>[][~ \E t \in Callers : SpuriousWakeup(t)]_vars

LiveSpec == Spec /\ Fairness

\* A caller that has handed over its frame gets its answer: the attempt ends
\* although it sleeps on busy_cond_ while the real-time thread only tries the lock.
OfferIsAnswered == \A t \in Callers : pc[t] = "busy_wait" ~> ~Occupies(t)
=============================================================================
