-------------------------- MODULE DriverOobProofs --------------------------
(* The driver's cycle, with its calls of tx() where txandrx_PD has them, uses *)
(* the channel as OobCom describes; what OobComProofs establishes for any     *)
(* caller of tx() therefore holds of the driver.                              *)
EXTENDS DriverOob, OobComProofs

\* A step of the composition is a step of the channel or leaves it alone.
LEMMA CycleStepRefines == CycleNext => [Next]_vars
  <1>1. CASE Begin \/ PdOk \/ PdFailed \/ Busy
    BY <1>1 DEF Begin, PdOk, PdFailed, Busy
  <1>2. CASE Locked
    BY <1>2 DEF Locked, Next
  <1>3. CASE CycleTx
    BY <1>3 DEF CycleTx, Next
  <1>4. ASSUME NEW t \in Callers, CallerStep(t) PROVE Next
    BY <1>4 DEF CallerStep, Next
  <1> QED
    BY <1>1, <1>2, <1>3, <1>4 DEF CycleNext, RealTime

\* The composition is built of the channel's own steps, so that what is proved of
\* the channel can be cited for it.
LEMMA CycleIsOobCom == CycleSpec => Spec
  <1>1. CycleInit => Init
    BY DEF CycleInit
  <1>2. [CycleNext]_cycleVars => [Next]_vars
    <2>1. UNCHANGED cycleVars => UNCHANGED vars
      BY DEF cycleVars
    <2> QED
      BY <2>1, CycleStepRefines
  <1> QED
    BY <1>1, <1>2, PTL DEF CycleSpec, Spec

\* In the driver, too, every packet the channel sends is claimed, no wake-up is
\* lost, and a frame is handed over intact.
THEOREM ChannelInvariance == CycleSpec => []IInv
  BY CycleIsOobCom, Invariance, PTL

\* With the real-time thread in the place the code gives it, the channel still keeps
\* the promise of the interface class to its callers.
THEOREM CycleImplementsEthercatCom == CycleSpec => ImplementsEthercatCom
  BY CycleIsOobCom, Refinement, PTL

-----------------------------------------------------------------------------
(* The lock the real-time thread has only tried. *)

\* Between trylock and the end of tx() the lock is the real-time thread's, and at
\* no other time.
HeldInTx == mutex = RT <=> cycle = "tx"

LEMMA HeldInTxNext == IInv /\ HeldInTx /\ [CycleNext]_cycleVars => HeldInTx'
  <1> SUFFICES ASSUME IInv, HeldInTx, [CycleNext]_cycleVars PROVE HeldInTx'
    OBVIOUS
  <1> USE OobAssumption
  <1>1. CASE Begin \/ PdOk \/ PdFailed \/ Busy
    BY <1>1 DEF Begin, PdOk, PdFailed, Busy, HeldInTx, vars
  <1>2. CASE Locked
    BY <1>2 DEF Locked, TryLock, HeldInTx
  <1>3. CASE CycleTx
    BY <1>3 DEF CycleTx, Tx, Send, NothingToSend, HeldInTx
  <1>4. ASSUME NEW t \in Callers, CallerStep(t) PROVE HeldInTx'
    <2>1. cycle' = cycle
      BY <1>4 DEF CallerStep
    <2>2. mutex' = RT <=> mutex = RT
      <3>1. CASE Call(t) \/ SpuriousWakeup(t) \/ Receive(t)
        BY <3>1 DEF Call, SpuriousWakeup, Receive
      <3>2. CASE Acquire(t)
        BY <3>2 DEF Acquire
      <3>3. CASE AwaitChannel(t) \/ Offer(t) \/ AwaitSent(t) \/ Finish(t)
        <4>1. pc[t] \in Inside
          BY <3>3 DEF AwaitChannel, Offer, AwaitSent, Finish, Inside
        <4>2. mutex = t
          BY <4>1 DEF IInv, MutexInv
        <4>3. mutex' = NONE
          BY <3>3 DEF AwaitChannel, Offer, AwaitSent, Finish
        <4> QED
          BY <4>2, <4>3
      <3> QED
        BY <1>4, <3>1, <3>2, <3>3 DEF CallerStep, Caller
    <2> QED
      BY <2>1, <2>2 DEF HeldInTx
  <1>5. CASE UNCHANGED cycleVars
    BY <1>5 DEF cycleVars, vars, HeldInTx
  <1> QED
    BY <1>1, <1>2, <1>3, <1>4, <1>5 DEF CycleNext, RealTime

\* The real-time thread enters tx() only with the lock in its hands, so that nothing
\* in tx() is ever refused to it, and never leaves it with the lock
\* (ethercat_com.cpp:194-208).
THEOREM TxHoldsLock == CycleSpec => []HeldInTx
  <1>1. CycleInit => HeldInTx
    BY OobAssumption DEF CycleInit, Init, HeldInTx
  <1> QED
    BY <1>1, HeldInTxNext, ChannelInvariance, PTL DEF CycleSpec

-----------------------------------------------------------------------------
(* What keeps an offered frame from being sent. *)

\* A caller's step while a frame waits to be sent: it wakes nobody, as only a reply
\* that was collected frees the channel.
LEMMA CallerComesCloser ==
  ASSUME IInv, state = "READY_TO_SEND", NEW t \in Callers, Caller(t)
  PROVE  /\ StepsLeft(t)' < StepsLeft(t) /\ state' = "READY_TO_SEND"
         /\ \A u \in Callers : StepsLeft(u)' <= StepsLeft(u)
  <1>1. pc \in [Callers -> {"out"} \cup Waiting \cup Contending \cup Inside]
    BY DEF IInv, TypeOK
  <1>2. ~Offer(t) /\ ~Receive(t)
    BY DEF Offer, Receive
  <1>3. ~Finish(t)
    BY DEF Finish, IInv, ReplyAfterSend
  <1>4. \A u \in Callers : StepsLeft(u) \in 0..3
    BY DEF StepsLeft
  <1>5. ASSUME NEW l, pc' = [pc EXCEPT ![t] = l], StepsLeft(t)' < StepsLeft(t)
        PROVE  \A u \in Callers : StepsLeft(u)' <= StepsLeft(u)
    <2> SUFFICES ASSUME NEW u \in Callers, u # t PROVE StepsLeft(u)' <= StepsLeft(u)
      <3>1. StepsLeft(t) \in 0..3 /\ StepsLeft(t)' \in 0..3
        BY DEF StepsLeft
      <3> QED
        BY <1>5, <3>1
    <2>1. pc'[u] = pc[u]
      BY <1>1, <1>5
    <2>2. StepsLeft(u)' = StepsLeft(u)
      BY <2>1 DEF StepsLeft
    <2> QED
      BY <1>4, <2>2
  <1>6. CASE Call(t)
    <2>1. pc' = [pc EXCEPT ![t] = "lock"] /\ pc[t] = "out" /\ state' = state
      BY <1>6 DEF Call, Goto
    <2>2. StepsLeft(t) = 3 /\ StepsLeft(t)' = 2
      BY <1>1, <2>1 DEF StepsLeft, Contending
    <2>3. StepsLeft(t)' < StepsLeft(t) /\ state' = "READY_TO_SEND"
      BY <2>1, <2>2
    <2>4. \A u \in Callers : StepsLeft(u)' <= StepsLeft(u)
      BY <1>5, <2>1, <2>3
    <2> QED
      BY <2>3, <2>4
  <1>7. CASE Acquire(t)
    <2>1. PICK l \in {"share_test", "busy_test"} : pc' = [pc EXCEPT ![t] = l]
      BY <1>7 DEF Acquire, Goto
    <2>2. pc[t] \in Contending /\ state' = state
      BY <1>7 DEF Acquire
    <2>3. StepsLeft(t) = 2 /\ StepsLeft(t)' = 1
      BY <1>1, <2>1, <2>2 DEF StepsLeft, Contending
    <2>4. StepsLeft(t)' < StepsLeft(t) /\ state' = "READY_TO_SEND"
      BY <2>2, <2>3
    <2>5. \A u \in Callers : StepsLeft(u)' <= StepsLeft(u)
      BY <1>5, <2>1, <2>4
    <2> QED
      BY <2>4, <2>5
  <1>8. CASE AwaitChannel(t) \/ AwaitSent(t)
    <2>1. PICK l \in {"share_wait", "busy_wait"} : pc' = [pc EXCEPT ![t] = l]
      BY <1>8 DEF AwaitChannel, AwaitSent, Goto
    <2>2. pc[t] \in {"share_test", "busy_test"} /\ state' = state
      BY <1>8 DEF AwaitChannel, AwaitSent
    <2>3. StepsLeft(t) = 1 /\ StepsLeft(t)' = 0
      BY <1>1, <2>1, <2>2 DEF StepsLeft, Contending
    <2>4. StepsLeft(t)' < StepsLeft(t) /\ state' = "READY_TO_SEND"
      BY <2>2, <2>3
    <2>5. \A u \in Callers : StepsLeft(u)' <= StepsLeft(u)
      BY <1>5, <2>1, <2>4
    <2> QED
      BY <2>4, <2>5
  <1> QED
    BY <1>2, <1>3, <1>6, <1>7, <1>8 DEF Caller

\* What a failed try has met: a caller in one of the two tests.
LEMMA BusyMeetsTest ==
  ASSUME IInv, HeldInTx, state = "READY_TO_SEND", Busy
  PROVE  \E t \in Callers : mutex = t /\ StepsLeft(t) = 1
  <1>1. mutex \in Callers
    BY DEF Busy, HeldInTx, IInv, TypeOK
  <1>2. pc[mutex] \in {"share_test", "busy_test"}
    BY <1>1 DEF IInv, MutexInv, ReplyAfterSend, Inside
  <1> QED
    BY <1>1, <1>2 DEF StepsLeft, Contending

\* The callers can keep an offered frame from being sent only for a bounded number of
\* their own steps, and never by a wait for the network: the part of
\* OfferAnsweredIfPdFails that needs no fairness (ethercat_com.cpp:148-208).
THEOREM OfferAlwaysComesCloser == CycleSpec => OfferComesCloser
  <1> DEFINE Closer ==
        state = "READY_TO_SEND" =>
          /\ \A t \in Callers : Caller(t) =>
               StepsLeft(t)' < StepsLeft(t) /\ state' = "READY_TO_SEND"
          /\ state' = "READY_TO_SEND" =>
               \A t \in Callers : StepsLeft(t)' <= StepsLeft(t) \/ SpuriousWakeup(t)
          /\ Busy => \E t \in Callers : mutex = t /\ StepsLeft(t) = 1
  <1>1. IInv /\ HeldInTx /\ [CycleNext]_cycleVars => [Closer]_cycleVars
    <2> SUFFICES ASSUME IInv, HeldInTx, CycleNext, state = "READY_TO_SEND" PROVE Closer
      OBVIOUS
    <2>1. ASSUME NEW t \in Callers, Caller(t)
          PROVE  StepsLeft(t)' < StepsLeft(t) /\ state' = "READY_TO_SEND"
      BY <2>1, CallerComesCloser
    <2>2. ASSUME state' = "READY_TO_SEND"
          PROVE  \A t \in Callers : StepsLeft(t)' <= StepsLeft(t) \/ SpuriousWakeup(t)
      <3>1. \A t \in Callers : StepsLeft(t) \in 0..3
        BY DEF StepsLeft
      <3>2. CASE UNCHANGED pc
        BY <3>1, <3>2 DEF StepsLeft
      <3>3. CASE Begin \/ PdOk \/ PdFailed \/ Locked \/ Busy
        BY <3>2, <3>3 DEF Begin, PdOk, PdFailed, Locked, Busy, TryLock, vars
      <3>4. ~CycleTx
        BY <2>2 DEF CycleTx, Tx, Send, SendFrame, NothingToSend
      <3>5. ASSUME NEW t \in Callers, Caller(t)
            PROVE  \A u \in Callers : StepsLeft(u)' <= StepsLeft(u)
        BY <3>5, CallerComesCloser
      <3>6. ASSUME NEW t \in Callers, SpuriousWakeup(t), NEW u \in Callers
            PROVE  StepsLeft(u)' <= StepsLeft(u) \/ SpuriousWakeup(u)
        <4>1. CASE u = t
          BY <3>6, <4>1
        <4>2. CASE u # t
          <5>1. pc'[u] = pc[u]
            BY <3>6, <4>2 DEF SpuriousWakeup, Goto, IInv, TypeOK
          <5> QED
            BY <3>1, <5>1 DEF StepsLeft
        <4> QED
          BY <4>1, <4>2
      <3> QED
        BY <3>3, <3>4, <3>5, <3>6 DEF CycleNext, RealTime, CallerStep
    <2>3. ASSUME Busy PROVE \E t \in Callers : mutex = t /\ StepsLeft(t) = 1
      BY <2>3, BusyMeetsTest
    <2> QED
      BY <2>1, <2>2, <2>3
  <1> QED
    BY <1>1, ChannelInvariance, TxHoldsLock, PTL DEF CycleSpec, OfferComesCloser
=============================================================================
