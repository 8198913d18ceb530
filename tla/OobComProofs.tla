---------------------------- MODULE OobComProofs ----------------------------
(***************************************************************************)
(* The invariants of OobCom hold for every set of callers, every set of    *)
(* handles and every number of tries, and OobCom implements EthercatCom.   *)
(***************************************************************************)
EXTENDS OobComProperties, TLAPS

\* The assumptions on the constants and the labels of pc are used everywhere.
USE OobAssumption DEF Waiting, Contending, Inside, Goto

\* The invariant holds when the channel is constructed.
LEMMA InitInv == Init => IInv
  <1> SUFFICES ASSUME Init PROVE IInv
    OBVIOUS
  <1> USE DEF Init
  <1>1. TypeOK
    BY DEF TypeOK
  <1>2. MutexInv /\ FrameHandover /\ OccupiedBySomeone /\ TryLeft /\ ReplyAfterSend
    BY DEF MutexInv, FrameHandover, Occupies, OccupiedBySomeone, TryLeft, ReplyAfterSend
  <1>3. EveryPacketClaimed /\ NoLostWakeup
    BY DEF EveryPacketClaimed, NoLostWakeup
  <1> QED
    BY <1>1, <1>2, <1>3 DEF IInv

\* Every step preserves the invariant.  The steps that only move a thread or
\* the mutex are leaves; Offer, Finish and Send, which move the channel from
\* one of its states to the next, are proved conjunct by conjunct.
LEMMA NextInv == IInv /\ [Next]_vars => IInv'
  <1> SUFFICES ASSUME IInv, [Next]_vars PROVE IInv'
    OBVIOUS
  <1> USE DEF IInv, TypeOK
  <1>1. ASSUME NEW t \in Callers, Call(t) PROVE IInv'
    BY <1>1 DEF Call, MutexInv, FrameHandover, Occupies, OccupiedBySomeone,
      TryLeft, ReplyAfterSend, EveryPacketClaimed, NoLostWakeup
  <1>2. ASSUME NEW t \in Callers, Acquire(t) PROVE IInv'
    BY <1>2 DEF Acquire, MutexInv, FrameHandover, Occupies, OccupiedBySomeone,
      TryLeft, ReplyAfterSend, EveryPacketClaimed, NoLostWakeup
  <1>3. ASSUME NEW t \in Callers, SpuriousWakeup(t) PROVE IInv'
    BY <1>3 DEF SpuriousWakeup, MutexInv, FrameHandover, Occupies, OccupiedBySomeone,
      TryLeft, ReplyAfterSend, EveryPacketClaimed, NoLostWakeup
  <1>4. ASSUME NEW t \in Callers, AwaitChannel(t) PROVE IInv'
    BY <1>4 DEF AwaitChannel, MutexInv, FrameHandover, Occupies, OccupiedBySomeone,
      TryLeft, ReplyAfterSend, EveryPacketClaimed, NoLostWakeup
  <1>5. ASSUME NEW t \in Callers, AwaitSent(t) PROVE IInv'
    BY <1>5 DEF AwaitSent, MutexInv, FrameHandover, Occupies, OccupiedBySomeone,
      TryLeft, ReplyAfterSend, EveryPacketClaimed, NoLostWakeup
  <1>6. ASSUME NEW t \in Callers, Receive(t) PROVE IInv'
    BY <1>6 DEF Receive, MutexInv, FrameHandover, Occupies, OccupiedBySomeone,
      TryLeft, ReplyAfterSend, EveryPacketClaimed, NoLostWakeup
  <1>7. CASE TryLock
    BY <1>7 DEF TryLock, MutexInv, FrameHandover, Occupies, OccupiedBySomeone,
      TryLeft, ReplyAfterSend, EveryPacketClaimed, NoLostWakeup
  <1>8. CASE NothingToSend
    BY <1>8 DEF NothingToSend, MutexInv, FrameHandover, Occupies, OccupiedBySomeone,
      TryLeft, ReplyAfterSend, EveryPacketClaimed, NoLostWakeup
  <1>9. ASSUME NEW t \in Callers, Offer(t) PROVE IInv'
    <2> USE <1>9 DEF Offer
    <2>1. TypeOK'
      OBVIOUS
    <2>2. MutexInv' /\ TryLeft'
      BY DEF MutexInv, TryLeft
    <2>3. FrameHandover' /\ OccupiedBySomeone' /\ ReplyAfterSend'
      BY DEF MutexInv, FrameHandover, Occupies, OccupiedBySomeone, ReplyAfterSend
    <2>4. EveryPacketClaimed'
      BY DEF EveryPacketClaimed
    <2>5. NoLostWakeup'
      BY DEF NoLostWakeup
    <2> QED
      BY <2>1, <2>2, <2>3, <2>4, <2>5
  <1>10. ASSUME NEW t \in Callers, Finish(t) PROVE IInv'
    <2>1. PICK success \in BOOLEAN, next \in {"out", "lock"} :
            Claim(success) /\ Retry(t, success, next) /\ SignalShare(t, next)
      BY <1>10 DEF Finish
    <2>2. /\ pc[t] = "rx" /\ state' = "IDLE" /\ handle' = -1
          /\ mutex' = NONE /\ frame' = frame
      BY <1>10 DEF Finish
    <2>3. tries[t] < MaxTries /\ mutex = t
      BY <2>2 DEF TryLeft, MutexInv
    <2>4. /\ tries' \in [Callers -> 0..MaxTries]
          /\ result' \in [Callers -> {"none", "true", "false"}]
          /\ next # "out" => tries'[t] < MaxTries
          /\ \A u \in Callers : u # t => tries'[u] = tries[u]
      BY <2>1, <2>3 DEF Retry
    <2>5. /\ pc' \in [Callers -> {"out"} \cup Waiting \cup Contending \cup Inside]
          /\ pc'[t] = next
          /\ \A u \in Callers \ {t} :
               \/ pc'[u] = pc[u]
               \/ pc[u] = "share_wait" /\ pc'[u] = "share_woken"
          /\ (\E u \in Callers : pc[u] = "share_wait")
               => \E u \in Callers : pc'[u] = "share_woken"
      BY <2>1, <2>2 DEF SignalShare
    <2>6. wire' = {}
      BY <2>1, <2>2 DEF Claim, EveryPacketClaimed
    <2>7. TypeOK'
      BY <2>2, <2>4, <2>5, <2>6
    <2>8. MutexInv' /\ TryLeft'
      BY <2>2, <2>3, <2>4, <2>5 DEF MutexInv, TryLeft
    <2>9. FrameHandover' /\ OccupiedBySomeone' /\ ReplyAfterSend'
      BY <2>2, <2>5 DEF FrameHandover, Occupies, OccupiedBySomeone, ReplyAfterSend
    <2>10. EveryPacketClaimed'
      BY <2>2, <2>6 DEF EveryPacketClaimed
    <2>11. NoLostWakeup'
      BY <2>2, <2>5 DEF NoLostWakeup
    <2> QED
      BY <2>7, <2>8, <2>9, <2>10, <2>11
  <1>11. CASE Send
    <2> USE <1>11 DEF Send, SendFrame
    <2>1. frame \in Callers /\ wire = {}
      BY DEF OccupiedBySomeone, EveryPacketClaimed
    <2>2. \/ handle' = -1 /\ wire' = {}
          \/ handle' \in Handles /\ wire' = {<<handle', frame>>}
      BY <2>1
    <2>3. /\ pc' \in [Callers -> {"out"} \cup Waiting \cup Contending \cup Inside]
          /\ \A u \in Callers :
               \/ pc'[u] = pc[u] /\ pc[u] # "busy_wait"
               \/ pc[u] = "busy_wait" /\ pc'[u] = "busy_woken"
      BY DEF SignalBusy, FrameHandover, Occupies
    <2>4. TypeOK'
      BY <2>1, <2>2, <2>3
    <2>5. MutexInv' /\ TryLeft'
      BY <2>3 DEF MutexInv, TryLeft
    <2>6. FrameHandover' /\ OccupiedBySomeone' /\ ReplyAfterSend'
      BY <2>1, <2>3 DEF FrameHandover, Occupies, OccupiedBySomeone, ReplyAfterSend
    <2>7. EveryPacketClaimed'
      BY <2>2 DEF EveryPacketClaimed
    <2>8. NoLostWakeup'
      BY <2>3 DEF NoLostWakeup
    <2> QED
      BY <2>4, <2>5, <2>6, <2>7, <2>8
  <1>12. CASE UNCHANGED vars
    BY <1>12 DEF vars, MutexInv, FrameHandover, Occupies, OccupiedBySomeone,
      TryLeft, ReplyAfterSend, EveryPacketClaimed, NoLostWakeup
  <1> QED
    BY <1>1, <1>2, <1>3, <1>4, <1>5, <1>6, <1>7, <1>8, <1>9, <1>10, <1>11, <1>12 DEF Next, Caller, Tx

\* In every reachable state the channel belongs to at most one caller, no packet
\* is left behind in netif, and no wake-up is lost.
THEOREM Invariance == Spec => []IInv
  BY InitInv, NextInv, PTL DEF Spec

\* The safety invariants the runs check, for every value of the constants.
THEOREM TypeCorrect == Spec => []TypeOK
  BY Invariance, PTL DEF IInv

\* One owner of the channel at a time, whose frame_ it stays.
THEOREM HandoverIsSafe == Spec => []FrameHandover
  BY Invariance, PTL DEF IInv

\* Every packet ni_->tx leaves with netif is claimed by the rx that follows.
THEOREM PacketsAreClaimed == Spec => []EveryPacketClaimed
  BY Invariance, PTL DEF IInv

\* Both condition variables are signalled whenever somebody must be woken.
THEOREM WakeupsArrive == Spec => []NoLostWakeup
  BY Invariance, PTL DEF IInv

-----------------------------------------------------------------------------
(* Refinement of EthercatCom. *)

\* An idle channel is an interface that nobody uses.
LEMMA InitRefines == Init => Com!Init
  BY DEF Init, Com!Init, Phase

\* A step of the channel is a step of the interface, or invisible to it.
LEMMA NextRefines == IInv /\ [Next]_vars => [Com!Next]_(Com!comVars)
  <1> SUFFICES ASSUME IInv, [Next]_vars PROVE [Com!Next]_(Com!comVars)
    OBVIOUS
  <1> USE DEF IInv, TypeOK
  <1>1. ASSUME NEW t \in Callers, Call(t) PROVE Com!Call(t)
    <2>1. ~(frame = t /\ handle # -1)
      BY <1>1 DEF Call, FrameHandover, Occupies, EveryPacketClaimed
    <2>2. Phase' = [Phase EXCEPT ![t] = "open"]
      BY <1>1, <2>1 DEF Call, Phase
    <2> QED
      BY <1>1, <2>2 DEF Call, Com!Call, Phase
  <1>2. ASSUME NEW t \in Callers,
               Acquire(t) \/ SpuriousWakeup(t) \/ AwaitChannel(t) \/ AwaitSent(t) \/ Receive(t)
        PROVE  UNCHANGED Com!comVars
    <2>1. /\ UNCHANGED <<frame, handle, tries, result>>
          /\ pc' \in [Callers -> {"out"} \cup Waiting \cup Contending \cup Inside]
          /\ \A u \in Callers : pc'[u] = "out" <=> pc[u] = "out"
      BY <1>2 DEF Acquire, SpuriousWakeup, AwaitChannel, AwaitSent, Receive
    <2> QED
      BY <2>1 DEF Com!comVars, Phase
  <1>3. CASE TryLock \/ NothingToSend
    BY <1>3 DEF TryLock, NothingToSend, Com!comVars, Phase
  <1>4. ASSUME NEW t \in Callers, Offer(t) PROVE UNCHANGED Com!comVars
    <2>1. handle = -1 /\ pc[t] = "share_test"
      BY <1>4 DEF Offer, EveryPacketClaimed
    <2> QED
      BY <1>4, <2>1 DEF Offer, Com!comVars, Phase
  <1>5. ASSUME NEW t \in Callers, Finish(t) PROVE Com!Answer(t) \/ Com!Fail(t)
    <2>1. PICK success \in BOOLEAN, next \in {"out", "lock"} :
            Claim(success) /\ Retry(t, success, next) /\ SignalShare(t, next)
      BY <1>5 DEF Finish
    <2>2. pc[t] = "rx" /\ handle' = -1 /\ frame = t /\ tries[t] < MaxTries
      BY <1>5 DEF Finish, FrameHandover, Occupies, TryLeft
    <2>3. /\ pc'[t] = next
          /\ \A u \in Callers \ {t} : pc'[u] = "out" <=> pc[u] = "out"
      BY <2>1, <2>2 DEF SignalShare
    <2>4. /\ Phase[t] = IF handle # -1 THEN "sent" ELSE "open"
          /\ Phase' = [Phase EXCEPT ![t] = IF next = "out" THEN "idle" ELSE "open"]
      BY <2>2, <2>3 DEF Phase
    <2>5. CASE success
      BY <2>1, <2>4, <2>5 DEF Claim, Retry, Com!Answer
    <2>6. CASE ~success
      <3>1. /\ Phase[t] # "idle" /\ tries' = [tries EXCEPT ![t] = @ + 1]
            /\ next = IF tries[t] + 1 = MaxTries THEN "out" ELSE "lock"
        BY <2>1, <2>4, <2>6 DEF Retry
      <3>2. CASE tries[t] + 1 = MaxTries
        BY <2>1, <2>2, <2>4, <2>6, <3>1, <3>2 DEF Retry, Com!Fail
      <3>3. CASE tries[t] + 1 # MaxTries
        <4>1. tries[t] + 1 < MaxTries
          BY <2>2, <3>3
        <4> QED
          BY <2>1, <2>2, <2>4, <2>6, <3>1, <3>3, <4>1 DEF Retry, Com!Fail
      <3> QED
        BY <3>2, <3>3
    <2> QED
      BY <2>5, <2>6
  <1>6. CASE Send
    <2>1. /\ frame \in Callers /\ handle = -1 /\ pc[frame] # "out"
          /\ UNCHANGED <<frame, tries, result>>
      BY <1>6 DEF Send, SendFrame, OccupiedBySomeone, EveryPacketClaimed, FrameHandover, Occupies
    <2>2. \A u \in Callers : pc'[u] = "out" <=> pc[u] = "out"
      BY <1>6 DEF Send, SignalBusy
    <2>3. CASE handle' = -1
      BY <2>1, <2>2, <2>3 DEF Com!comVars, Phase
    <2>4. CASE handle' # -1
      <3>1. Phase[frame] = "open" /\ Phase' = [Phase EXCEPT ![frame] = "sent"]
        BY <2>1, <2>2, <2>4 DEF Phase
      <3> QED
        BY <2>1, <3>1 DEF Com!Transmit, Com!Next
    <2> QED
      BY <2>3, <2>4
  <1>7. CASE UNCHANGED vars
    BY <1>7 DEF vars, Com!comVars, Phase
  <1> QED
    BY <1>1, <1>2, <1>3, <1>4, <1>5, <1>6, <1>7 DEF Next, Caller, Tx, Com!Next

\* EthercatOobCom is an EthercatCom: a call succeeds only if its own frame was
\* transmitted and answered, and fails only after MaxTries attempts.
THEOREM Refinement == Spec => ImplementsEthercatCom
  BY Invariance, InitRefines, NextRefines, PTL DEF Spec, ImplementsEthercatCom, Com!Spec
=============================================================================
