----------------------------- MODULE DriverOob -----------------------------
(***************************************************************************)
(* The driver's real-time thread composed with the out-of-band channel:    *)
(* OobCom lets the real-time thread call tx() whenever it likes; here the  *)
(* call is where the code has it, in txandrx_PD, after every try of a      *)
(* cycle's process data exchange has failed.  The exchange itself is in    *)
(* DriverCycle; only its outcome matters here.                             *)
(***************************************************************************)
EXTENDS OobComProperties

VARIABLE cycle   \* the real-time thread: "wait", "exchange", or in tx(): "trylock", "tx"

cycleVars == <<vars, cycle>>

CycleInit == Init /\ cycle = "wait"

\* The timed wait is over, update runs.
Begin == cycle = "wait" /\ cycle' = "exchange" /\ UNCHANGED vars

\* One of the tries succeeded: no tx().
PdOk == cycle = "exchange" /\ cycle' = "wait" /\ UNCHANGED vars

\* max_pd_retries_ tries failed: "Sending as OOB data".
PdFailed == cycle = "exchange" /\ cycle' = "trylock" /\ UNCHANGED vars

\* The two outcomes of pthread_mutex_trylock.
Locked == cycle = "trylock" /\ TryLock /\ cycle' = "tx"

BusyWaits ==   \* lock() in place of trylock()
  /\ cycle = "trylock" /\ mutex # NONE /\ UNCHANGED cycleVars

Busy == cycle = "trylock" /\ mutex # NONE /\ cycle' = "wait" /\ UNCHANGED vars

CycleTx == cycle = "tx" /\ Tx /\ cycle' = "wait"

RealTime == Begin \/ PdOk \/ PdFailed \/ Locked \/ Busy \/ CycleTx

CallerStep(t) == (Caller(t) \/ SpuriousWakeup(t)) /\ UNCHANGED cycle

CycleNext == RealTime \/ \E t \in Callers : CallerStep(t)

CycleSpec == CycleInit /\ [][CycleNext]_cycleVars

\* The real-time thread runs on; nothing is assumed of the callers.
RtSpec == CycleSpec /\ WF_cycleVars(RealTime)

\* The callers run on as well, as in OobComProperties.
CallersFair ==
  /\ \A t \in Callers :
       /\ WF_cycleVars((AwaitChannel(t) \/ Offer(t) \/ AwaitSent(t) \/ Receive(t) \/ Finish(t))
                        /\ UNCHANGED cycle)
       /\ SF_cycleVars(Acquire(t) /\ UNCHANGED cycle)
  /\ <>[][~ \E t \in Callers : SpuriousWakeup(t)]_cycleVars

CycleLiveSpec == RtSpec /\ CallersFair

-----------------------------------------------------------------------------
(* What stands between an offered frame and the real-time thread.            *)

\* The steps of t, while a frame waits to be sent, until t sleeps.
StepsLeft(t) ==
  CASE pc[t] = "out" -> 3
    [] pc[t] \in Contending -> 2
    [] pc[t] \in {"share_test", "busy_test"} -> 1
    [] OTHER -> 0

\* While a frame waits to be sent, every step of a caller brings that caller closer
\* to sleep and no other one farther from it, and no caller takes the offer back; if
\* a try for the lock fails, the lock is with a caller whose next step is to sleep,
\* never with one that waits for the network in ni_->rx.  So, wake-ups without a
\* signal aside, the callers keep the lock from tx() in at most three steps each,
\* and of the cycles that fail after them the first one sends the frame
\* (ethercat_com.cpp:148-175 against :194-208).
OfferComesCloser ==
  [][state = "READY_TO_SEND" =>
       /\ \A t \in Callers : Caller(t) =>
            StepsLeft(t)' < StepsLeft(t) /\ state' = "READY_TO_SEND"
       /\ state' = "READY_TO_SEND" =>
            \A t \in Callers : StepsLeft(t)' <= StepsLeft(t) \/ SpuriousWakeup(t)
       /\ Busy => \E t \in Callers : mutex = t /\ StepsLeft(t) = 1]_cycleVars

\* The cycle never waits for the callers, not even for one that stays in
\* ni_->rx with the mutex held: each call of tx() returns (ethercat_com.cpp:194-208).
RtNeverWaits == cycle # "wait" ~> cycle = "wait"

\* While process data exchanges keep failing, out-of-band frames get through.
OfferAnsweredIfPdFails == CallersFair /\ []<>(cycle = "trylock") => OfferIsAnswered

\* ethercat_com.cpp:160: "RT control loop will send frame": a frame offered to
\* a running control loop is sent.
OfferedFrameIsSent == state = "READY_TO_SEND" ~> state = "WAITING_TO_RECV"
=============================================================================
