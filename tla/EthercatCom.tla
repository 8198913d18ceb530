---------------------------- MODULE EthercatCom ----------------------------
(***************************************************************************)
(* What the interface class EthercatCom promises its callers: txandrx      *)
(* puts the caller's frame on the wire, at most MaxTries times, and        *)
(* returns TRUE only when the reply to a transmission of this very call    *)
(* was received.  Who serves whom, and when, is left open.                 *)
(***************************************************************************)
EXTENDS Naturals

CONSTANTS Callers,   \* threads that use the interface, each with its own frame
          MaxTries   \* attempts of txandrx

VARIABLES phase,   \* "idle", "open" (called, frame not on the wire), "sent"
          tries,   \* failed attempts of the current or last call
          result   \* what the last call returned, "none" before the first

comVars == <<phase, tries, result>>

Init ==
  /\ phase = [t \in Callers |-> "idle"]
  /\ tries = [t \in Callers |-> 0]
  /\ result = [t \in Callers |-> "none"]

Call(t) ==
  /\ phase[t] = "idle"
  /\ phase' = [phase EXCEPT ![t] = "open"]
  /\ tries' = [tries EXCEPT ![t] = 0]
  /\ UNCHANGED result

Transmit(t) ==
  /\ phase[t] = "open"
  /\ phase' = [phase EXCEPT ![t] = "sent"]
  /\ UNCHANGED <<tries, result>>

\* Only a call whose frame is on the wire can succeed.
Answer(t) ==
  /\ phase[t] = "sent"
  /\ phase' = [phase EXCEPT ![t] = "idle"]
  /\ result' = [result EXCEPT ![t] = "true"]
  /\ UNCHANGED tries

\* An attempt fails before or after the transmission; the last one ends the call.
Fail(t) ==
  /\ phase[t] # "idle"
  /\ tries[t] < MaxTries
  /\ tries' = [tries EXCEPT ![t] = @ + 1]
  /\ \/ /\ tries[t] + 1 < MaxTries
        /\ phase' = [phase EXCEPT ![t] = "open"]
        /\ UNCHANGED result
     \/ /\ tries[t] + 1 = MaxTries
        /\ phase' = [phase EXCEPT ![t] = "idle"]
        /\ result' = [result EXCEPT ![t] = "false"]

Next == \E t \in Callers : Call(t) \/ Transmit(t) \/ Answer(t) \/ Fail(t)

Spec == Init /\ [][Next]_comVars
=============================================================================
